--------------------------- MODULE TlsRecordsProofs ---------------------------
(***************************************************************************)
(* For pages, windows and certificates of any size and any number of       *)
(* records: what the server sends is opened by a client that keeps to      *)
(* RFC 5246, and is the page; and what such a client sends is read.  The   *)
(* certificate, and the private key, are those of the files they are read  *)
(* from, for every one that fits and lines of any length.                  *)
(***************************************************************************)
EXTENDS TlsRecords, PemFiles, BasicProofs

\* A text of one byte again and again.
LEMMA FilledIs ==
  ASSUME NEW n \in Nat, NEW b, NEW T, b \in T
  PROVE  IsText(Filled(n, b), n, T) /\ \A i \in 1 .. n : Filled(n, b)[i] = b
BY ConstantIs DEF Filled

-----------------------------------------------------------------------------
(* Keys *)

\* The keys that the server cuts from the output of its PRF are those that the
\* RFC cuts from its key block.
LEMMA KeysAreThoseOfTheRfc ==
  ServerKeys.serverMacKey = MacKey /\ ServerKeys.serverWriteKey = WriteKey
<1> DEFINE seed == <<<<"key expansion">>, ServerRandom, ClientRandom>>
           hmac(text) == <<"hmac", Master, text>>
           IsRun(f) == f = [j \in 1 .. 4 |->
                              HmacSha256Of(Master, IF j = 1 THEN seed ELSE <<f[j - 1]>>)]
           thisA == CHOOSE f : IsRun(f)
           a1 == hmac(seed)
           a2 == hmac(<<a1>>)
           a3 == hmac(<<a2>>)
           a4 == hmac(<<a3>>)
           hash == PrfHmacSha256(Master, seed, 4)
<1>1. hash = [j \in 1 .. 4 |-> hmac(<<thisA[j]>> \o seed)]
  BY DEF PrfHmacSha256, HmacSha256Of
<1>2. KeyBlock = [j \in 1 .. 4 |-> hmac((CASE j = 0 -> seed [] j = 1 -> <<a1>> [] j = 2 -> <<a2>>
                                           [] j = 3 -> <<a3>> [] j = 4 -> <<a4>>) \o seed)]
  BY DEF KeyBlock
<1>3. ServerKeys.serverMacKey = Slice(hash, 20, 20) /\ ServerKeys.serverWriteKey = Slice(hash, 56, 16)
  BY DEF ServerKeys, TlsPrfKeysAes128Sha1
<1> HIDE DEF hash
<1>4. IsRun([j \in 1 .. 4 |-> IF j = 1 THEN a1 ELSE IF j = 2 THEN a2 ELSE IF j = 3 THEN a3 ELSE a4])
  <2> DEFINE g == [j \in 1 .. 4 |-> IF j = 1 THEN a1 ELSE IF j = 2 THEN a2 ELSE IF j = 3 THEN a3 ELSE a4]
             next == [j \in 1 .. 4 |-> HmacSha256Of(Master, IF j = 1 THEN seed ELSE <<g[j - 1]>>)]
  <2> HIDE DEF a1, a2, a3, a4, seed
  <2>1. /\ 1 \in 1 .. 4 /\ 2 \in 1 .. 4 /\ 3 \in 1 .. 4 /\ 2 - 1 = 1 /\ 3 - 1 = 2 /\ 4 - 1 = 3
        /\ \A j \in 1 .. 4 : j \in {1, 2, 3, 4}
    OBVIOUS
  <2>2. g[1] = a1 /\ g[2] = a2 /\ g[3] = a3
    BY <2>1
  <2>3. a1 = hmac(seed) /\ a2 = hmac(<<a1>>) /\ a3 = hmac(<<a2>>) /\ a4 = hmac(<<a3>>)
    BY DEF a1, a2, a3, a4
  <2> HIDE DEF g, hmac
  <2>4. ASSUME NEW j \in 1 .. 4
        PROVE  HmacSha256Of(Master, IF j = 1 THEN seed ELSE <<g[j - 1]>>)
                 = IF j = 1 THEN a1 ELSE IF j = 2 THEN a2 ELSE IF j = 3 THEN a3 ELSE a4
    <3>1. \A text : HmacSha256Of(Master, text) = hmac(text)
      BY DEF HmacSha256Of, hmac
    <3>2. CASE j = 1
      BY <3>1, <3>2, <2>3
    <3>3. CASE j = 2
      BY <3>1, <3>3, <2>1, <2>2, <2>3
    <3>4. CASE j = 3
      BY <3>1, <3>4, <2>1, <2>2, <2>3
    <3>5. CASE j = 4
      BY <3>1, <3>5, <2>1, <2>2, <2>3
    <3> QED
      BY <2>1, <3>2, <3>3, <3>4, <3>5
  <2>5. g = next
    BY <2>4 DEF g
  <2> QED
    BY <2>5 DEF g
<1>5. IsRun(thisA)
  BY <1>4
<1> HIDE DEF thisA, seed
<1>6. /\ thisA[1] = hmac(seed) /\ thisA[2] = hmac(<<thisA[1]>>)
      /\ thisA[3] = hmac(<<thisA[2]>>) /\ thisA[4] = hmac(<<thisA[3]>>)
  <2>1. /\ 1 \in 1 .. 4 /\ 2 \in 1 .. 4 /\ 3 \in 1 .. 4 /\ 4 \in 1 .. 4
        /\ 2 - 1 = 1 /\ 3 - 1 = 2 /\ 4 - 1 = 3 /\ 2 # 1 /\ 3 # 1 /\ 4 # 1
    OBVIOUS
  <2>2. \A j \in 1 .. 4 : thisA[j] = hmac(IF j = 1 THEN seed ELSE <<thisA[j - 1]>>)
    BY <1>5 DEF HmacSha256Of
  <2> HIDE DEF hmac
  <2> QED
    BY <2>1, <2>2
<1>7. thisA[1] = a1 /\ thisA[2] = a2 /\ thisA[3] = a3 /\ thisA[4] = a4
  BY <1>6
<1> HIDE DEF a1, a2, a3, a4, hmac
<1>8. ASSUME NEW j \in 1 .. 4
      PROVE  <<thisA[j]>> = CASE j = 0 -> seed [] j = 1 -> <<a1>> [] j = 2 -> <<a2>>
                              [] j = 3 -> <<a3>> [] j = 4 -> <<a4>>
  <2>1. j \in {1, 2, 3, 4}
    OBVIOUS
  <2> QED
    BY <1>7, <2>1
<1>9. hash = KeyBlock
  BY <1>1, <1>2, <1>8
<1> QED
  BY <1>3, <1>9 DEF Slice, MacKey, WriteKey

-----------------------------------------------------------------------------
(* Records *)

\* The record is encrypted with a key for each side, p bytes of padding and one for
\* their number make whole blocks of it.
IsProtected(record, sequence, type, payload, n, T) ==
  /\ record.type = type /\ record.key = WriteKey
  /\ record.length = 16 + Len(record.text)
  /\ \E p \in 0 .. 15 :
       /\ IsText(record.text, n + 21 + p, T) /\ (n + 21 + p) % 16 = 0
       /\ First(record.text, n) = payload
       /\ \A j \in n + 21 .. n + 21 + p : record.text[j] = Byte(p)
       /\ \A j \in 1 .. 20 :
            record.text[n + j] =
              <<"mac", MacKey, BigEndian(sequence, 8) \o <<Byte(type), Byte(3), Byte(3)>>
                                 \o BigEndian(n, 2) \o payload, j>>

\* The bytes of records whose payload is of T.
Protected(T, sequence, type, payload) ==
  T \cup {Byte(p) : p \in 0 .. 15}
    \cup {<<"mac", MacKey, MacText(sequence, type, payload), j>> : j \in 1 .. 20}

LEMMA PaddingMakesBlocks ==
  ASSUME NEW n \in Nat
  PROVE  /\ 15 - ((n + 20) % 16) \in 0 .. 15
         /\ (n + 21 + (15 - ((n + 20) % 16))) % 16 = 0
<1>1. (n + 20) % 16 \in 0 .. 15 /\ n + 20 = 16 * ((n + 20) \div 16) + ((n + 20) % 16)
      /\ (n + 20) \div 16 \in Int
  BY Division
<1> DEFINE q == (n + 20) \div 16
           r == (n + 20) % 16
<1>2. n + 21 + (15 - r) = 16 * (q + 1) + 0
  BY <1>1
<1>3. q + 1 \in Int /\ n + 21 + (15 - r) \in Int /\ 0 \in 0 .. 16 - 1 /\ 16 \in Nat \ {0}
  BY <1>1
<1> HIDE DEF q, r
<1>4. (n + 21 + (15 - r)) % 16 = 0
  BY <1>2, <1>3, RemainderIs
<1> QED
  BY <1>1, <1>4 DEF r

LEMMA EncryptIs ==
  ASSUME NEW T, NEW n, NEW payload, IsText(payload, n, T), NEW sequence, NEW type
  PROVE  IsProtected(Encrypt(sequence, type, payload), sequence, type, payload, n,
                     Protected(T, sequence, type, payload))
<1> DEFINE U == Protected(T, sequence, type, payload)
           mac == TlsMacSha1(ServerKeys.serverMacKey, sequence, type, payload)
           p == 15 - ((n + 20) % 16)
           padding == Padding(payload)
           head == payload \o mac
           text == head \o padding
           record == Encrypt(sequence, type, payload)
<1>1. n \in Nat /\ Len(payload) = n /\ p \in 0 .. 15 /\ (n + 21 + p) % 16 = 0
  BY TextIs, PaddingMakesBlocks
<1>2. IsText(payload, n, U)
  BY TextIn DEF Protected
<1>3. IsText(mac, 20, U) /\ \A j \in 1 .. 20 : mac[j] = <<"mac", MacKey, MacText(sequence, type, payload), j>>
  <2>1. mac = [j \in 1 .. 20 |-> <<"mac", MacKey, MacText(sequence, type, payload), j>>]
    BY KeysAreThoseOfTheRfc DEF TlsMacSha1, SHA1_HASH_SIZE
  <2>2. IsTable(mac, 20, U) /\ 20 \in Nat
    BY <2>1 DEF Protected, IsTable
  <2> QED
    BY <2>1, <2>2, IsTextOf
<1>4. IsText(padding, p + 1, U) /\ \A j \in 1 .. p + 1 : padding[j] = Byte(p)
  <2>1. p + 1 \in Nat /\ Byte(p) \in U
    <3> HIDE DEF p
    <3>1. p + 1 \in Nat
      BY <1>1
    <3>2. Byte(p) \in {Byte(q) : q \in 0 .. 15}
      BY <1>1
    <3> QED
      BY <3>1, <3>2 DEF Protected
  <2>2. n + 20 + 1 - 1 = n + 20 /\ 16 - 1 - ((n + 20) % 16) = p
    BY <1>1
  <2>3. padding = Filled(p + 1, Byte(p))
    BY <1>1, <2>2 DEF Padding, AES128CBC_BLOCK_SIZE, SHA1_HASH_SIZE
  <2> HIDE DEF p, U
  <2> QED
    BY <2>1, <2>3, FilledIs
<1>5. record.type = type /\ record.key = WriteKey /\ record.length = 16 + Len(text) /\ record.text = text
  BY KeysAreThoseOfTheRfc DEF Encrypt, AES128CBC_BLOCK_SIZE
<1> HIDE DEF mac, padding, record, U, p
<1>6. IsConcat(payload, n, mac, 20, head, U)
  BY <1>2, <1>3, ConcatIs
<1> HIDE DEF head
<1>7. IsText(head, n + 20, U)
  BY <1>6 DEF IsConcat
<1>8. IsConcat(head, n + 20, padding, p + 1, text, U)
  BY <1>4, <1>7, ConcatIs
<1> HIDE DEF text
<1>9. (n + 20) + (p + 1) = n + 21 + p
  BY <1>1
<1>10. IsText(text, n + 21 + p, U)
  BY <1>8, <1>9 DEF IsConcat
<1>11. First(text, n) = payload
  <2>1. ASSUME NEW i \in 1 .. n PROVE text[i] = payload[i]
    <3>1. i \in 1 .. n + 20
      BY <1>1
    <3> QED
      BY <3>1, <1>6, <1>8 DEF IsConcat
  <2>2. n + 21 + p = n + (21 + p) /\ 21 + p \in Nat
    BY <1>1
  <2> DEFINE rest == [i \in 1 .. 21 + p |-> text[n + i]]
  <2>3. \A i \in 1 .. 21 + p : text[n + i] = rest[i]
    OBVIOUS
  <2> HIDE DEF rest
  <2>4. IsConcat(payload, n, rest, 21 + p, text, U)
    BY <1>10, <2>1, <2>2, <2>3 DEF IsConcat
  <2> QED
    BY <1>2, <2>2, <2>4, FirstOfConcat DEF First
<1>12. ASSUME NEW j \in 1 .. 20 PROVE text[n + j] = <<"mac", MacKey, MacText(sequence, type, payload), j>>
  <2>1. n + j \in 1 .. n + 20
    BY <1>1
  <2>2. text[n + j] = head[n + j] /\ head[n + j] = mac[j]
    BY <1>6, <1>8, <2>1 DEF IsConcat
  <2> QED
    BY <1>3, <2>2
<1>13. ASSUME NEW j \in n + 21 .. n + 21 + p PROVE text[j] = Byte(p)
  <2>1. j - (n + 20) \in 1 .. p + 1 /\ (n + 20) + (j - (n + 20)) = j
    BY <1>1
  <2>2. text[j] = padding[j - (n + 20)]
    BY <1>8, <2>1 DEF IsConcat
  <2> QED
    BY <1>4, <2>1, <2>2
<1>14. MacText(sequence, type, payload)
         = BigEndian(sequence, 8) \o <<Byte(type), Byte(3), Byte(3)>> \o BigEndian(n, 2) \o payload
  BY <1>1 DEF MacText
<1>15. /\ IsText(record.text, n + 21 + p, U) /\ (n + 21 + p) % 16 = 0
       /\ First(record.text, n) = payload
       /\ \A j \in n + 21 .. n + 21 + p : record.text[j] = Byte(p)
  BY <1>1, <1>5, <1>10, <1>11, <1>13
<1>16. \A j \in 1 .. 20 :
         record.text[n + j] =
           <<"mac", MacKey, BigEndian(sequence, 8) \o <<Byte(type), Byte(3), Byte(3)>>
                              \o BigEndian(n, 2) \o payload, j>>
  BY <1>5, <1>12, <1>14
<1>17. IsProtected(record, sequence, type, payload, n, U)
  BY <1>1, <1>5, <1>15, <1>16 DEF IsProtected
<1> QED
  BY <1>17 DEF record, U

\* A client opens such a record, and finds the payload in it.
LEMMA ProtectedOpens ==
  ASSUME NEW T, NEW n \in Nat, NEW payload, Len(payload) = n, NEW i, NEW type, NEW record,
         IsProtected(record, i, type, payload, n, T)
  PROVE  /\ Payload(record) = payload /\ Opens(record, i)
         /\ Size(record) \in n + 42 .. n + 57
<1>1. PICK p \in 0 .. 15 :
        /\ IsText(record.text, n + 21 + p, T) /\ (n + 21 + p) % 16 = 0
        /\ First(record.text, n) = payload
        /\ \A j \in n + 21 .. n + 21 + p : record.text[j] = Byte(p)
        /\ \A j \in 1 .. 20 :
             record.text[n + j] =
               <<"mac", MacKey, BigEndian(i, 8) \o <<Byte(type), Byte(3), Byte(3)>>
                                  \o BigEndian(n, 2) \o payload, j>>
  BY DEF IsProtected
<1>2. Len(record.text) = n + 21 + p
  BY <1>1 DEF IsText
<1>3. n + 21 + p \in n + 21 .. n + 21 + p /\ (n + 21 + p) - p - 21 = n
  OBVIOUS
<1>4. PaddingLength(record) = p
  <2>1. record.text[Len(record.text)] = Byte(p) /\ Byte(p)[2] = p
    BY <1>1, <1>2, <1>3 DEF Byte
  <2> QED
    BY <2>1 DEF PaddingLength
<1>5. Payload(record) = payload
  BY <1>1, <1>2, <1>3, <1>4 DEF Payload
<1>6. record.key = WriteKey /\ record.type = type /\ record.length = 16 + Len(record.text)
  BY DEF IsProtected
<1>8. Size(record) = n + 42 + p
  BY <1>2, <1>6 DEF Size
<1>7. Opens(record, i)
  BY <1>1, <1>2, <1>4, <1>5, <1>6 DEF Opens
<1> QED
  BY <1>5, <1>7, <1>8

\* What the server makes of a client's text, however long its padding, is its payload.
LEMMA RequestIsRead ==
  ASSUME NEW T, NEW n, NEW payload, IsText(payload, n, T), NEW padding \in 0 .. 255
  PROVE  PlainOf(ClientText(payload, padding)) = payload
<1> DEFINE U == T \cup {Octet("mac", i) : i \in 1 .. 20} \cup {Byte(padding)}
           mac == Given("mac", 20)
           filled == Filled(padding + 1, Byte(padding))
           tail == mac \o filled
           head == payload \o mac
           text == head \o filled
<1>1. n \in Nat /\ padding \in Nat
  <2>1. padding \in Nat
    OBVIOUS
  <2>2. n \in Nat
    BY TextIs
  <2> QED
    BY <2>1, <2>2
<1>15. ClientText(payload, padding) = text
  BY DEF ClientText, SHA1_HASH_SIZE
<1>2. IsText(payload, n, U)
  BY TextIn
<1>3. IsText(mac, 20, U)
  <2>1. IsTable(mac, 20, U)
    BY DEF Given, IsTable
  <2> QED
    BY <2>1, IsTextOf
<1>4. IsText(filled, padding + 1, U) /\ \A j \in 1 .. padding + 1 : filled[j] = Byte(padding)
  BY <1>1, FilledIs
<1> HIDE DEF U, mac, filled
<1>5. IsConcat(payload, n, mac, 20, head, U)
  BY <1>2, <1>3, ConcatIs
<1> HIDE DEF head
<1>6. IsText(head, n + 20, U)
  BY <1>5 DEF IsConcat
<1>7. IsConcat(head, n + 20, filled, padding + 1, text, U)
  BY <1>4, <1>6, ConcatIs
<1> HIDE DEF text
<1>8. IsText(text, n + 21 + padding, U)
  <2>1. (n + 20) + (padding + 1) = n + 21 + padding
    BY <1>1
  <2> QED
    BY <1>7, <2>1 DEF IsConcat
<1>9. Len(text) = n + 21 + padding
  BY <1>8 DEF IsText
<1>10. text[Len(text)] = Byte(padding)
  <2>1. padding + 1 \in 1 .. padding + 1 /\ (n + 20) + (padding + 1) = n + 21 + padding
    BY <1>1
  <2> QED
    BY <1>4, <1>7, <1>9, <2>1 DEF IsConcat
<1>11. First(text, n) = payload
  <2>1. ASSUME NEW i \in 1 .. n PROVE text[i] = payload[i]
    <3>1. i \in 1 .. n + 20
      BY <1>1
    <3> QED
      BY <3>1, <1>5, <1>7 DEF IsConcat
  <2>2. n + 21 + padding = n + (21 + padding) /\ 21 + padding \in Nat
    BY <1>1
  <2> DEFINE rest == [i \in 1 .. 21 + padding |-> text[n + i]]
  <2>3. \A i \in 1 .. 21 + padding : text[n + i] = rest[i]
    OBVIOUS
  <2> HIDE DEF rest
  <2>4. IsConcat(payload, n, rest, 21 + padding, text, U)
    BY <1>8, <2>1, <2>2, <2>3 DEF IsConcat
  <2> QED
    BY <1>2, <2>2, <2>4, FirstOfConcat DEF First
<1>12. text[Len(text)][2] = padding
  BY <1>10 DEF Byte
<1>13. (16 + (n + 21 + padding)) - 16 - padding - 20 - 1 = n
  BY <1>1
<1>14. PlainOf(text) = payload
  BY <1>9, <1>11, <1>12, <1>13 DEF PlainOf, AES128CBC_BLOCK_SIZE, SHA1_HASH_SIZE
<1> QED
  BY <1>14, <1>15

LEMMA EncryptOpens ==
  ASSUME NEW T, NEW n, NEW payload, IsText(payload, n, T), NEW i, NEW type
  PROVE  /\ Payload(Encrypt(i, type, payload)) = payload /\ Opens(Encrypt(i, type, payload), i)
         /\ Size(Encrypt(i, type, payload)) \in n + 42 .. n + 57
<1>1. n \in Nat /\ Len(payload) = n
  BY TextIs
<1> DEFINE record == Encrypt(i, type, payload)
           U == Protected(T, i, type, payload)
<1>2. IsProtected(record, i, type, payload, n, U)
  BY EncryptIs
<1> HIDE DEF record, U
<1>3. /\ Payload(record) = payload /\ Opens(record, i)
      /\ Size(record) \in n + 42 .. n + 57
  BY <1>1, <1>2, ProtectedOpens
<1> QED
  BY <1>3 DEF record

-----------------------------------------------------------------------------
(* Handshake messages *)

\* What the server writes.
Numbers == {Byte(n) : n \in Nat}
OctetsOf(name) == {Octet(name, i) : i \in Nat}
Bytes == Numbers \cup OctetsOf("server random") \cup OctetsOf("session id")
           \cup OctetsOf("certificate") \cup OctetsOf("page") \cup {Verify[i] : i \in 1 .. 12}

HeaderAt(bytes, at, type, n) ==
  /\ bytes[at + 1][2] = type
  /\ bytes[at + 2][2] * 65536 + bytes[at + 3][2] * 256 + bytes[at + 4][2] = n

IsMessage(bytes, type, n) == IsText(bytes, 4 + n, Bytes) /\ HeaderAt(bytes, 0, type, n)

LEMMA NumbersAreBytes ==
  ASSUME NEW n \in Nat
  PROVE  Byte(n) \in Bytes
<1>1. Byte(n) \in Numbers
  BY DEF Numbers
<1> QED
  BY <1>1 DEF Bytes

\* Two bytes have room for n.
IsShort(n) == n \in Nat /\ n < 65536

LEMMA BigEndianIs ==
  ASSUME NEW n, IsShort(n)
  PROVE  /\ IsText(BigEndian(n, 2), 2, Bytes)
         /\ BigEndian(n, 2)[1][2] * 256 + BigEndian(n, 2)[2][2] = n
         /\ BigEndian(n, 2)[1][2] \in Nat /\ BigEndian(n, 2)[2][2] \in Nat
<1> DEFINE b == BigEndian(n, 2)
           high == n \div 256
           low == n % 256
<1>0. n \in Nat /\ n < 65536
  BY DEF IsShort
<1>1. n = 256 * high + low /\ low \in 0 .. 255 /\ high \in Int
  BY <1>0, Division
<1>2. high \in 0 .. 255
  BY <1>0, <1>1
<1>3. high % 256 = high
  BY <1>2
<1>4. n \div 1 = n
  BY <1>0
<1>5. b[1] = Byte(high) /\ b[2] = Byte(low) /\ b \in [1 .. 2 -> {Byte(high), Byte(low)}]
  <2> DEFINE weight == <<1, 256, 65536, 16777216>>
             value(i) == IF 2 - i > 3 THEN 0 ELSE (n \div weight[2 - i + 1]) % 256
  <2>1. b = [i \in 1 .. 2 |-> Byte(value(i))]
    BY DEF BigEndian
  <2>2. weight[1] = 1 /\ weight[2] = 256
    OBVIOUS
  <2> HIDE DEF weight
  <2>3. /\ ~ (2 - 1 > 3) /\ ~ (2 - 2 > 3) /\ 2 - 1 + 1 = 2 /\ 2 - 2 + 1 = 1
        /\ 1 \in 1 .. 2 /\ 2 \in 1 .. 2 /\ \A i \in 1 .. 2 : i \in {1, 2}
    OBVIOUS
  <2>4. value(1) = (n \div 256) % 256 /\ value(2) = (n \div 1) % 256
    BY <2>2, <2>3
  <2>5. value(1) = high /\ value(2) = low
    BY <1>3, <1>4, <2>4
  <2> HIDE DEF b, high, low, value
  <2>6. \A i \in 1 .. 2 : b[i] = Byte(value(i))
    BY <2>1
  <2>7. b[1] = Byte(high) /\ b[2] = Byte(low)
    BY <2>3, <2>5, <2>6
  <2>8. \A i \in 1 .. 2 : Byte(value(i)) \in {Byte(high), Byte(low)}
    BY <2>3, <2>5
  <2> QED
    BY <2>1, <2>7, <2>8
<1>6. {Byte(high), Byte(low)} \subseteq Bytes
  <2> HIDE DEF high, low
  <2>1. high \in Nat /\ low \in Nat
    BY <1>1, <1>2
  <2> QED
    BY <2>1, NumbersAreBytes
<1> HIDE DEF b, high, low
<1>7. IsTable(b, 2, Bytes)
  BY <1>5, <1>6 DEF IsTable
<1>8. IsText(b, 2, Bytes)
  BY <1>7, IsTextOf
<1>9. b[1][2] = high /\ b[2][2] = low
  BY <1>5 DEF Byte
<1>10. b[1][2] * 256 + b[2][2] = n /\ b[1][2] \in Nat /\ b[2][2] \in Nat
  BY <1>1, <1>2, <1>9
<1> QED
  BY <1>8, <1>10 DEF b

LEMMA GivenIs ==
  ASSUME NEW name, NEW T, OctetsOf(name) \subseteq T, NEW n \in Nat
  PROVE  IsText(Given(name, n), n, T)
<1>1. \A i \in 1 .. n : Octet(name, i) \in OctetsOf(name)
  BY DEF OctetsOf
<1>2. IsTable(Given(name, n), n, T)
  BY <1>1 DEF Given, IsTable
<1> QED
  BY <1>2, IsTextOf

LEMMA GivensAreBytes ==
  /\ OctetsOf("server random") \subseteq Bytes /\ OctetsOf("session id") \subseteq Bytes
  /\ OctetsOf("certificate") \subseteq Bytes /\ OctetsOf("page") \subseteq Bytes
BY DEF Bytes

\* Texts of numbers.
LEMMA EmptyText ==
  IsText(<<>>, 0, Bytes)
BY EmptySeq DEF IsText

LEMMA OneNumber ==
  ASSUME NEW a \in Nat
  PROVE  IsText(<<Byte(a)>>, 1, Bytes)
BY NumbersAreBytes DEF IsText

LEMMA TwoNumbers ==
  ASSUME NEW a \in Nat, NEW b \in Nat
  PROVE  IsText(<<Byte(a), Byte(b)>>, 2, Bytes)
BY NumbersAreBytes DEF IsText

LEMMA ThreeNumbers ==
  ASSUME NEW a \in Nat, NEW b \in Nat, NEW c \in Nat
  PROVE  IsText(<<Byte(a), Byte(b), Byte(c)>>, 3, Bytes)
BY NumbersAreBytes DEF IsText

LEMMA SevenNumbers ==
  ASSUME NEW a \in Nat, NEW b \in Nat, NEW c \in Nat, NEW d \in Nat, NEW e \in Nat,
         NEW f \in Nat, NEW g \in Nat
  PROVE  IsText(<<Byte(a), Byte(b), Byte(c), Byte(d), Byte(e), Byte(f), Byte(g)>>, 7, Bytes)
BY NumbersAreBytes DEF IsText

LEMMA TypeIsText ==
  ASSUME NEW type \in Nat
  PROVE  IsText(<<Byte(type), Byte(0)>>, 2, Bytes)
<1>1. 0 \in Nat
  OBVIOUS
<1> QED
  BY <1>1, TwoNumbers

\* A text keeps its messages when more is written behind it or before it.
LEMMA HeaderStays ==
  ASSUME NEW na \in Nat, NEW nb \in Nat, NEW a, NEW b, NEW ab, NEW T,
         IsConcat(a, na, b, nb, ab, T), NEW at \in Nat, NEW type, NEW n
  PROVE  /\ at + 4 <= na /\ HeaderAt(a, at, type, n) => HeaderAt(ab, at, type, n)
         /\ at + 4 <= nb /\ HeaderAt(b, at, type, n) => HeaderAt(ab, na + at, type, n)
<1>1. /\ \A i \in 1 .. na : ab[i] = a[i]
      /\ \A i \in 1 .. nb : ab[na + i] = b[i]
  BY DEF IsConcat
<1>2. ASSUME at + 4 <= na, HeaderAt(a, at, type, n) PROVE HeaderAt(ab, at, type, n)
  <2>1. at + 1 \in 1 .. na /\ at + 2 \in 1 .. na /\ at + 3 \in 1 .. na /\ at + 4 \in 1 .. na
    BY <1>2
  <2>2. /\ ab[at + 1] = a[at + 1] /\ ab[at + 2] = a[at + 2]
        /\ ab[at + 3] = a[at + 3] /\ ab[at + 4] = a[at + 4]
    BY <1>1, <2>1
  <2> QED
    BY <1>2, <2>2 DEF HeaderAt
<1>3. ASSUME at + 4 <= nb, HeaderAt(b, at, type, n) PROVE HeaderAt(ab, na + at, type, n)
  <2>1. at + 1 \in 1 .. nb /\ at + 2 \in 1 .. nb /\ at + 3 \in 1 .. nb /\ at + 4 \in 1 .. nb
    BY <1>3
  <2>2. /\ na + (at + 1) = (na + at) + 1 /\ na + (at + 2) = (na + at) + 2
        /\ na + (at + 3) = (na + at) + 3 /\ na + (at + 4) = (na + at) + 4
    OBVIOUS
  <2>3. /\ ab[na + (at + 1)] = b[at + 1] /\ ab[na + (at + 2)] = b[at + 2]
        /\ ab[na + (at + 3)] = b[at + 3] /\ ab[na + (at + 4)] = b[at + 4]
    BY <1>1, <2>1
  <2>4. /\ ab[(na + at) + 1] = b[at + 1] /\ ab[(na + at) + 2] = b[at + 2]
        /\ ab[(na + at) + 3] = b[at + 3] /\ ab[(na + at) + 4] = b[at + 4]
    BY <2>2, <2>3
  <2> QED
    BY <1>3, <2>4 DEF HeaderAt
<1> QED
  BY <1>2, <1>3

\* A text of so many bytes that begins with the header of a message.
Begins(s, length, type, n) ==
  IsText(s, length, Bytes) /\ 4 <= length /\ HeaderAt(s, 0, type, n)

LEMMA HeaderIs ==
  ASSUME NEW n, IsShort(n), NEW type \in Nat
  PROVE  Begins(<<Byte(type), Byte(0)>> \o BigEndian(n, 2), 4, type, n)
<1> DEFINE a == <<Byte(type), Byte(0)>>
           b == BigEndian(n, 2)
           ab == a \o b
<1>1. IsText(a, 2, Bytes) /\ a[1][2] = type /\ a[2][2] = 0
  <2>1. IsText(<<Byte(type), Byte(0)>>, 2, Bytes)
    BY TypeIsText
  <2> QED
    BY <2>1 DEF Byte
<1>2. IsText(b, 2, Bytes) /\ b[1][2] * 256 + b[2][2] = n /\ b[1][2] \in Nat /\ b[2][2] \in Nat
  BY BigEndianIs
<1> HIDE DEF a, b
<1>3. IsConcat(a, 2, b, 2, ab, Bytes)
  BY <1>1, <1>2, ConcatIs
<1> HIDE DEF ab
<1>4. IsText(ab, 4, Bytes) /\ ab[1] = a[1] /\ ab[2] = a[2] /\ ab[3] = b[1] /\ ab[4] = b[2]
  <2>1. 2 + 2 = 4 /\ 2 + 1 = 3 /\ 1 \in 1 .. 2 /\ 2 \in 1 .. 2
    OBVIOUS
  <2> QED
    BY <1>3, <2>1 DEF IsConcat
<1>5. ab[1][2] = type /\ ab[2][2] * 65536 + ab[3][2] * 256 + ab[4][2] = n
  BY <1>1, <1>2, <1>4
<1>6. HeaderAt(ab, 0, type, n)
  <2>1. 0 + 1 = 1 /\ 0 + 2 = 2 /\ 0 + 3 = 3 /\ 0 + 4 = 4
    OBVIOUS
  <2> QED
    BY <1>5, <2>1 DEF HeaderAt
<1>7. Begins(ab, 4, type, n)
  BY <1>4, <1>6 DEF Begins
<1> QED
  BY <1>7 DEF a, b, ab

LEMMA GoesOn ==
  ASSUME NEW a, NEW na, NEW type, NEW n, Begins(a, na, type, n),
         NEW b, NEW nb, IsText(b, nb, Bytes)
  PROVE  Begins(a \o b, na + nb, type, n)
<1> DEFINE ab == a \o b
<1>1. IsText(a, na, Bytes) /\ HeaderAt(a, 0, type, n) /\ 4 <= na
  BY DEF Begins
<1>2. na \in Nat /\ nb \in Nat
  BY <1>1, TextIs
<1>3. IsConcat(a, na, b, nb, ab, Bytes)
  BY <1>1, ConcatIs
<1> HIDE DEF ab
<1>4. 0 \in Nat /\ 0 + 4 <= na /\ 4 <= na + nb
  BY <1>1, <1>2
<1>5. HeaderAt(ab, 0, type, n)
  BY <1>1, <1>2, <1>3, <1>4, HeaderStays
<1>6. Begins(ab, na + nb, type, n)
  BY <1>3, <1>4, <1>5 DEF IsConcat, Begins
<1> QED
  BY <1>6 DEF ab

LEMMA MessageIs ==
  ASSUME NEW n, IsShort(n), NEW body, IsText(body, n, Bytes), NEW type \in Nat
  PROVE  IsMessage(Message(type, body), type, n)
<1> DEFINE header == <<Byte(type), Byte(0)>> \o BigEndian(n, 2)
<1>1. Len(body) = n
  BY TextIs
<1>2. Message(type, body) = header \o body
  BY <1>1 DEF Message
<1>3. Begins(header, 4, type, n)
  BY HeaderIs
<1> HIDE DEF header
<1>4. Begins(header \o body, 4 + n, type, n)
  BY <1>3, GoesOn
<1> QED
  BY <1>2, <1>4 DEF Begins, IsMessage

\* The messages of a record begin at these places.
AreAt(bytes, messages, m, at) ==
  /\ messages \in Seq(Nat \X Nat) /\ Len(messages) = m
  /\ at \in [1 .. m + 1 -> Nat] /\ at[1] = 0 /\ Len(bytes) = at[m + 1]
  /\ \A i \in 1 .. m : at[i + 1] = at[i] + 4 + messages[i][2]
  /\ \A i \in 1 .. m : HeaderAt(bytes, at[i], messages[i][1], messages[i][2])

LEMMA MessagesAre ==
  ASSUME NEW m \in Nat, NEW messages, NEW at, NEW bytes, AreAt(bytes, messages, m, at)
  PROVE  AreMessages(bytes, messages)
<1> DEFINE IsRun(f) == f = [i \in 1 .. m + 1 |->
                              IF i = 1 THEN 0 ELSE f[i - 1] + 4 + messages[i - 1][2]]
           start == CHOOSE f : IsRun(f)
<1>0. /\ messages \in Seq(Nat \X Nat) /\ Len(messages) = m
      /\ at \in [1 .. m + 1 -> Nat] /\ at[1] = 0 /\ Len(bytes) = at[m + 1]
      /\ \A i \in 1 .. m : at[i + 1] = at[i] + 4 + messages[i][2]
      /\ \A i \in 1 .. m : HeaderAt(bytes, at[i], messages[i][1], messages[i][2])
  BY DEF AreAt
<1>1. IsRun(at)
  <2>1. ASSUME NEW i \in 1 .. m + 1
        PROVE  at[i] = IF i = 1 THEN 0 ELSE at[i - 1] + 4 + messages[i - 1][2]
    <3>1. CASE i # 1
      <4>1. i - 1 \in 1 .. m /\ (i - 1) + 1 = i
        BY <3>1
      <4> QED
        BY <1>0, <3>1, <4>1
    <3> QED
      BY <1>0, <3>1
  <2> QED
    BY <1>0, <2>1
<1>2. IsRun(start)
  BY <1>1
<1>3. AreMessages(bytes, messages)
        <=> /\ Len(bytes) = start[m + 1]
            /\ \A i \in 1 .. m :
                 /\ bytes[start[i] + 1][2] = messages[i][1]
                 /\ bytes[start[i] + 2][2] * 65536 + bytes[start[i] + 3][2] * 256
                      + bytes[start[i] + 4][2] = messages[i][2]
  BY <1>0 DEF AreMessages
<1> HIDE DEF start
<1>4. /\ start[1] = 0
      /\ \A i \in 1 .. m : start[i + 1] = start[i] + 4 + messages[i][2]
  <2>1. 1 \in 1 .. m + 1
    OBVIOUS
  <2>2. \A i \in 1 .. m + 1 : start[i] = IF i = 1 THEN 0 ELSE start[i - 1] + 4 + messages[i - 1][2]
    BY <1>2
  <2>3. ASSUME NEW i \in 1 .. m PROVE start[i + 1] = start[i] + 4 + messages[i][2]
    <3>1. i + 1 \in 1 .. m + 1 /\ i + 1 # 1 /\ (i + 1) - 1 = i
      OBVIOUS
    <3> QED
      BY <2>2, <3>1
  <2> QED
    BY <2>1, <2>2, <2>3
<1> DEFINE Good == {k \in Nat : k \in 0 .. m => start[k + 1] = at[k + 1]}
<1>5. 0 \in Good
  BY <1>0, <1>4
<1>6. ASSUME NEW k \in Nat, k \in Good PROVE k + 1 \in Good
  <2>0. k + 1 \in Nat
    OBVIOUS
  <2> SUFFICES ASSUME k + 1 \in 0 .. m PROVE start[(k + 1) + 1] = at[(k + 1) + 1]
    BY <2>0, Zenon
  <2>1. k \in 0 .. m /\ k + 1 \in 1 .. m
    OBVIOUS
  <2>2. start[k + 1] = at[k + 1]
    BY <1>6, <2>1
  <2>3. start[(k + 1) + 1] = start[k + 1] + 4 + messages[k + 1][2]
    BY <1>4, <2>1
  <2>4. at[(k + 1) + 1] = at[k + 1] + 4 + messages[k + 1][2]
    BY <1>0, <2>1
  <2> QED
    BY <2>2, <2>3, <2>4
<1>7. Nat \subseteq Good
  <2> HIDE DEF Good
  <2> QED
    BY <1>5, <1>6, Induction
<1>8. ASSUME NEW i \in 1 .. m + 1 PROVE start[i] = at[i]
  <2>1. i - 1 \in Nat /\ i - 1 \in 0 .. m /\ (i - 1) + 1 = i
    OBVIOUS
  <2> QED
    BY <1>7, <2>1
<1>9. Len(bytes) = start[m + 1]
  <2>1. m + 1 \in 1 .. m + 1
    OBVIOUS
  <2> QED
    BY <1>0, <1>8, <2>1
<1>10. ASSUME NEW i \in 1 .. m
       PROVE  /\ bytes[start[i] + 1][2] = messages[i][1]
              /\ bytes[start[i] + 2][2] * 65536 + bytes[start[i] + 3][2] * 256
                   + bytes[start[i] + 4][2] = messages[i][2]
  <2>1. i \in 1 .. m + 1
    OBVIOUS
  <2>2. start[i] = at[i]
    BY <1>8, <2>1
  <2> QED
    BY <1>0, <2>2 DEF HeaderAt
<1> QED
  BY <1>3, <1>9, <1>10

LEMMA ServerHelloIs ==
  IsMessage(ServerHello, 2, 49)
<1> DEFINE a == <<Byte(3), Byte(3)>>
           b == Given("server random", 32)
           c == <<Byte(4)>>
           d == Given("session id", 4)
           e == <<Byte(0), Byte(47), Byte(0)>>
           f == <<Byte(0), Byte(5), Byte(255), Byte(1), Byte(0), Byte(1), Byte(0)>>
           ab == a \o b
           abc == ab \o c
           abcd == abc \o d
           abcde == abcd \o e
           body == abcde \o f
<1>1. IsText(a, 2, Bytes) /\ IsText(c, 1, Bytes) /\ IsText(e, 3, Bytes) /\ IsText(f, 7, Bytes)
  <2>1. IsText(a, 2, Bytes)
    BY TwoNumbers
  <2>2. IsText(c, 1, Bytes)
    BY OneNumber
  <2>3. IsText(e, 3, Bytes)
    BY ThreeNumbers
  <2>4. IsText(f, 7, Bytes)
    <3>1. 0 \in Nat /\ 5 \in Nat /\ 255 \in Nat /\ 1 \in Nat
      OBVIOUS
    <3> QED
      BY <3>1, SevenNumbers
  <2> QED
    BY <2>1, <2>2, <2>3, <2>4
<1>2. IsText(b, 32, Bytes) /\ IsText(d, 4, Bytes)
  <2>1. IsText(b, 32, Bytes)
    BY GivenIs, GivensAreBytes
  <2>2. IsText(d, 4, Bytes)
    BY GivenIs, GivensAreBytes
  <2> QED
    BY <2>1, <2>2
<1>3. ServerHello = Message(2, body)
  BY DEF ServerHello
<1> HIDE DEF a, b, c, d, e, f
<1>4. IsText(ab, 2 + 32, Bytes)
  BY <1>1, <1>2, ConcatIsText
<1> HIDE DEF ab
<1>5. IsText(abc, (2 + 32) + 1, Bytes)
  BY <1>1, <1>4, ConcatIsText
<1> HIDE DEF abc
<1>6. IsText(abcd, ((2 + 32) + 1) + 4, Bytes)
  BY <1>2, <1>5, ConcatIsText
<1> HIDE DEF abcd
<1>7. IsText(abcde, (((2 + 32) + 1) + 4) + 3, Bytes)
  BY <1>1, <1>6, ConcatIsText
<1> HIDE DEF abcde
<1>8. IsText(body, ((((2 + 32) + 1) + 4) + 3) + 7, Bytes)
  BY <1>1, <1>7, ConcatIsText
<1> HIDE DEF body
<1>10. ((((2 + 32) + 1) + 4) + 3) + 7 = 49
  OBVIOUS
<1>9. IsShort(49) /\ 2 \in Nat
  BY DEF IsShort
<1> QED
  BY <1>3, <1>8, <1>9, <1>10, MessageIs

LEMMA ServerHelloDoneIs ==
  IsMessage(ServerHelloDone, 14, 0)
<1>1. IsShort(0) /\ 14 \in Nat
  BY DEF IsShort
<1> QED
  BY <1>1, EmptyText, MessageIs DEF ServerHelloDone

LEMMA FinishedIs ==
  IsMessage(Message(20, Verify), 20, 12)
<1>1. \A i \in 1 .. 12 : Verify[i] \in Bytes
  BY DEF Bytes
<1>2. Verify = [i \in 1 .. 12 |-> Verify[i]]
  BY DEF Verify
<1>3. IsTable(Verify, 12, Bytes)
  BY <1>1, <1>2 DEF IsTable
<1>4. IsShort(12) /\ 20 \in Nat /\ 12 \in Nat
  BY DEF IsShort
<1>5. IsText(Verify, 12, Bytes)
  BY <1>3, <1>4, IsTextOf
<1> QED
  BY <1>4, <1>5, MessageIs

LEMMA CertificateIs ==
  IsMessage(Certificate, 11, SerCerSize + 6)
<1> DEFINE header == <<Byte(11), Byte(0)>> \o BigEndian(SerCerSize + 6, 2)
           zero == <<Byte(0)>>
           b == BigEndian(SerCerSize + 3, 2)
           d == BigEndian(SerCerSize, 2)
           e == Given("certificate", SerCerSize)
           n == SerCerSize + 6
<1>1. SerCerSize \in Nat /\ IsShort(n) /\ IsShort(SerCerSize + 3) /\ IsShort(SerCerSize) /\ 11 \in Nat
  BY RecordsAssumption DEF IsShort
<1>2. Begins(header, 4, 11, n)
  BY <1>1, HeaderIs
<1>3. IsText(zero, 1, Bytes)
  BY OneNumber
<1>4. IsText(b, 2, Bytes) /\ IsText(d, 2, Bytes)
  BY <1>1, BigEndianIs
<1>5. IsText(e, SerCerSize, Bytes)
  BY <1>1, GivenIs, GivensAreBytes
<1>6. Certificate = ((((header \o zero) \o b) \o zero) \o d) \o e
  BY DEF Certificate
<1> HIDE DEF header, zero, b, d, e
<1>7. Begins(header \o zero, 4 + 1, 11, n)
  BY <1>2, <1>3, GoesOn
<1>8. Begins((header \o zero) \o b, (4 + 1) + 2, 11, n)
  BY <1>4, <1>7, GoesOn
<1>9. Begins(((header \o zero) \o b) \o zero, ((4 + 1) + 2) + 1, 11, n)
  BY <1>3, <1>8, GoesOn
<1>10. Begins((((header \o zero) \o b) \o zero) \o d, (((4 + 1) + 2) + 1) + 2, 11, n)
  BY <1>4, <1>9, GoesOn
<1>11. Begins(Certificate, ((((4 + 1) + 2) + 1) + 2) + SerCerSize, 11, n)
  BY <1>5, <1>6, <1>10, GoesOn
<1>12. ((((4 + 1) + 2) + 1) + 2) + SerCerSize = 4 + n
  BY <1>1
<1> QED
  BY <1>11, <1>12 DEF Begins, IsMessage

\* The flight of a resumed session holds the hello.
LEMMA HelloAlone ==
  IsText(ServerHello, 53, Bytes) /\ AreMessages(ServerHello, <<<<2, 49>>>>)
<1> DEFINE at == [i \in 1 .. 2 |-> IF i = 1 THEN 0 ELSE 53]
           messages == <<<<2, 49>>>>
<1>1. IsText(ServerHello, 4 + 49, Bytes) /\ HeaderAt(ServerHello, 0, 2, 49)
  BY ServerHelloIs DEF IsMessage
<1>2. 4 + 49 = 53 /\ 0 + 4 + 49 = 53 /\ 1 + 1 = 2
  OBVIOUS
<1>3. IsText(ServerHello, 53, Bytes) /\ Len(ServerHello) = 53
  BY <1>1, <1>2 DEF IsText
<1>4. messages \in Seq(Nat \X Nat) /\ Len(messages) = 1 /\ messages[1] = <<2, 49>>
  OBVIOUS
<1>5. at \in [1 .. 2 -> Nat] /\ at[1] = 0 /\ at[2] = 53
  OBVIOUS
<1>6. \A i \in 1 .. 1 : i = 1
  OBVIOUS
<1> HIDE DEF messages, at
<1>7. messages[1][1] = 2 /\ messages[1][2] = 49
  BY <1>4
<1>8. AreAt(ServerHello, messages, 1, at)
  BY <1>1, <1>2, <1>3, <1>4, <1>5, <1>6, <1>7 DEF AreAt
<1>9. AreMessages(ServerHello, messages)
  BY <1>8, MessagesAre
<1> QED
  BY <1>3, <1>9 DEF messages

\* That of a new one holds the hello, the certificate and the end of the flight.
LEMMA HelloCertificateDone ==
  LET flight == ServerHello \o Certificate \o ServerHelloDone
  IN  /\ IsText(flight, SerCerSize + 67, Bytes)
      /\ AreMessages(flight, <<<<2, 49>>, <<11, SerCerSize + 6>>, <<14, 0>>>>)
<1> DEFINE a == ServerHello
           b == Certificate
           c == ServerHelloDone
           S == SerCerSize
           ab == a \o b
           abc == ab \o c
           messages == <<<<2, 49>>, <<11, S + 6>>, <<14, 0>>>>
           at == [i \in 1 .. 4 |-> IF i = 1 THEN 0 ELSE IF i = 2 THEN 53
                                   ELSE IF i = 3 THEN S + 63 ELSE S + 67]
<1>1. S \in Nat
  BY RecordsAssumption
<1>2. /\ IsText(a, 4 + 49, Bytes) /\ HeaderAt(a, 0, 2, 49)
      /\ IsText(b, 4 + (S + 6), Bytes) /\ HeaderAt(b, 0, 11, S + 6)
      /\ IsText(c, 4 + 0, Bytes) /\ HeaderAt(c, 0, 14, 0)
  BY ServerHelloIs, CertificateIs, ServerHelloDoneIs DEF IsMessage
<1>3. messages \in Seq(Nat \X Nat) /\ Len(messages) = 3
  BY <1>1
<1>4. messages[1] = <<2, 49>> /\ messages[2] = <<11, S + 6>> /\ messages[3] = <<14, 0>>
  OBVIOUS
<1>5. /\ messages[1][1] = 2 /\ messages[1][2] = 49 /\ messages[2][1] = 11 /\ messages[2][2] = S + 6
      /\ messages[3][1] = 14 /\ messages[3][2] = 0
  <2> HIDE DEF messages
  <2> QED
    BY <1>4
<1>6. at \in [1 .. 4 -> Nat] /\ at[1] = 0 /\ at[2] = 53 /\ at[3] = S + 63 /\ at[4] = S + 67
  BY <1>1
<1>7. /\ 4 + 49 = 53 /\ 4 + (S + 6) = S + 10 /\ 4 + 0 = 4 /\ 53 + (S + 10) = S + 63
      /\ (S + 63) + 4 = S + 67 /\ 0 + 4 + 49 = 53 /\ 53 + 4 + (S + 6) = S + 63
      /\ S + 63 + 4 + 0 = S + 67 /\ 53 + 0 = 53 /\ (S + 63) + 0 = S + 63
  BY <1>1
<1> HIDE DEF a, b, c, S, messages, at
<1>8. IsText(a, 53, Bytes) /\ IsText(b, S + 10, Bytes) /\ IsText(c, 4, Bytes)
  BY <1>2, <1>7
<1>9. IsConcat(a, 53, b, S + 10, ab, Bytes)
  BY <1>8, ConcatIs
<1> HIDE DEF ab
<1>10. IsText(ab, S + 63, Bytes)
  BY <1>7, <1>9 DEF IsConcat
<1>11. IsConcat(ab, S + 63, c, 4, abc, Bytes)
  BY <1>8, <1>10, ConcatIs
<1> HIDE DEF abc
<1>12. IsText(abc, S + 67, Bytes) /\ Len(abc) = S + 67
  BY <1>7, <1>11 DEF IsConcat, IsText
<1>13. /\ 53 \in Nat /\ S + 10 \in Nat /\ S + 63 \in Nat /\ 4 \in Nat /\ 0 \in Nat
       /\ 0 + 4 <= 53 /\ 0 + 4 <= S + 10 /\ 0 + 4 <= 4 /\ 0 + 4 <= S + 63 /\ 53 + 4 <= S + 63
  BY <1>1
<1>14. HeaderAt(ab, 0, 2, 49) /\ HeaderAt(ab, 53, 11, S + 6)
  <2>1. HeaderAt(ab, 0, 2, 49)
    BY <1>2, <1>9, <1>13, HeaderStays
  <2>2. HeaderAt(ab, 53 + 0, 11, S + 6)
    BY <1>2, <1>9, <1>13, HeaderStays
  <2> QED
    BY <1>7, <2>1, <2>2
<1>15. HeaderAt(abc, 0, 2, 49) /\ HeaderAt(abc, 53, 11, S + 6) /\ HeaderAt(abc, S + 63, 14, 0)
  <2>1. HeaderAt(abc, 0, 2, 49)
    BY <1>11, <1>13, <1>14, HeaderStays
  <2>2. HeaderAt(abc, 53, 11, S + 6)
    BY <1>11, <1>13, <1>14, HeaderStays
  <2>3. HeaderAt(abc, (S + 63) + 0, 14, 0)
    BY <1>2, <1>11, <1>13, HeaderStays
  <2> QED
    BY <1>7, <2>1, <2>2, <2>3
<1>16. /\ \A i \in 1 .. 3 : i \in {1, 2, 3}
       /\ 1 + 1 = 2 /\ 2 + 1 = 3 /\ 3 + 1 = 4
  OBVIOUS
<1>17. \A i \in 1 .. 3 : at[i + 1] = at[i] + 4 + messages[i][2]
  BY <1>5, <1>6, <1>7, <1>16
<1>18. \A i \in 1 .. 3 : HeaderAt(abc, at[i], messages[i][1], messages[i][2])
  BY <1>5, <1>6, <1>15, <1>16
<1>19. AreAt(abc, messages, 3, at)
  BY <1>3, <1>6, <1>12, <1>16, <1>17, <1>18 DEF AreAt
<1>20. AreMessages(abc, messages)
  BY <1>19, MessagesAre
<1> QED
  BY <1>12, <1>20 DEF abc, ab, a, b, c, S, messages

-----------------------------------------------------------------------------
(* Sequences of records and of requests *)

\* Sizes add up to a number.
LEMMA SizeOfIs ==
  ASSUME NEW records, NEW n \in Nat, Len(records) = n,
         \A k \in 1 .. n : Size(records[k]) \in Nat
  PROVE  SizeOf(records) \in Nat
<1> DEFINE IsRun(f) == f = [k \in 0 .. n |-> IF k = 0 THEN 0 ELSE f[k - 1] + Size(records[k])]
           size == CHOOSE f : IsRun(f)
<1> DEFINE next == [p \in (0 .. n) \X Nat |-> IF p[1] = 0 THEN 0 ELSE p[2] + Size(records[p[1]])]
<1>1. IsStepUpTo(next, n, Nat)
  <2>1. ASSUME NEW p \in (0 .. n) \X Nat
        PROVE  (IF p[1] = 0 THEN 0 ELSE p[2] + Size(records[p[1]])) \in Nat
    <3>1. p[1] \in 0 .. n /\ p[2] \in Nat
      OBVIOUS
    <3>2. CASE p[1] # 0
      <4>1. p[1] \in 1 .. n
        BY <3>1, <3>2
      <4>2. Size(records[p[1]]) \in Nat
        BY <4>1
      <4> QED
        BY <3>1, <3>2, <4>2
    <3> QED
      BY <3>2
  <2>2. next \in [(0 .. n) \X Nat -> Nat]
    BY <2>1
  <2> QED
    BY <2>2 DEF IsStepUpTo, IsStep
<1>2. PICK f \in [0 .. n -> Nat] : f[0] = 0 /\ \A k \in 1 .. n : f[k] = next[<<k, f[k - 1]>>]
  <2> DEFINE none == 0
             numbers == Nat
  <2>1. none \in numbers /\ IsStepUpTo(next, n, numbers)
    BY <1>1
  <2> HIDE DEF next, none, numbers
  <2>2. PICK f \in [0 .. n -> numbers] :
          f[0] = none /\ \A k \in 1 .. n : f[k] = next[<<k, f[k - 1]>>]
    BY <2>1, RecursionUpTo
  <2> QED
    BY <2>2 DEF none, numbers
<1>3. IsRun(f)
  <2>1. ASSUME NEW k \in 0 .. n PROVE f[k] = IF k = 0 THEN 0 ELSE f[k - 1] + Size(records[k])
    <3>1. CASE k # 0
      <4>1. k \in 1 .. n /\ k - 1 \in 0 .. n
        BY <3>1
      <4>2. f[k - 1] \in Nat /\ <<k, f[k - 1]>> \in (0 .. n) \X Nat
        BY <4>1
      <4>3. next[<<k, f[k - 1]>>] = f[k - 1] + Size(records[k])
        BY <3>1, <4>2
      <4> QED
        BY <1>2, <3>1, <4>1, <4>3
    <3> QED
      BY <1>2, <3>1
  <2> QED
    BY <2>1
<1>4. IsRun(size)
  BY <1>3
<1>5. SizeOf(records) = size[n]
  BY DEF SizeOf
<1> HIDE DEF size
<1>6. size[0] = 0 /\ \A k \in 1 .. n : size[k] = size[k - 1] + Size(records[k])
  <2>1. \A k \in 0 .. n : size[k] = IF k = 0 THEN 0 ELSE size[k - 1] + Size(records[k])
    BY <1>4
  <2>2. 0 \in 0 .. n /\ \A k \in 1 .. n : k \in 0 .. n /\ k # 0
    OBVIOUS
  <2> QED
    BY <2>1, <2>2
<1> DEFINE Good == {k \in Nat : k \in 0 .. n => size[k] \in Nat}
<1>7. 0 \in Good
  BY <1>6
<1>8. ASSUME NEW k \in Nat, k \in Good PROVE k + 1 \in Good
  <2>0. k + 1 \in Nat
    OBVIOUS
  <2> SUFFICES ASSUME k + 1 \in 0 .. n PROVE size[k + 1] \in Nat
    BY <2>0, Zenon
  <2>1. k \in 0 .. n /\ k + 1 \in 1 .. n /\ (k + 1) - 1 = k
    OBVIOUS
  <2>2. size[k] \in Nat
    BY <1>8, <2>1
  <2>3. size[k + 1] = size[k] + Size(records[k + 1]) /\ Size(records[k + 1]) \in Nat
    BY <1>6, <2>1
  <2> QED
    BY <2>2, <2>3
<1>9. Nat \subseteq Good
  <2> HIDE DEF Good
  <2> QED
    BY <1>7, <1>8, Induction
<1> QED
  BY <1>5, <1>9

-----------------------------------------------------------------------------
(* The page *)

\* The bytes of the page from one place to another.
Between(from, to) == SubSeq(Page, from + 1, to)

LEMMA PageIs ==
  PageLength \in Nat /\ IsText(Page, PageLength, Bytes)
<1>1. PageLength \in Nat
  BY RecordsAssumption
<1> QED
  BY <1>1, GivenIs, GivensAreBytes DEF Page

LEMMA BetweenIs ==
  ASSUME NEW from \in 0 .. PageLength, NEW to \in from .. PageLength
  PROVE  /\ IsText(Between(from, to), to - from, Bytes)
         /\ \A i \in 1 .. to - from : Between(from, to)[i] = Page[from + i]
<1>1. PageLength \in Nat /\ IsText(Page, PageLength, Bytes)
  BY PageIs
<1>2. from + 1 \in 1 .. PageLength + 1 /\ to \in (from + 1) - 1 .. PageLength
  BY <1>1
<1>3. to - (from + 1) + 1 = to - from /\ \A i \in 1 .. to - from : (from + 1) + i - 1 = from + i
  BY <1>1
<1>4. /\ IsText(SubSeq(Page, from + 1, to), to - (from + 1) + 1, Bytes)
      /\ \A i \in 1 .. to - (from + 1) + 1 : SubSeq(Page, from + 1, to)[i] = Page[(from + 1) + i - 1]
  BY <1>1, <1>2, SubText
<1> QED
  BY <1>3, <1>4 DEF Between

\* One part of the page behind the other.
LEMMA BetweenJoined ==
  ASSUME NEW from \in 0 .. PageLength, NEW to \in from .. PageLength
  PROVE  Between(0, from) \o Between(from, to) = Between(0, to)
<1> DEFINE a == Between(0, from)
           b == Between(from, to)
           c == Between(0, to)
           ab == a \o b
           n == to - from
<1>1. PageLength \in Nat /\ 0 \in 0 .. PageLength /\ from \in 0 .. PageLength /\ to \in 0 .. PageLength
  BY PageIs
<1>2. from - 0 = from /\ to - 0 = to /\ n \in Nat /\ from + n = to
  BY <1>1
<1>3. IsText(a, from, Bytes) /\ \A i \in 1 .. from : a[i] = Page[0 + i]
  BY <1>1, <1>2, BetweenIs
<1>4. IsText(c, to, Bytes) /\ \A i \in 1 .. to : c[i] = Page[0 + i]
  BY <1>1, <1>2, BetweenIs
<1>5. IsText(b, n, Bytes) /\ \A i \in 1 .. n : b[i] = Page[from + i]
  BY BetweenIs
<1> HIDE DEF a, b, c, n
<1>6. IsConcat(a, from, b, n, ab, Bytes)
  BY <1>3, <1>5, ConcatIs
<1> HIDE DEF ab
<1>7. IsText(ab, to, Bytes)
  BY <1>2, <1>6 DEF IsConcat
<1>8. ASSUME NEW i \in 1 .. to PROVE ab[i] = c[i]
  <2>1. 0 + i = i /\ c[i] = Page[i]
    BY <1>4
  <2>2. CASE i <= from
    <3>1. i \in 1 .. from
      BY <1>1, <2>2
    <3>2. ab[i] = a[i] /\ a[i] = Page[0 + i]
      BY <1>3, <1>6, <3>1 DEF IsConcat
    <3> QED
      BY <2>1, <3>2
  <2>3. CASE ~ (i <= from)
    <3> DEFINE j == i - from
    <3>1. j \in 1 .. n /\ from + j = i
      BY <1>1, <1>2, <2>3
    <3> HIDE DEF j
    <3>2. ab[from + j] = b[j] /\ b[j] = Page[from + j]
      BY <1>5, <1>6, <3>1 DEF IsConcat
    <3> QED
      BY <2>1, <3>1, <3>2
  <2> QED
    BY <2>2, <2>3
<1>9. ab = c
  BY <1>4, <1>7, <1>8, SameText
<1> QED
  BY <1>9 DEF ab, a, b, c

\* What HttpAdd gives.
Taken(at, room) == IF room < PageLength - at THEN room ELSE PageLength - at

LEMMA HttpAddIs ==
  ASSUME NEW at \in 0 .. PageLength, NEW room \in Nat
  PROVE  /\ at + Taken(at, room) \in at .. PageLength /\ Taken(at, room) \in 0 .. room
         /\ HttpAdd(at, room) = Between(at, at + Taken(at, room))
<1> DEFINE m == Taken(at, room)
           rest == After(Page, at)
           n == PageLength - at
<1>1. PageLength \in Nat /\ IsText(Page, PageLength, Bytes)
  BY PageIs
<1>2. m \in 0 .. room /\ m \in 0 .. n /\ at + m \in at .. PageLength /\ n \in Nat /\ at + n = PageLength
  BY <1>1 DEF Taken
<1>3. HttpAdd(at, room) = First(rest, m)
  BY DEF HttpAdd, Taken
<1>4. Len(Page) = PageLength
  BY <1>1 DEF IsText
<1>5. rest = Between(at, PageLength)
  BY <1>4 DEF After, Between
<1>6. PageLength \in at .. PageLength
  BY <1>1
<1>7. IsText(rest, n, Bytes) /\ \A i \in 1 .. n : rest[i] = Page[at + i]
  BY <1>5, <1>6, BetweenIs
<1>8. (at + m) - at = m
  BY <1>1, <1>2
<1>9. IsText(Between(at, at + m), m, Bytes) /\ \A i \in 1 .. m : Between(at, at + m)[i] = Page[at + i]
  <2> HIDE DEF m, n
  <2>1. /\ IsText(Between(at, at + m), (at + m) - at, Bytes)
        /\ \A i \in 1 .. (at + m) - at : Between(at, at + m)[i] = Page[at + i]
    BY <1>2, BetweenIs
  <2> QED
    BY <1>8, <2>1
<1> HIDE DEF m, rest, n
<1>10. 1 \in 1 .. n + 1 /\ m \in 1 - 1 .. n /\ m - 1 + 1 = m /\ \A i \in 1 .. m : 1 + i - 1 = i /\ i \in 1 .. n
  BY <1>2
<1>11. /\ IsText(SubSeq(rest, 1, m), m - 1 + 1, Bytes)
       /\ \A i \in 1 .. m - 1 + 1 : SubSeq(rest, 1, m)[i] = rest[1 + i - 1]
  BY <1>7, <1>10, SubText
<1>12. IsText(First(rest, m), m, Bytes) /\ \A i \in 1 .. m : First(rest, m)[i] = Page[at + i]
  BY <1>7, <1>10, <1>11 DEF First
<1>13. First(rest, m) = Between(at, at + m)
  BY <1>9, <1>12, SameText
<1> QED
  BY <1>2, <1>3, <1>13 DEF m

-----------------------------------------------------------------------------
(***************************************************************************)
(* The inductive invariant.                                                *)
(***************************************************************************)
HelloText == IF resume THEN ServerHello ELSE ServerHello \o Certificate \o ServerHelloDone
HelloRecord == Plain(HANDSHAKE, HelloText)
ChangeRecord == Plain(CHANGE_CIPHER, <<Byte(1)>>)
FinishedRecord == Encrypt(0, HANDSHAKE, Message(20, Verify))

\* How much of the page has been sent.
Sent == position - serverPositionInStreamOffset

RecTypes ==
  /\ recStep \in {"hello", "finished", "application", "closed"}
  /\ resume \in BOOLEAN
  /\ position \in Nat /\ serverPositionInStreamOffset \in Nat
  /\ IsSequence(sent)

\* The records of the handshake are those of the flights, in this order, and the
\* sequence number counts the records from the Finished message on.
HandshakeSent ==
  /\ recStep = "hello" => Len(sent) = 0
  /\ recStep = "finished" => Len(sent) = 1
  /\ recStep \in {"application", "closed"} =>
       /\ Len(sent) >= 3 /\ serverSequence = Len(sent) - 2
       /\ sent[2] = ChangeRecord /\ sent[3] = FinishedRecord
  /\ Len(sent) >= 1 => sent[1] = HelloRecord

\* The other records hold n bytes of the page, ends[k] of them in the first k records.
ArePage(records, n, ends) ==
  /\ ends \in [0 .. Len(records) -> 0 .. PageLength] /\ ends[Len(records)] = n
  /\ \A k \in 0 .. Len(records) : k <= 3 => ends[k] = 0
  /\ \A k \in 1 .. Len(records) :
       k > 3 => /\ ends[k - 1] <= ends[k]
                /\ records[k] = Encrypt(k - 3, APPLICATION, Between(ends[k - 1], ends[k]))

PageSent ==
  /\ \E ends : ArePage(sent, Sent, ends)
  /\ recStep = "closed" => Sent = PageLength

RecordsInv == RecTypes /\ HandshakeSent /\ PageSent /\ RequestsAreRead

LEMMA NothingSentYet ==
  ASSUME NEW records, IsSequence(records), Len(records) <= 3
  PROVE  \E ends : ArePage(records, 0, ends)
<1> DEFINE ends == [k \in 0 .. Len(records) |-> 0]
<1>1. PageLength \in Nat /\ Len(records) \in Nat
  BY PageIs DEF IsSequence
<1>2. ends \in [0 .. Len(records) -> 0 .. PageLength] /\ ends[Len(records)] = 0
  BY <1>1
<1>3. \A k \in 0 .. Len(records) : ends[k] = 0
  OBVIOUS
<1>4. \A k \in 1 .. Len(records) : ~ (k > 3)
  BY <1>1
<1> HIDE DEF ends
<1>5. ArePage(records, 0, ends)
  BY <1>2, <1>3, <1>4 DEF ArePage
<1> QED
  BY <1>5

LEMMA PageGoesOn ==
  ASSUME NEW records, IsSequence(records), Len(records) >= 3, NEW n, NEW ends,
         ArePage(records, n, ends), NEW to \in n .. PageLength,
         NEW record, record = Encrypt(Len(records) - 2, APPLICATION, Between(n, to))
  PROVE  \E e : ArePage(Append(records, record), to, e)
<1> DEFINE l == Len(records)
           after == Append(records, record)
           e == [k \in 0 .. l + 1 |-> IF k = l + 1 THEN to ELSE ends[k]]
<1>1. /\ l \in Nat /\ l >= 3 /\ Len(after) = l + 1
      /\ \A k \in 1 .. l : after[k] = records[k]
      /\ after[l + 1] = record
  BY AppendedIs DEF IsSequence
<1>2. /\ ends \in [0 .. l -> 0 .. PageLength] /\ ends[l] = n
      /\ \A k \in 0 .. l : k <= 3 => ends[k] = 0
      /\ \A k \in 1 .. l :
           k > 3 => /\ ends[k - 1] <= ends[k]
                    /\ records[k] = Encrypt(k - 3, APPLICATION, Between(ends[k - 1], ends[k]))
  BY DEF ArePage
<1> HIDE DEF l, after
<1>3. PageLength \in Nat /\ n \in 0 .. PageLength /\ to \in 0 .. PageLength /\ n <= to
  BY <1>1, <1>2, PageIs
<1>4. /\ e \in [0 .. l + 1 -> 0 .. PageLength] /\ e[l + 1] = to
      /\ \A k \in 0 .. l : e[k] = ends[k]
  BY <1>1, <1>2, <1>3
<1> HIDE DEF e
<1>5. ASSUME NEW k \in 0 .. l + 1, k <= 3 PROVE e[k] = 0
  <2>1. k \in 0 .. l
    BY <1>1, <1>5
  <2> QED
    BY <1>2, <1>4, <1>5, <2>1
<1>6. ASSUME NEW k \in 1 .. l + 1, k > 3
      PROVE  /\ e[k - 1] <= e[k]
             /\ after[k] = Encrypt(k - 3, APPLICATION, Between(e[k - 1], e[k]))
  <2>1. CASE k = l + 1
    <3>1. k - 1 = l /\ l \in 0 .. l /\ k - 3 = l - 2
      BY <1>1, <2>1
    <3>2. e[k - 1] = n /\ e[k] = to
      BY <1>2, <1>4, <2>1, <3>1
    <3>3. after[k] = Encrypt(l - 2, APPLICATION, Between(n, to))
      BY <1>1, <2>1 DEF l
    <3> QED
      BY <1>3, <3>1, <3>2, <3>3
  <2>2. CASE k # l + 1
    <3>1. k \in 1 .. l /\ k \in 0 .. l /\ k - 1 \in 0 .. l
      BY <1>1, <2>2
    <3>2. e[k - 1] = ends[k - 1] /\ e[k] = ends[k] /\ after[k] = records[k]
      BY <1>1, <1>4, <3>1
    <3> QED
      BY <1>2, <1>6, <3>1, <3>2
  <2> QED
    BY <2>1, <2>2
<1>7. ArePage(after, to, e)
  BY <1>1, <1>4, <1>5, <1>6 DEF ArePage
<1> QED
  BY <1>7 DEF after

LEMMA RecordsInitInv ==
  RecInit => RecordsInv
<1> SUFFICES ASSUME RecInit PROVE RecordsInv
  OBVIOUS
<1>1. /\ recStep = "hello" /\ resume \in BOOLEAN /\ position = 0 /\ serverPositionInStreamOffset = 0
      /\ sent = <<>> /\ asked = <<>> /\ got = <<>>
  BY DEF RecInit
<1>2. IsSequence(sent) /\ Len(sent) = 0
  BY <1>1, EmptyText, TextIsSequence
<1>3. RecTypes
  BY <1>1, <1>2 DEF RecTypes
<1>4. HandshakeSent
  BY <1>1, <1>2 DEF HandshakeSent
<1>5. Len(sent) <= 3 /\ Sent = 0 /\ recStep # "closed"
  BY <1>1, <1>2 DEF Sent
<1>6. PageSent
  BY <1>2, <1>5, NothingSentYet DEF PageSent
<1>7. RequestsAreRead
  BY <1>1 DEF RequestsAreRead
<1> QED
  BY <1>3, <1>4, <1>6, <1>7 DEF RecordsInv

\* Records of a flight are sent.
LEMMA FlightSizes ==
  /\ \A text, n : IsText(text, n, Bytes) => Size(Plain(HANDSHAKE, text)) \in Nat
  /\ Size(ChangeRecord) \in Nat /\ Size(FinishedRecord) \in Nat
<1>1. ASSUME NEW text, NEW n, IsText(text, n, Bytes), NEW type PROVE Size(Plain(type, text)) \in Nat
  BY <1>1, TextIs DEF Size, Plain
<1>2. Size(ChangeRecord) \in Nat
  <2>1. 1 \in Nat
    OBVIOUS
  <2>2. IsText(<<Byte(1)>>, 1, Bytes)
    BY <2>1, OneNumber
  <2> QED
    BY <1>1, <2>2 DEF ChangeRecord
<1>3. Size(FinishedRecord) \in Nat
  <2>1. IsText(Message(20, Verify), 4 + 12, Bytes)
    BY FinishedIs DEF IsMessage
  <2>2. Size(FinishedRecord) \in (4 + 12) + 42 .. (4 + 12) + 57
    BY <2>1, EncryptOpens DEF FinishedRecord
  <2> QED
    BY <2>2
<1> QED
  BY <1>1, <1>2, <1>3

IsFlight(records, n) ==
  /\ n \in Nat /\ IsSequence(records) /\ Len(records) = n /\ Len(sent) + n <= 3
  /\ \A k \in 1 .. n : Size(records[k]) \in Nat

LEMMA FlightInv ==
  ASSUME RecordsInv, NEW records, NEW n, IsFlight(records, n), NEW sequence,
         NEW next \in {"finished", "application"}, SendFlight(records, sequence, next)
  PROVE  /\ RecTypes' /\ PageSent' /\ RequestsAreRead'
         /\ Len(sent') = Len(sent) + n
         /\ \A k \in 1 .. Len(sent) : sent'[k] = sent[k]
         /\ \A k \in 1 .. n : sent'[Len(sent) + k] = records[k]
         /\ serverSequence' = sequence /\ recStep' = next /\ resume' = resume
<1>1. /\ sent' = sent \o records
      /\ position' = position + SizeOf(records)
      /\ serverPositionInStreamOffset' = position + SizeOf(records)
      /\ serverSequence' = sequence /\ recStep' = next
      /\ resume' = resume /\ asked' = asked /\ got' = got
  BY DEF SendFlight
<1>0. /\ n \in Nat /\ IsSequence(records) /\ Len(records) = n /\ Len(sent) + n <= 3
      /\ \A k \in 1 .. n : Size(records[k]) \in Nat
  BY DEF IsFlight
<1>2. SizeOf(records) \in Nat
  BY <1>0, SizeOfIs
<1>3. position \in Nat /\ resume \in BOOLEAN /\ IsSequence(sent)
  BY DEF RecordsInv, RecTypes
<1>9. /\ IsSequence(sent') /\ Len(sent') = Len(sent) + n
      /\ \A k \in 1 .. Len(sent) : sent'[k] = sent[k]
      /\ \A k \in 1 .. n : sent'[Len(sent) + k] = records[k]
  BY <1>0, <1>1, <1>3, SequencesJoined DEF AreJoined
<1>4. position' \in Nat /\ Sent' = 0 /\ serverPositionInStreamOffset' \in Nat
  BY <1>1, <1>2, <1>3 DEF Sent
<1>5. IsSequence(sent') /\ Len(sent') <= 3 /\ recStep' # "closed"
  BY <1>0, <1>1, <1>9
<1>6. RecTypes'
  BY <1>1, <1>3, <1>4, <1>5 DEF RecTypes, IsSequence
<1>7. PageSent'
  <2>1. \E ends : ArePage(sent', 0, ends)
    BY <1>5, NothingSentYet
  <2> QED
    BY <1>4, <1>5, <2>1 DEF PageSent
<1>8. RequestsAreRead'
  BY <1>1 DEF RecordsInv, RequestsAreRead
<1> QED
  BY <1>1, <1>6, <1>7, <1>8, <1>9

\* SendServerHelloNew
LEMMA HelloNewInv ==
  RecordsInv /\ SendServerHelloNew => RecordsInv'
<1> SUFFICES ASSUME RecordsInv, SendServerHelloNew PROVE RecordsInv'
  OBVIOUS
<1> DEFINE hello == Plain(HANDSHAKE, ServerHello \o Certificate \o ServerHelloDone)
<1>1. recStep = "hello" /\ ~ resume /\ SendFlight(<<hello>>, serverSequence + 1, "finished")
  BY DEF SendServerHelloNew
<1>2. Len(sent) = 0
  BY <1>1 DEF RecordsInv, HandshakeSent
<1>3. hello = HelloRecord /\ Size(hello) \in Nat
  BY <1>1, FlightSizes, HelloCertificateDone DEF HelloRecord, HelloText
<1> HIDE DEF hello
<1>4. IsSequence(<<hello>>) /\ Len(<<hello>>) = 1 /\ <<hello>>[1] = hello
  BY TuplesAreSequences
<1> DEFINE records == <<hello>>
<1>5. IsSequence(records) /\ Len(records) = 1 /\ records[1] = hello
  BY <1>4
<1>6. SendFlight(records, serverSequence + 1, "finished")
  BY <1>1
<1> HIDE DEF records
<1>7. IsFlight(records, 1)
  BY <1>2, <1>3, <1>5 DEF IsFlight
<1>8. /\ RecTypes' /\ PageSent' /\ RequestsAreRead'
      /\ Len(sent') = Len(sent) + 1
      /\ \A k \in 1 .. 1 : sent'[Len(sent) + k] = records[k]
      /\ recStep' = "finished" /\ resume' = resume
  BY <1>6, <1>7, FlightInv
<1>9. Len(sent') = 1 /\ sent'[1] = HelloRecord
  <2>1. 1 \in 1 .. 1 /\ 0 + 1 = 1
    OBVIOUS
  <2> QED
    BY <1>2, <1>3, <1>5, <1>8, <2>1
<1>10. HelloRecord' = HelloRecord
  BY <1>8 DEF HelloRecord, HelloText, Plain
<1>11. HandshakeSent'
  BY <1>8, <1>9, <1>10 DEF HandshakeSent
<1> QED
  BY <1>8, <1>11 DEF RecordsInv

LEMMA ChangeAndFinishedIs ==
  /\ IsSequence(ChangeAndFinished) /\ Len(ChangeAndFinished) = 2
  /\ ChangeAndFinished[1] = ChangeRecord /\ ChangeAndFinished[2] = FinishedRecord
<1>1. ChangeAndFinished = <<ChangeRecord, FinishedRecord>>
  BY DEF ChangeAndFinished, ChangeRecord, FinishedRecord
<1> QED
  BY <1>1, TuplesAreSequences

\* SendServerChange
LEMMA ChangeInv ==
  RecordsInv /\ SendServerChange => RecordsInv'
<1> SUFFICES ASSUME RecordsInv, SendServerChange PROVE RecordsInv'
  OBVIOUS
<1> DEFINE records == ChangeAndFinished
<1>1. recStep = "finished" /\ SendFlight(records, 1, "application")
  BY DEF SendServerChange
<1>2. Len(sent) = 1 /\ sent[1] = HelloRecord
  <2>1. Len(sent) = 1
    BY <1>1 DEF RecordsInv, HandshakeSent
  <2> QED
    BY <2>1 DEF RecordsInv, HandshakeSent
<1>3. /\ IsSequence(records) /\ Len(records) = 2
      /\ records[1] = ChangeRecord /\ records[2] = FinishedRecord
  BY ChangeAndFinishedIs
<1> HIDE DEF records
<1>4. \A k \in 1 .. 2 : k \in {1, 2}
  OBVIOUS
<1>5. IsFlight(records, 2)
  BY <1>2, <1>3, <1>4, FlightSizes DEF IsFlight
<1>6. /\ RecTypes' /\ PageSent' /\ RequestsAreRead'
      /\ Len(sent') = Len(sent) + 2
      /\ \A k \in 1 .. Len(sent) : sent'[k] = sent[k]
      /\ \A k \in 1 .. 2 : sent'[Len(sent) + k] = records[k]
      /\ serverSequence' = 1 /\ recStep' = "application" /\ resume' = resume
  BY <1>1, <1>5, FlightInv
<1>7. /\ Len(sent') = 3 /\ sent'[1] = HelloRecord
      /\ sent'[2] = ChangeRecord /\ sent'[3] = FinishedRecord
  <2>1. 1 \in 1 .. 1 /\ 1 \in 1 .. 2 /\ 2 \in 1 .. 2 /\ 1 + 1 = 2 /\ 1 + 2 = 3
    OBVIOUS
  <2>2. sent'[1] = sent[1]
    BY <1>2, <1>6, <2>1
  <2>3. sent'[1 + 1] = records[1] /\ sent'[1 + 2] = records[2]
    BY <1>2, <1>6, <2>1
  <2> QED
    BY <1>2, <1>3, <1>6, <2>1, <2>2, <2>3
<1>8. HelloRecord' = HelloRecord /\ ChangeRecord' = ChangeRecord /\ FinishedRecord' = FinishedRecord
  BY <1>6 DEF HelloRecord, HelloText, Plain, ChangeRecord, FinishedRecord
<1>10. Len(sent') >= 3 /\ serverSequence' = Len(sent') - 2
  <2>1. Len(sent') = 3
    BY <1>7
  <2>2. serverSequence' = 1
    BY <1>6
  <2>3. 3 >= 3 /\ 1 = 3 - 2
    OBVIOUS
  <2> QED
    BY <2>1, <2>2, <2>3
<1>9. HandshakeSent'
  BY <1>6, <1>7, <1>8, <1>10 DEF HandshakeSent
<1> QED
  BY <1>6, <1>9 DEF RecordsInv

\* SendServerHelloResume
LEMMA HelloResumeInv ==
  RecordsInv /\ SendServerHelloResume => RecordsInv'
<1> SUFFICES ASSUME RecordsInv, SendServerHelloResume PROVE RecordsInv'
  OBVIOUS
<1> DEFINE hello == Plain(HANDSHAKE, ServerHello)
           first == <<hello>>
           records == first \o ChangeAndFinished
<1>1. recStep = "hello" /\ resume /\ SendFlight(records, 1, "application")
  BY DEF SendServerHelloResume
<1>2. Len(sent) = 0
  BY <1>1 DEF RecordsInv, HandshakeSent
<1>3. hello = HelloRecord /\ Size(hello) \in Nat
  BY <1>1, FlightSizes, HelloAlone DEF HelloRecord, HelloText
<1>4. IsSequence(first) /\ Len(first) = 1 /\ first[1] = hello
  BY TuplesAreSequences
<1> HIDE DEF hello, first
<1>5. /\ IsSequence(records) /\ Len(records) = 3
      /\ records[1] = hello /\ records[2] = ChangeRecord /\ records[3] = FinishedRecord
  <2> DEFINE others == ChangeAndFinished
  <2>0. IsSequence(others) /\ Len(others) = 2
    BY ChangeAndFinishedIs
  <2>4. /\ IsSequence(records) /\ Len(records) = Len(first) + Len(others)
        /\ \A k \in 1 .. Len(first) : records[k] = first[k]
        /\ \A k \in 1 .. Len(others) : records[Len(first) + k] = others[k]
    <3>1. AreJoined(first, others, first \o others)
      <4> HIDE DEF others
      <4> QED
        BY <1>4, <2>0, SequencesJoined
    <3>2. AreJoined(first, others, records)
      BY <3>1
    <3> HIDE DEF others, records
    <3> QED
      BY <3>2 DEF AreJoined
  <2>1. /\ IsSequence(records) /\ Len(records) = 1 + 2
        /\ \A k \in 1 .. 1 : records[k] = first[k]
        /\ \A k \in 1 .. 2 : records[1 + k] = ChangeAndFinished[k]
    BY <1>4, <2>0, <2>4
  <2> HIDE DEF records
  <2>2. 1 \in 1 .. 1 /\ 1 \in 1 .. 2 /\ 2 \in 1 .. 2 /\ 1 + 1 = 2 /\ 1 + 2 = 3
    OBVIOUS
  <2>3. records[1] = first[1] /\ records[1 + 1] = ChangeAndFinished[1]
        /\ records[1 + 2] = ChangeAndFinished[2]
    BY <2>1, <2>2
  <2> QED
    BY <1>4, <2>1, <2>2, <2>3, ChangeAndFinishedIs
<1> HIDE DEF records
<1>6. \A k \in 1 .. 3 : k \in {1, 2, 3}
  OBVIOUS
<1>7. IsFlight(records, 3)
  BY <1>2, <1>3, <1>5, <1>6, FlightSizes DEF IsFlight
<1>8. /\ RecTypes' /\ PageSent' /\ RequestsAreRead'
      /\ Len(sent') = Len(sent) + 3
      /\ \A k \in 1 .. 3 : sent'[Len(sent) + k] = records[k]
      /\ serverSequence' = 1 /\ recStep' = "application" /\ resume' = resume
  BY <1>1, <1>7, FlightInv
<1>9. /\ Len(sent') = 3 /\ sent'[1] = HelloRecord
      /\ sent'[2] = ChangeRecord /\ sent'[3] = FinishedRecord
  <2>1. 1 \in 1 .. 3 /\ 2 \in 1 .. 3 /\ 3 \in 1 .. 3 /\ 0 + 1 = 1 /\ 0 + 2 = 2 /\ 0 + 3 = 3
    OBVIOUS
  <2>2. sent'[0 + 1] = records[1] /\ sent'[0 + 2] = records[2] /\ sent'[0 + 3] = records[3]
    BY <1>2, <1>8, <2>1
  <2> QED
    BY <1>2, <1>3, <1>5, <1>8, <2>1, <2>2
<1>10. HelloRecord' = HelloRecord /\ ChangeRecord' = ChangeRecord /\ FinishedRecord' = FinishedRecord
  BY <1>8 DEF HelloRecord, HelloText, Plain, ChangeRecord, FinishedRecord
<1>12. Len(sent') >= 3 /\ serverSequence' = Len(sent') - 2
  <2>1. Len(sent') = 3
    BY <1>9
  <2>2. serverSequence' = 1
    BY <1>8
  <2>3. 3 >= 3 /\ 1 = 3 - 2
    OBVIOUS
  <2> QED
    BY <2>1, <2>2, <2>3
<1>11. HandshakeSent'
  BY <1>8, <1>9, <1>10, <1>12 DEF HandshakeSent
<1> QED
  BY <1>8, <1>11 DEF RecordsInv

-----------------------------------------------------------------------------
(* Content *)

\* A record of content holds as much of the page as it is sure to have room for.
LEMMA ContentIs ==
  ASSUME RecordsInv, NEW w \in WindowSizes, SendContent(w)
  PROVE  \E m \in Nat :
           /\ Sent \in 0 .. PageLength /\ Sent + m \in Sent .. PageLength
           /\ sent' = Append(sent, Encrypt(serverSequence, APPLICATION, Between(Sent, Sent + m)))
           /\ position' - position <= w
           /\ position' \in Nat /\ serverPositionInStreamOffset' \in Nat
           /\ Sent' = Sent + m /\ serverSequence' = serverSequence + 1
           /\ recStep' = IF Sent + m >= PageLength THEN "closed" ELSE recStep
           /\ resume' = resume /\ asked' = asked /\ got' = got
<1> DEFINE room == w - 5 - TLS_AES_128_CBC_SHA1_MAX_OVERHEAD
           payload == HttpAdd(Sent, room)
           record == Encrypt(serverSequence, APPLICATION, payload)
           m == Taken(Sent, room)
<1>1. /\ sent' = Append(sent, record)
      /\ serverSequence' = serverSequence + 1
      /\ position' = position + Size(record)
      /\ serverPositionInStreamOffset' = serverPositionInStreamOffset + Size(record) - Len(payload)
      /\ recStep' = IF Sent + Len(payload) >= PageLength THEN "closed" ELSE recStep
      /\ resume' = resume /\ asked' = asked /\ got' = got
  BY DEF SendContent, Sent
<1>2. position \in Nat /\ serverPositionInStreamOffset \in Nat /\ Len(sent) \in Nat
  BY DEF RecordsInv, RecTypes, IsSequence
<1>3. Sent \in 0 .. PageLength
  <2>1. PICK ends : ArePage(sent, Sent, ends)
    BY DEF RecordsInv, PageSent
  <2>2. ends \in [0 .. Len(sent) -> 0 .. PageLength] /\ ends[Len(sent)] = Sent
    BY <2>1 DEF ArePage
  <2>3. Len(sent) \in 0 .. Len(sent)
    BY <1>2
  <2> QED
    BY <2>2, <2>3
<1>4. w \in Nat /\ w >= 57 /\ PageLength \in Nat
  BY RecordsAssumption
<1>5. TLS_AES_128_CBC_SHA1_MAX_OVERHEAD = 52
  BY DEF TLS_AES_128_CBC_SHA1_MAX_OVERHEAD, AES128CBC_BLOCK_SIZE, SHA1_HASH_SIZE
<1>6. room = w - 57 /\ room \in Nat
  BY <1>4, <1>5
<1> HIDE DEF room
<1>7. /\ Sent + m \in Sent .. PageLength /\ m \in 0 .. room
      /\ payload = Between(Sent, Sent + m)
  BY <1>3, <1>6, HttpAddIs
<1> HIDE DEF m, payload
<1>8. IsText(payload, m, Bytes) /\ Len(payload) = m
  <2>1. IsText(payload, (Sent + m) - Sent, Bytes) /\ (Sent + m) - Sent = m
    BY <1>3, <1>7, BetweenIs
  <2> QED
    BY <2>1 DEF IsText
<1>9. Size(record) \in m + 42 .. m + 57
  BY <1>8, EncryptOpens
<1> HIDE DEF record
<1>10. position' - position <= w /\ position' \in Nat /\ serverPositionInStreamOffset' \in Nat
  <2> DEFINE size == Size(record)
  <2>1. /\ position' = position + size
        /\ serverPositionInStreamOffset' = serverPositionInStreamOffset + size - m
    BY <1>1, <1>8
  <2>2. m \in Nat /\ m <= w - 57
    BY <1>6, <1>7
  <2>3. size \in Nat /\ size >= m /\ size <= w
    BY <1>4, <1>9, <2>2
  <2> HIDE DEF size
  <2> QED
    BY <1>2, <2>1, <2>2, <2>3
<1>11. Sent' = Sent + m
  BY <1>1, <1>2, <1>8, <1>9, <1>7 DEF Sent
<1>12. m \in Nat
  BY <1>6, <1>7
<1>13. sent' = Append(sent, Encrypt(serverSequence, APPLICATION, Between(Sent, Sent + m)))
  BY <1>1, <1>7 DEF record
<1> QED
  BY <1>1, <1>3, <1>7, <1>8, <1>10, <1>11, <1>12, <1>13

\* SendContent
LEMMA ContentInv ==
  ASSUME RecordsInv, NEW w \in WindowSizes, SendContent(w)
  PROVE  RecordsInv'
<1>1. PICK m \in Nat :
        /\ Sent \in 0 .. PageLength /\ Sent + m \in Sent .. PageLength
        /\ sent' = Append(sent, Encrypt(serverSequence, APPLICATION, Between(Sent, Sent + m)))
        /\ position' \in Nat /\ serverPositionInStreamOffset' \in Nat
        /\ Sent' = Sent + m /\ serverSequence' = serverSequence + 1
        /\ recStep' = IF Sent + m >= PageLength THEN "closed" ELSE recStep
        /\ resume' = resume /\ asked' = asked /\ got' = got
  BY ContentIs
<1>2. recStep = "application" /\ IsSequence(sent)
  BY DEF SendContent, RecordsInv, RecTypes
<1>3. Len(sent) >= 3 /\ serverSequence = Len(sent) - 2 /\ sent[1] = HelloRecord
      /\ sent[2] = ChangeRecord /\ sent[3] = FinishedRecord
  BY <1>2 DEF RecordsInv, HandshakeSent, IsSequence
<1> DEFINE record == Encrypt(Len(sent) - 2, APPLICATION, Between(Sent, Sent + m))
<1>4. sent' = Append(sent, record)
  BY <1>1, <1>3
<1>5. \E e : ArePage(Append(sent, record), Sent + m, e)
  <2>1. PICK ends : ArePage(sent, Sent, ends)
    BY DEF RecordsInv, PageSent
  <2> QED
    BY <1>1, <1>2, <1>3, <2>1, PageGoesOn
<1> HIDE DEF record
<1>6. /\ IsSequence(sent') /\ Len(sent') = Len(sent) + 1
      /\ \A k \in 1 .. Len(sent) : sent'[k] = sent[k]
  BY <1>2, <1>4, AppendedIs
<1>7. Len(sent) \in Nat /\ PageLength \in Nat
  BY <1>2, PageIs DEF IsSequence
<1>8. RecTypes'
  BY <1>1, <1>2, <1>6 DEF RecordsInv, RecTypes, IsSequence
<1>9. HelloRecord' = HelloRecord /\ ChangeRecord' = ChangeRecord /\ FinishedRecord' = FinishedRecord
  BY <1>1 DEF HelloRecord, HelloText, Plain, ChangeRecord, FinishedRecord
<1>10. sent'[1] = HelloRecord /\ sent'[2] = ChangeRecord /\ sent'[3] = FinishedRecord
  <2>1. 1 \in 1 .. Len(sent) /\ 2 \in 1 .. Len(sent) /\ 3 \in 1 .. Len(sent)
    BY <1>3, <1>7
  <2> QED
    BY <1>3, <1>6, <2>1
<1>11. Len(sent') >= 3 /\ serverSequence' = Len(sent') - 2
  BY <1>1, <1>3, <1>6, <1>7
<1>12. HandshakeSent'
  BY <1>1, <1>2, <1>9, <1>10, <1>11 DEF HandshakeSent
<1>13. PageSent'
  <2>1. \E e : ArePage(sent', Sent', e)
    BY <1>1, <1>4, <1>5
  <2>2. recStep' = "closed" => Sent' = PageLength
    BY <1>1, <1>2, <1>7
  <2> QED
    BY <2>1, <2>2 DEF PageSent
<1>14. RequestsAreRead'
  BY <1>1 DEF RecordsInv, RequestsAreRead
<1> QED
  BY <1>8, <1>12, <1>13, <1>14 DEF RecordsInv

\* AskForPage
LEMMA AskInv ==
  ASSUME RecordsInv, NEW n \in RequestLengths, NEW padding \in Paddings, AskForPage(n, padding)
  PROVE  RecordsInv'
<1> DEFINE payload == [i \in 1 .. n |-> <<"request", Len(asked), i>>]
           T == {<<"request", Len(asked), i>> : i \in 1 .. n}
<1>1. /\ asked' = Append(asked, payload)
      /\ got' = Append(got, PlainOf(ClientText(payload, padding)))
      /\ UNCHANGED <<recStep, resume, position, serverPositionInStreamOffset, serverSequence, sent>>
  BY DEF AskForPage
<1>2. n \in Nat /\ padding \in 0 .. 255
  BY RecordsAssumption
<1>3. IsText(payload, n, T)
  <2>1. IsTable(payload, n, T)
    BY DEF IsTable
  <2> HIDE DEF payload, T
  <2> QED
    BY <1>2, <2>1, IsTextOf
<1> HIDE DEF payload, T
<1>4. PlainOf(ClientText(payload, padding)) = payload
  BY <1>2, <1>3, RequestIsRead
<1>5. RequestsAreRead'
  BY <1>1, <1>4 DEF RecordsInv, RequestsAreRead
<1>6. RecTypes'
  BY <1>1 DEF RecordsInv, RecTypes, IsSequence
<1>7. HandshakeSent'
  BY <1>1 DEF RecordsInv, HandshakeSent, HelloRecord, HelloText, Plain, ChangeRecord, FinishedRecord
<1>8. PageSent'
  <2>1. Sent' = Sent /\ sent' = sent
    BY <1>1 DEF Sent
  <2>2. PICK ends : ArePage(sent, Sent, ends)
    BY DEF RecordsInv, PageSent
  <2>3. ArePage(sent', Sent', ends)
    BY <2>1, <2>2
  <2> QED
    BY <1>1, <2>1, <2>3 DEF RecordsInv, PageSent
<1> QED
  BY <1>5, <1>6, <1>7, <1>8 DEF RecordsInv

LEMMA RecordsNextInv ==
  RecordsInv /\ [RecNext]_recVars => RecordsInv'
<1> SUFFICES ASSUME RecordsInv, [RecNext]_recVars PROVE RecordsInv'
  OBVIOUS
<1>1. CASE SendServerHelloNew
  BY <1>1, HelloNewInv
<1>2. CASE SendServerHelloResume
  BY <1>2, HelloResumeInv
<1>3. CASE SendServerChange
  BY <1>3, ChangeInv
<1>4. ASSUME NEW w \in WindowSizes, SendContent(w) PROVE RecordsInv'
  BY <1>4, ContentInv
<1>5. ASSUME NEW n \in RequestLengths, NEW padding \in Paddings, AskForPage(n, padding)
      PROVE  RecordsInv'
  BY <1>5, AskInv
<1>6. CASE UNCHANGED recVars
  <2>1. UNCHANGED <<recStep, resume, position, serverPositionInStreamOffset, serverSequence,
                    sent, asked, got>>
    BY <1>6 DEF recVars
  <2>2. RecTypes'
    BY <2>1 DEF RecordsInv, RecTypes, IsSequence
  <2>3. HandshakeSent'
    BY <2>1 DEF RecordsInv, HandshakeSent, HelloRecord, HelloText, Plain, ChangeRecord,
                FinishedRecord
  <2>4. PageSent'
    <3>1. Sent' = Sent
      BY <2>1 DEF Sent
    <3>2. PICK ends : ArePage(sent, Sent, ends)
      BY DEF RecordsInv, PageSent
    <3>3. ArePage(sent', Sent', ends)
      BY <2>1, <3>1, <3>2
    <3> QED
      BY <2>1, <3>1, <3>3 DEF RecordsInv, PageSent
  <2>5. RequestsAreRead'
    BY <2>1 DEF RecordsInv, RequestsAreRead
  <2> QED
    BY <2>2, <2>3, <2>4, <2>5 DEF RecordsInv
<1> QED
  BY <1>1, <1>2, <1>3, <1>4, <1>5, <1>6 DEF RecNext

LEMMA RecordsInvariant ==
  RecSpec => []RecordsInv
<1>1. RecInit => RecordsInv
  BY RecordsInitInv
<1>2. RecordsInv /\ [RecNext]_recVars => RecordsInv'
  BY RecordsNextInv
<1> QED
  BY <1>1, <1>2, PTL DEF RecSpec

-----------------------------------------------------------------------------
(***************************************************************************)
(* What follows from it.                                                   *)
(***************************************************************************)

\* A record of content, its sequence number and what is in it.
LEMMA ContentRecordIs ==
  ASSUME NEW records, IsSequence(records), NEW n, NEW ends, ArePage(records, n, ends),
         NEW k \in 1 .. Len(records), k > 3
  PROVE  /\ ends[k - 1] \in 0 .. PageLength /\ ends[k] \in ends[k - 1] .. PageLength
         /\ records[k].type = APPLICATION
         /\ Payload(records[k]) = Between(ends[k - 1], ends[k])
         /\ Opens(records[k], k - 3)
<1>1. Len(records) \in Nat /\ k \in 0 .. Len(records) /\ k - 1 \in 0 .. Len(records)
  BY DEF IsSequence
<1>2. /\ ends \in [0 .. Len(records) -> 0 .. PageLength]
      /\ ends[k - 1] <= ends[k]
      /\ records[k] = Encrypt(k - 3, APPLICATION, Between(ends[k - 1], ends[k]))
  BY DEF ArePage
<1>3. ends[k - 1] \in 0 .. PageLength /\ ends[k] \in ends[k - 1] .. PageLength
  BY <1>1, <1>2, PageIs
<1>4. IsText(Between(ends[k - 1], ends[k]), ends[k] - ends[k - 1], Bytes)
  BY <1>3, BetweenIs
<1>5. /\ Payload(records[k]) = Between(ends[k - 1], ends[k])
      /\ Opens(records[k], k - 3)
  BY <1>2, <1>4, EncryptOpens
<1>6. records[k].type = APPLICATION
  BY <1>2 DEF Encrypt
<1> QED
  BY <1>3, <1>5, <1>6

\* The record of the Finished message is the first that is encrypted.
LEMMA FinishedRecordIs ==
  FinishedRecord.type = HANDSHAKE /\ Opens(FinishedRecord, 0)
<1>1. IsText(Message(20, Verify), 4 + 12, Bytes)
  BY FinishedIs DEF IsMessage
<1>2. Opens(FinishedRecord, 0)
  BY <1>1, EncryptOpens DEF FinishedRecord
<1> QED
  BY <1>2 DEF FinishedRecord, Encrypt

LEMMA HelloRecordIs ==
  ASSUME resume \in BOOLEAN
  PROVE  /\ HelloRecord.type = HANDSHAKE
         /\ AreMessages(HelloRecord.text,
                        IF resume THEN <<<<2, 49>>>>
                        ELSE <<<<2, 49>>, <<11, SerCerSize + 6>>, <<14, 0>>>>)
<1>1. HelloRecord.type = HANDSHAKE /\ HelloRecord.text = HelloText
  BY DEF HelloRecord, Plain
<1>2. CASE resume
  BY <1>1, <1>2, HelloAlone DEF HelloText
<1>3. CASE ~ resume
  BY <1>1, <1>3, HelloCertificateDone DEF HelloText
<1> QED
  BY <1>2, <1>3

LEMMA AllRecordsOpen ==
  RecordsInv => RecordsOpen
<1> SUFFICES ASSUME RecordsInv PROVE RecordsOpen
  OBVIOUS
<1>1. /\ IsSequence(sent) /\ Len(sent) \in Nat /\ resume \in BOOLEAN
      /\ recStep \in {"hello", "finished", "application", "closed"}
  BY DEF RecordsInv, RecTypes, IsSequence
<1>2. PICK ends : ArePage(sent, Sent, ends)
  BY DEF RecordsInv, PageSent
<1>3. Len(sent) >= 1 => sent[1] = HelloRecord
  BY DEF RecordsInv, HandshakeSent
<1>4. Len(sent) > 1 => Len(sent) >= 3 /\ sent[2] = ChangeRecord /\ sent[3] = FinishedRecord
  BY <1>1 DEF RecordsInv, HandshakeSent
<1>5. HANDSHAKE # CHANGE_CIPHER /\ APPLICATION # CHANGE_CIPHER
  BY DEF HANDSHAKE, CHANGE_CIPHER, APPLICATION
<1>6. ChangeRecord.type = CHANGE_CIPHER
  BY DEF ChangeRecord, Plain
<1>7. ASSUME NEW k \in 1 .. Len(sent) PROVE k = 1 \/ k = 2 \/ k = 3 \/ k > 3
  BY <1>1
<1>8. ASSUME NEW k \in 1 .. Len(sent), sent[k].type = CHANGE_CIPHER PROVE k = 2
  <2>1. CASE k = 1
    BY <1>1, <1>3, <1>5, <1>8, <2>1, HelloRecordIs
  <2>2. CASE k = 3
    BY <1>1, <1>4, <1>5, <1>8, <2>2, FinishedRecordIs
  <2>3. CASE k > 3
    BY <1>1, <1>2, <1>5, <1>8, <2>3, ContentRecordIs
  <2> QED
    BY <1>7, <2>1, <2>2, <2>3
<1>9. ASSUME NEW k \in 1 .. Len(sent), IsEncrypted(k)
      PROVE  \A c \in ChangedAt : Opens(sent[k], k - c - 1)
  <2>1. PICK c \in ChangedAt : c < k
    BY <1>9 DEF IsEncrypted
  <2>2. c = 2 /\ k > 2 /\ Len(sent) > 1
    BY <1>1, <1>8, <2>1 DEF ChangedAt
  <2>3. Opens(sent[k], k - 3)
    <3>1. CASE k = 3
      <4>1. k - 3 = 0
        BY <3>1
      <4> QED
        BY <1>4, <2>2, <3>1, <4>1, FinishedRecordIs
    <3>2. CASE k > 3
      BY <1>1, <1>2, <3>2, ContentRecordIs
    <3> QED
      BY <1>7, <2>2, <3>1, <3>2
  <2>4. ASSUME NEW d \in ChangedAt PROVE k - d - 1 = k - 3
    <3>1. d = 2
      BY <1>8 DEF ChangedAt
    <3> QED
      BY <3>1
  <2> QED
    BY <2>3, <2>4
<1>10. ASSUME NEW k \in 1 .. Len(sent), ~ IsEncrypted(k), sent[k].type = HANDSHAKE
       PROVE  AreMessages(sent[k].text,
                          IF resume THEN <<<<2, 49>>>>
                          ELSE <<<<2, 49>>, <<11, SerCerSize + 6>>, <<14, 0>>>>)
  <2>1. k # 2
    BY <1>4, <1>5, <1>6, <1>10
  <2>2. ~ (k > 2)
    <3>1. SUFFICES ASSUME k > 2 PROVE FALSE
      OBVIOUS
    <3>2. Len(sent) > 1 /\ 2 \in 1 .. Len(sent)
      BY <1>1, <3>1
    <3>3. 2 \in ChangedAt
      BY <1>4, <1>6, <3>2 DEF ChangedAt
    <3> QED
      BY <1>10, <3>1, <3>3 DEF IsEncrypted
  <2>3. k = 1 /\ Len(sent) >= 1
    BY <1>1, <2>1, <2>2
  <2> QED
    BY <1>1, <1>3, <2>3, HelloRecordIs
<1> QED
  BY <1>9, <1>10 DEF RecordsOpen

LEMMA BetweenFrom0 ==
  ASSUME NEW n \in 0 .. PageLength
  PROVE  /\ Between(0, n) = First(Page, n) /\ Len(Between(0, n)) = n
         /\ Between(0, n) \o <<>> = Between(0, n)
<1>1. PageLength \in Nat
  BY PageIs
<1>2. 0 \in 0 .. PageLength /\ n \in 0 .. PageLength /\ n - 0 = n
  BY <1>1
<1>3. IsText(Between(0, n), n, Bytes)
  BY <1>2, BetweenIs
<1>4. Between(0, n) = First(Page, n)
  BY DEF Between, First
<1> QED
  BY <1>3, <1>4, ConcatEmptySeq DEF IsText

LEMMA PageHasArrived ==
  RecordsInv => PageArrives
<1> SUFFICES ASSUME RecordsInv PROVE PageArrives
  OBVIOUS
<1> DEFINE n == Len(sent)
           Of(k) == IF sent[k].type = APPLICATION THEN Payload(sent[k]) ELSE <<>>
           IsRun(f) == f = [k \in 0 .. n |-> IF k = 0 THEN <<>> ELSE f[k - 1] \o Of(k)]
<1>1. IsSequence(sent) /\ n \in Nat /\ resume \in BOOLEAN
  BY DEF RecordsInv, RecTypes, IsSequence
<1>2. PICK ends : ArePage(sent, Sent, ends)
  BY DEF RecordsInv, PageSent
<1>3. /\ ends \in [0 .. n -> 0 .. PageLength] /\ ends[n] = Sent
      /\ \A k \in 0 .. n : k <= 3 => ends[k] = 0
  BY <1>2 DEF ArePage
<1>4. PageLength \in Nat /\ 0 \in 0 .. PageLength
  BY PageIs
<1>5. ASSUME NEW k \in 1 .. n
      PROVE  /\ ends[k - 1] \in 0 .. PageLength /\ ends[k] \in 0 .. PageLength
             /\ Between(0, ends[k - 1]) \o Of(k) = Between(0, ends[k])
  <2>1. k \in 0 .. n /\ k - 1 \in 0 .. n
    BY <1>1
  <2>2. ends[k - 1] \in 0 .. PageLength /\ ends[k] \in 0 .. PageLength
    BY <1>3, <2>1
  <2>3. CASE k > 3
    <3>1. /\ ends[k] \in ends[k - 1] .. PageLength
          /\ sent[k].type = APPLICATION /\ Payload(sent[k]) = Between(ends[k - 1], ends[k])
      BY <1>1, <1>2, <2>3, ContentRecordIs
    <3>2. Of(k) = Between(ends[k - 1], ends[k])
      BY <3>1
    <3> HIDE DEF Of
    <3>3. Between(0, ends[k - 1]) \o Between(ends[k - 1], ends[k]) = Between(0, ends[k])
      BY <2>2, <3>1, BetweenJoined
    <3> QED
      BY <2>2, <3>2, <3>3
  <2>4. CASE ~ (k > 3)
    <3>1. k <= 3 /\ k - 1 <= 3 /\ k \in {1, 2, 3}
      BY <1>1, <2>4
    <3>2. ends[k] = 0 /\ ends[k - 1] = 0
      BY <1>3, <2>1, <3>1
    <3>3. sent[k].type # APPLICATION
      <4>0. Len(sent) \in Nat /\ k \in 1 .. Len(sent)
        BY <1>1
      <4>1. Len(sent) >= 1
        BY <4>0
      <4>2. sent[1] = HelloRecord
        BY <4>1 DEF RecordsInv, HandshakeSent
      <4>3. Len(sent) > 1 => sent[2] = ChangeRecord /\ sent[3] = FinishedRecord
        BY <1>1 DEF RecordsInv, RecTypes, HandshakeSent
      <4>4. HANDSHAKE # APPLICATION /\ CHANGE_CIPHER # APPLICATION
        BY DEF HANDSHAKE, CHANGE_CIPHER, APPLICATION
      <4>5. ChangeRecord.type = CHANGE_CIPHER
        BY DEF ChangeRecord, Plain
      <4>6. CASE k = 1
        BY <1>1, <4>2, <4>4, <4>6, HelloRecordIs
      <4>7. CASE k = 2
        BY <4>0, <4>3, <4>4, <4>5, <4>7
      <4>8. CASE k = 3
        BY <1>1, <4>0, <4>3, <4>4, <4>8, FinishedRecordIs
      <4> QED
        BY <3>1, <4>6, <4>7, <4>8
    <3>4. Of(k) = <<>>
      BY <3>3
    <3> HIDE DEF Of
    <3>5. Between(0, 0) \o <<>> = Between(0, 0)
      BY <1>4, BetweenFrom0
    <3> QED
      BY <2>2, <3>2, <3>4, <3>5
  <2> QED
    BY <2>3, <2>4
<1>6. Contents = CHOOSE f : IsRun(f)
  BY DEF Contents
<1> HIDE DEF Of
<1>7. Between(0, 0) = <<>>
  <2>1. IsText(Between(0, 0), 0 - 0, Bytes) /\ 0 - 0 = 0
    BY <1>4, BetweenIs
  <2> QED
    BY <2>1, EmptySeq DEF IsText
<1>8. IsRun([k \in 0 .. n |-> Between(0, ends[k])])
  <2> DEFINE f == [k \in 0 .. n |-> Between(0, ends[k])]
  <2>1. ASSUME NEW k \in 0 .. n PROVE Between(0, ends[k]) = IF k = 0 THEN <<>> ELSE f[k - 1] \o Of(k)
    <3>1. CASE k = 0
      BY <1>3, <1>7, <3>1
    <3>2. CASE k # 0
      <4>1. k \in 1 .. n /\ k - 1 \in 0 .. n
        BY <1>1, <3>2
      <4>2. f[k - 1] = Between(0, ends[k - 1])
        BY <4>1
      <4> HIDE DEF f
      <4> QED
        BY <1>5, <3>2, <4>1, <4>2
    <3> QED
      BY <3>1, <3>2
  <2>2. f = [k \in 0 .. n |-> IF k = 0 THEN <<>> ELSE f[k - 1] \o Of(k)]
    BY <2>1
  <2> QED
    BY <2>2
<1>9. IsRun(Contents)
  BY <1>6, <1>8
<1>10. Contents[0] = <<>> /\ \A k \in 1 .. n : Contents[k] = Contents[k - 1] \o Of(k)
  <2>1. \A k \in 0 .. n : Contents[k] = IF k = 0 THEN <<>> ELSE Contents[k - 1] \o Of(k)
    <3> DEFINE C == Contents
    <3>1. C = [k \in 0 .. n |-> IF k = 0 THEN <<>> ELSE C[k - 1] \o Of(k)]
      BY <1>9
    <3> HIDE DEF C
    <3>2. \A k \in 0 .. n : C[k] = IF k = 0 THEN <<>> ELSE C[k - 1] \o Of(k)
      BY <3>1
    <3> QED
      BY <3>2 DEF C
  <2>2. 0 \in 0 .. n /\ \A k \in 1 .. n : k \in 0 .. n /\ k # 0
    BY <1>1
  <2> QED
    BY <2>1, <2>2
<1> DEFINE Good == {k \in Nat : k \in 0 .. n => Contents[k] = Between(0, ends[k])}
<1>11. 0 \in Good
  BY <1>3, <1>7, <1>10
<1>12. ASSUME NEW k \in Nat, k \in Good PROVE k + 1 \in Good
  <2>0. k + 1 \in Nat
    OBVIOUS
  <2> SUFFICES ASSUME k + 1 \in 0 .. n PROVE Contents[k + 1] = Between(0, ends[k + 1])
    BY <2>0, Zenon
  <2>1. k \in 0 .. n /\ k + 1 \in 1 .. n /\ (k + 1) - 1 = k
    BY <1>1
  <2>2. Contents[k] = Between(0, ends[k])
    BY <1>12, <2>1
  <2>3. Contents[k + 1] = Contents[k] \o Of(k + 1)
    BY <1>10, <2>1
  <2>4. Between(0, ends[k]) \o Of(k + 1) = Between(0, ends[k + 1])
    BY <1>5, <2>1
  <2> QED
    BY <2>2, <2>3, <2>4
<1>13. Nat \subseteq Good
  <2> HIDE DEF Good
  <2> QED
    BY <1>11, <1>12, Induction
<1>14. n \in 0 .. n /\ Contents[n] = Between(0, Sent) /\ Sent \in 0 .. PageLength
  BY <1>1, <1>3, <1>13
<1>15. Contents[Len(sent)] = First(Page, Len(Contents[Len(sent)])) /\ Contents[Len(sent)] = First(Page, Sent)
  BY <1>14, BetweenFrom0
<1>16. First(Page, PageLength) = Page
  BY PageIs, SubSeqFull DEF First, IsText
<1>17. recStep = "closed" => Sent = PageLength
  BY DEF RecordsInv, PageSent
<1> QED
  BY <1>15, <1>16, <1>17 DEF PageArrives

-----------------------------------------------------------------------------
(***************************************************************************)
(* Theorems                                                                *)
(***************************************************************************)

\* Every record that follows the change of ciphers opens with the keys that the
\* client derives by the RFC, its MAC made with its number since then; the hello, the
\* certificate and the end of the flight before it are told apart by their lengths.
THEOREM RecordsAlwaysOpen ==
  RecSpec => []RecordsOpen
BY RecordsInvariant, AllRecordsOpen, PTL

\* Whatever the windows are that TCP has to fill, the payloads of the records are the
\* page from its first byte on, and all of it when the server closes.
THEOREM PageAlwaysArrives ==
  RecSpec => []PageArrives
BY RecordsInvariant, PageHasArrived, PTL

\* What a client sends is what the server reads, however much padding is behind it.
THEOREM RequestsAreAlwaysRead ==
  RecSpec => []RequestsAreRead
<1>1. RecordsInv => RequestsAreRead
  BY DEF RecordsInv
<1> QED
  BY <1>1, RecordsInvariant, PTL

\* A record never fills more than the window it is made for.
THEOREM RecordsAlwaysFit ==
  RecSpec => RecordsFit
<1> DEFINE Fits == \A w \in WindowSizes : SendContent(w) => position' - position <= w
<1>1. RecordsInv => Fits
  <2> SUFFICES ASSUME RecordsInv, NEW w \in WindowSizes, SendContent(w)
               PROVE  position' - position <= w
    OBVIOUS
  <2>1. \E m \in Nat : position' - position <= w
    BY ContentIs
  <2> QED
    BY <2>1
<1>2. RecordsInv /\ [RecNext]_recVars => [Fits]_recVars
  BY <1>1
<1> HIDE DEF Fits
<1>3. RecSpec => [][Fits]_recVars
  BY <1>2, RecordsInvariant, PTL DEF RecSpec
<1> QED
  BY <1>3 DEF RecordsFit, Fits

-----------------------------------------------------------------------------
(***************************************************************************)
(* The files of the private key and the certificate                        *)
(***************************************************************************)

(* The alphabet *)

FileByte == 0 .. 255

\* What OpenSSL writes for six bits, base64.c reads.
LEMMA AlphabetIs ==
  ASSUME NEW k \in 0 .. 63
  PROVE  Alphabet(k) \in Nat /\ ~ IsSkipped(Alphabet(k)) /\ Sixth(Alphabet(k)) = k
<1>1. CASE k < 26
  <2>1. Alphabet(k) = k + 65
    BY <1>1 DEF Alphabet
  <2> QED
    BY <1>1, <2>1 DEF Sixth, IsSkipped
<1>2. CASE k \in 26 .. 51
  <2>1. Alphabet(k) = k + 71
    BY <1>2 DEF Alphabet
  <2> QED
    BY <1>2, <2>1 DEF Sixth, IsSkipped
<1>3. CASE k \in 52 .. 61
  <2>1. Alphabet(k) = k - 4
    BY <1>3 DEF Alphabet
  <2> QED
    BY <1>3, <2>1 DEF Sixth, IsSkipped
<1>4. CASE k = 62
  <2>1. Alphabet(k) = 43
    BY <1>4 DEF Alphabet
  <2> QED
    BY <1>4, <2>1 DEF Sixth, IsSkipped
<1>5. CASE k = 63
  <2>1. Alphabet(k) = 47
    BY <1>5 DEF Alphabet
  <2> QED
    BY <1>5, <2>1 DEF Sixth, IsSkipped
<1> QED
  BY <1>1, <1>2, <1>3, <1>4, <1>5

\* The characters that end the data.
LEMMA EndsAre ==
  /\ ~ IsSkipped(45) /\ Sixth(45) = Failed
  /\ ~ IsSkipped(61) /\ Sixth(61) = Failed
  /\ IsSkipped(10) /\ IsSkipped(13)
BY DEF IsSkipped, Sixth

\* FileByte k of n, or a zero behind them.
ByteAt(data, n, k) == IF k <= n THEN data[k] ELSE 0

\* The first, second, third and fourth six bits of a group of three bytes.
FirstSix(b) == b \div 4
SecondSix(b, c) == (b % 4) * 16 + (c \div 16)
ThirdSix(b, c) == (b % 16) * 4 + (c \div 64)
FourthSix(b) == b % 64

LEMMA SixBits ==
  ASSUME NEW b \in FileByte, NEW c \in FileByte
  PROVE  /\ FirstSix(b) \in 0 .. 63 /\ SecondSix(b, c) \in 0 .. 63
         /\ ThirdSix(b, c) \in 0 .. 63 /\ FourthSix(b) \in 0 .. 63
BY Z3 DEF FileByte, FirstSix, SecondSix, ThirdSix, FourthSix

\* What base64.c puts together again.
LEMMA FirstJoined ==
  ASSUME NEW b \in FileByte, NEW c \in FileByte
  PROVE  FirstSix(b) * 4 + (SecondSix(b, c) \div 16) = b
BY Z3 DEF FileByte, FirstSix, SecondSix

LEMMA SecondJoined ==
  ASSUME NEW a \in FileByte, NEW b \in FileByte, NEW c \in FileByte
  PROVE  WithLast(1, SecondSix(a, b), ThirdSix(b, c)) = b
BY Z3 DEF FileByte, SecondSix, ThirdSix, WithLast

LEMMA ThirdJoined ==
  ASSUME NEW b \in FileByte, NEW c \in FileByte
  PROVE  WithLast(2, ThirdSix(b, c), FourthSix(c)) = c
BY Z3 DEF FileByte, ThirdSix, FourthSix, WithLast

LEMMA ByteAtIs ==
  ASSUME NEW n, NEW data, IsText(data, n, FileByte), NEW k \in Nat \ {0}
  PROVE  ByteAt(data, n, k) \in FileByte
<1>1. n \in Nat /\ \A i \in 1 .. n : data[i] \in FileByte
  BY TextIs
<1>2. 0 \in FileByte
  BY DEF FileByte
<1>3. k <= n => k \in 1 .. n
  BY <1>1
<1> QED
  BY <1>1, <1>2, <1>3 DEF ByteAt

\* The four characters of group g.
LEMMA EncodedIs ==
  ASSUME NEW n, NEW data, IsText(data, n, FileByte), NEW g \in Nat
  PROVE  /\ Encoded(data, 4 * g + 1) = Alphabet(FirstSix(ByteAt(data, n, 3 * g + 1)))
         /\ Encoded(data, 4 * g + 2)
              = Alphabet(SecondSix(ByteAt(data, n, 3 * g + 1), ByteAt(data, n, 3 * g + 2)))
         /\ Encoded(data, 4 * g + 3)
              = IF 3 * g + 2 > n THEN 61
                ELSE Alphabet(ThirdSix(ByteAt(data, n, 3 * g + 2), ByteAt(data, n, 3 * g + 3)))
         /\ Encoded(data, 4 * g + 4)
              = IF 3 * g + 3 > n THEN 61 ELSE Alphabet(FourthSix(ByteAt(data, n, 3 * g + 3)))
<1>0. Len(data) = n /\ n \in Nat
  BY TextIs
<1> DEFINE group(i) == 3 * ((i - 1) \div 4)
           place(i) == (i - 1) % 4
<1>1. /\ group(4 * g + 1) = 3 * g /\ place(4 * g + 1) = 0
      /\ group(4 * g + 2) = 3 * g /\ place(4 * g + 2) = 1
      /\ group(4 * g + 3) = 3 * g /\ place(4 * g + 3) = 2
      /\ group(4 * g + 4) = 3 * g /\ place(4 * g + 4) = 3
  BY Z3
<1>2. \A i \in Nat :
        Encoded(data, i) =
          IF place(i) > 1 /\ group(i) + place(i) > n THEN 61
          ELSE Alphabet(
            CASE place(i) = 0 -> ByteAt(data, n, group(i) + 1) \div 4
              [] place(i) = 1 -> (ByteAt(data, n, group(i) + 1) % 4) * 16
                                   + (ByteAt(data, n, group(i) + 2) \div 16)
              [] place(i) = 2 -> (ByteAt(data, n, group(i) + 2) % 16) * 4
                                   + (ByteAt(data, n, group(i) + 3) \div 64)
              [] place(i) = 3 -> ByteAt(data, n, group(i) + 3) % 64)
  BY <1>0 DEF Encoded, ByteAt
<1> HIDE DEF group, place
<1>3. 4 * g + 1 \in Nat /\ 4 * g + 2 \in Nat /\ 4 * g + 3 \in Nat /\ 4 * g + 4 \in Nat
  OBVIOUS
<1>4. Encoded(data, 4 * g + 1) = Alphabet(FirstSix(ByteAt(data, n, 3 * g + 1)))
  BY <1>1, <1>2, <1>3 DEF FirstSix
<1>5. Encoded(data, 4 * g + 2)
        = Alphabet(SecondSix(ByteAt(data, n, 3 * g + 1), ByteAt(data, n, 3 * g + 2)))
  BY <1>1, <1>2, <1>3 DEF SecondSix
<1>6. Encoded(data, 4 * g + 3)
        = IF 3 * g + 2 > n THEN 61
          ELSE Alphabet(ThirdSix(ByteAt(data, n, 3 * g + 2), ByteAt(data, n, 3 * g + 3)))
  BY <1>1, <1>2, <1>3 DEF ThirdSix
<1>7. Encoded(data, 4 * g + 4)
        = IF 3 * g + 3 > n THEN 61 ELSE Alphabet(FourthSix(ByteAt(data, n, 3 * g + 3)))
  BY <1>1, <1>2, <1>3 DEF FourthSix
<1> QED
  BY <1>4, <1>5, <1>6, <1>7

-----------------------------------------------------------------------------
(* The file: where the characters are, and what is between them is skipped. *)

\* How many characters are the base64 of n bytes.
CharsOf(n) == 4 * ((n + 2) \div 3)

\* The characters of the base64, and the first of the line behind them.
Spelt(data, n, i) == IF i <= CharsOf(n) THEN Encoded(data, i) ELSE 45

\* f says where they are, f[0] where the line before them ends.
IsFile(f, data, n) ==
  /\ Len(pemText) \in Nat
  /\ f \in [0 .. CharsOf(n) + 1 -> Nat]
  /\ \A i \in 1 .. CharsOf(n) + 1 :
       /\ f[i - 1] < f[i] /\ f[i] <= Len(pemText) /\ pemText[f[i]] = Spelt(data, n, i)
       /\ \A j \in f[i - 1] + 1 .. f[i] - 1 : IsSkipped(pemText[j])

LEMMA SpeltIs ==
  ASSUME NEW n, NEW data, IsText(data, n, FileByte), NEW g \in Nat, 3 * g < n
  PROVE  /\ 4 * g + 4 <= CharsOf(n)
         /\ Spelt(data, n, 4 * g + 1) = Alphabet(FirstSix(ByteAt(data, n, 3 * g + 1)))
         /\ Spelt(data, n, 4 * g + 2)
              = Alphabet(SecondSix(ByteAt(data, n, 3 * g + 1), ByteAt(data, n, 3 * g + 2)))
         /\ Spelt(data, n, 4 * g + 3)
              = IF 3 * g + 2 > n THEN 61
                ELSE Alphabet(ThirdSix(ByteAt(data, n, 3 * g + 2), ByteAt(data, n, 3 * g + 3)))
         /\ Spelt(data, n, 4 * g + 4)
              = IF 3 * g + 3 > n THEN 61 ELSE Alphabet(FourthSix(ByteAt(data, n, 3 * g + 3)))
<1>1. n \in Nat
  BY TextIs
<1>2. 4 * g + 4 <= CharsOf(n)
  BY <1>1, Z3 DEF CharsOf
<1>3. CharsOf(n) \in Nat
  BY <1>1 DEF CharsOf
<1>4. /\ 4 * g + 1 <= CharsOf(n) /\ 4 * g + 2 <= CharsOf(n)
      /\ 4 * g + 3 <= CharsOf(n)
  BY <1>2, <1>3
<1>5. /\ Spelt(data, n, 4 * g + 1) = Encoded(data, 4 * g + 1)
      /\ Spelt(data, n, 4 * g + 2) = Encoded(data, 4 * g + 2)
      /\ Spelt(data, n, 4 * g + 3) = Encoded(data, 4 * g + 3)
      /\ Spelt(data, n, 4 * g + 4) = Encoded(data, 4 * g + 4)
  BY <1>2, <1>4 DEF Spelt
<1> QED
  BY <1>2, <1>5, EncodedIs

\* The six bits of each group are six bits.
LEMMA GroupBits ==
  ASSUME NEW n, NEW data, IsText(data, n, FileByte), NEW g \in Nat
  PROVE  /\ FirstSix(ByteAt(data, n, 3 * g + 1)) \in 0 .. 63
         /\ SecondSix(ByteAt(data, n, 3 * g + 1), ByteAt(data, n, 3 * g + 2)) \in 0 .. 63
         /\ ThirdSix(ByteAt(data, n, 3 * g + 2), ByteAt(data, n, 3 * g + 3)) \in 0 .. 63
         /\ FourthSix(ByteAt(data, n, 3 * g + 3)) \in 0 .. 63
<1>1. 3 * g + 1 \in Nat \ {0} /\ 3 * g + 2 \in Nat \ {0} /\ 3 * g + 3 \in Nat \ {0}
  OBVIOUS
<1>2. /\ ByteAt(data, n, 3 * g + 1) \in FileByte /\ ByteAt(data, n, 3 * g + 2) \in FileByte
      /\ ByteAt(data, n, 3 * g + 3) \in FileByte
  BY <1>1, ByteAtIs
<1> QED
  BY <1>2, SixBits

\* No character of the base64 is one of those that are skipped.
LEMMA SpeltIsKept ==
  ASSUME NEW n, NEW data, IsText(data, n, FileByte), NEW i \in 1 .. CharsOf(n) + 1
  PROVE  ~ IsSkipped(Spelt(data, n, i)) /\ Spelt(data, n, i) # NewLine
<1>0. n \in Nat /\ CharsOf(n) \in Nat
  BY TextIs DEF CharsOf
<1> SUFFICES ~ IsSkipped(Spelt(data, n, i))
  BY EndsAre DEF NewLine
<1>1. CASE i > CharsOf(n)
  BY <1>0, <1>1, EndsAre DEF Spelt
<1>2. CASE i <= CharsOf(n)
  <2> DEFINE g == (i - 1) \div 4
  <2>1. /\ g \in Nat /\ 3 * g < n
        /\ i = 4 * g + 1 \/ i = 4 * g + 2 \/ i = 4 * g + 3 \/ i = 4 * g + 4
    <3>1. g \in Nat /\ (i = 4 * g + 1 \/ i = 4 * g + 2 \/ i = 4 * g + 3 \/ i = 4 * g + 4)
      BY <1>0, Z3
    <3>2. 3 * g < n
      BY <1>0, <1>2, Z3 DEF CharsOf
    <3> QED
      BY <3>1, <3>2
  <2> HIDE DEF g
  <2>2. /\ ~ IsSkipped(Spelt(data, n, 4 * g + 1)) /\ ~ IsSkipped(Spelt(data, n, 4 * g + 2))
        /\ ~ IsSkipped(Spelt(data, n, 4 * g + 3)) /\ ~ IsSkipped(Spelt(data, n, 4 * g + 4))
    BY <2>1, SpeltIs, GroupBits, AlphabetIs, EndsAre
  <2> QED
    BY <2>1, <2>2
<1> QED
  BY <1>0, <1>1, <1>2

LEMMA KeptIs ==
  ASSUME NEW n, NEW data, IsText(data, n, FileByte), NEW f, IsFile(f, data, n),
         NEW i \in 1 .. CharsOf(n) + 1
  PROVE  Kept(f[i - 1] + 1) = f[i]
<1>0. n \in Nat /\ CharsOf(n) \in Nat
  BY TextIs DEF CharsOf
<1> DEFINE a == f[i - 1]
           b == f[i]
           size == Len(pemText)
           Is(k) == /\ k <= size => ~ IsSkipped(pemText[k])
                    /\ \A j \in a + 1 .. k - 1 : IsSkipped(pemText[j])
<1>1. /\ size \in Nat /\ a \in Nat /\ b \in Nat /\ a < b /\ b <= size
      /\ pemText[b] = Spelt(data, n, i)
      /\ \A j \in a + 1 .. b - 1 : IsSkipped(pemText[j])
  <2>1. i \in 0 .. CharsOf(n) + 1 /\ i - 1 \in 0 .. CharsOf(n) + 1
    BY <1>0
  <2> QED
    BY <2>1 DEF IsFile
<1>2. ~ IsSkipped(pemText[b])
  BY <1>1, SpeltIsKept
<1> HIDE DEF a, b, size
<1>3. b \in a + 1 .. size + 1 /\ Is(b)
  BY <1>1, <1>2
<1>4. ASSUME NEW k \in a + 1 .. size + 1, Is(k) PROVE k = b
  <2>1. k \in Int
    BY <1>1
  <2>2. CASE k < b
    <3>1. k \in a + 1 .. b - 1 /\ k <= size
      BY <1>1, <2>1, <2>2
    <3> QED
      BY <1>1, <1>4, <3>1
  <2>3. CASE k > b
    <3>1. b \in a + 1 .. k - 1
      BY <1>1, <2>1, <2>3
    <3> QED
      BY <1>2, <1>4, <3>1
  <2> QED
    BY <1>1, <2>1, <2>2, <2>3
<1> HIDE DEF Is
<1>5. (CHOOSE k \in a + 1 .. size + 1 : Is(k)) = b
  BY <1>3, <1>4
<1>6. Kept(a + 1) = CHOOSE k \in a + 1 .. size + 1 : Is(k)
  BY DEF Kept, Is, size
<1> QED
  BY <1>5, <1>6 DEF a, b

-----------------------------------------------------------------------------
(* Reading the characters *)

\* A reader that has not come to the end.
Unfinished == FALSE
ReaderOf(next, last6, posn) ==
  [next |-> next, last6 |-> last6, posn |-> posn, finished |-> Unfinished]

LEMMA get6bitsIs ==
  ASSUME NEW n, NEW data, IsText(data, n, FileByte), NEW f, IsFile(f, data, n),
         NEW i \in 1 .. CharsOf(n) + 1, NEW l, NEW p
  PROVE  get6bits(ReaderOf(f[i - 1] + 1, l, p))
           = [c |-> Sixth(Spelt(data, n, i)), r |-> ReaderOf(f[i] + 1, l, p)]
<1> DEFINE r == ReaderOf(f[i - 1] + 1, l, p)
           s == ReaderOf(f[i], l, p)
<1>1. Kept(r.next) = f[i]
  BY KeptIs DEF ReaderOf
<1>2. [r EXCEPT !.next = Kept(@)] = s
  BY <1>1 DEF ReaderOf
<1>3. Len(pemText) \in Nat /\ f[i] \in Nat /\ f[i] <= Len(pemText) /\ pemText[f[i]] = Spelt(data, n, i)
  <2>1. n \in Nat /\ CharsOf(n) \in Nat
    BY TextIs DEF CharsOf
  <2>2. i \in 0 .. CharsOf(n) + 1
    BY <2>1
  <2> QED
    BY <2>2 DEF IsFile
<1>4. s.next = f[i] /\ [s EXCEPT !.next = @ + 1] = ReaderOf(f[i] + 1, l, p)
  BY DEF ReaderOf
<1> HIDE DEF s
<1>5. readChar(s) = [c |-> Spelt(data, n, i), r |-> ReaderOf(f[i] + 1, l, p)]
  <2>1. ~ (s.next > Len(pemText))
    BY <1>3, <1>4
  <2>2. readChar(s) = [c |-> pemText[s.next], r |-> [s EXCEPT !.next = @ + 1]]
    BY <2>1 DEF readChar
  <2> QED
    BY <1>3, <1>4, <2>2
<1> HIDE DEF r
<1>6. get6bits(r) = [c |-> Sixth(Spelt(data, n, i)), r |-> ReaderOf(f[i] + 1, l, p)]
  BY <1>2, <1>5 DEF get6bits
<1> QED
  BY <1>6 DEF r

-----------------------------------------------------------------------------
(* Reading bytes *)

\* How many characters have been read with k bytes, and the six bits read last.
CharsRead(k) == 4 * (k \div 3) + (IF k % 3 = 0 THEN 0 ELSE (k % 3) + 1)

LastBits(data, n, k) ==
  IF k = 0 THEN 0
  ELSE IF k % 3 = 0 THEN ThirdSix(ByteAt(data, n, k - 1), ByteAt(data, n, k))
  ELSE IF k % 3 = 1 THEN SecondSix(ByteAt(data, n, k), ByteAt(data, n, k + 1))
  ELSE ThirdSix(ByteAt(data, n, k), ByteAt(data, n, k + 1))

\* The reader after k bytes.
ReaderAt(f, data, n, k) ==
  ReaderOf(f[CharsRead(k)] + 1, LastBits(data, n, k), k % 3)

LEMMA LastBitsAre ==
  ASSUME NEW data, NEW n, NEW k, k # 0
  PROVE  /\ k % 3 = 0 => LastBits(data, n, k) = ThirdSix(ByteAt(data, n, k - 1), ByteAt(data, n, k))
         /\ k % 3 = 1 => LastBits(data, n, k) = SecondSix(ByteAt(data, n, k), ByteAt(data, n, k + 1))
         /\ k % 3 = 2 => LastBits(data, n, k) = ThirdSix(ByteAt(data, n, k), ByteAt(data, n, k + 1))
<1> DEFINE p == k % 3
<1>1. LastBits(data, n, k) =
        IF p = 0 THEN ThirdSix(ByteAt(data, n, k - 1), ByteAt(data, n, k))
        ELSE IF p = 1 THEN SecondSix(ByteAt(data, n, k), ByteAt(data, n, k + 1))
        ELSE ThirdSix(ByteAt(data, n, k), ByteAt(data, n, k + 1))
  BY DEF LastBits
<1> HIDE DEF p
<1> QED
  BY <1>1 DEF p

\* The second and third reading are of one character.
LEMMA OneRead ==
  ASSUME NEW n, NEW data, IsText(data, n, FileByte), NEW f, IsFile(f, data, n),
         NEW i \in 1 .. CharsOf(n) + 1, NEW l, NEW p \in {1, 2}, NEW x, x = Sixth(Spelt(data, n, i)),
         x # Failed
  PROVE  Base64ReadByte(ReaderOf(f[i - 1] + 1, l, p))
           = [c |-> WithLast(p, l, x),
              r |-> ReaderOf(f[i] + 1, IF p = 1 THEN x ELSE l, (p + 1) % 3)]
<1> DEFINE r == ReaderOf(f[i - 1] + 1, l, p)
           s == ReaderOf(f[i] + 1, l, p)
<1>1. get6bits(r) = [c |-> x, r |-> s]
  BY get6bitsIs
<1>2. r.posn = p /\ r.last6 = l /\ r.finished = FALSE /\ s.next = f[i] + 1
  BY DEF ReaderOf, Unfinished
<1>3. p # 0 /\ get6bits(r).c = x /\ get6bits(r).r = s
  BY <1>1
<1> HIDE DEF r, s
<1>4. Base64ReadByte(r)
        = [c |-> WithLast(r.posn, r.last6, x),
           r |-> [next |-> s.next, last6 |-> IF r.posn = 1 THEN x ELSE r.last6,
                  posn |-> (r.posn + 1) % 3, finished |-> Unfinished]]
  BY <1>2, <1>3 DEF Base64ReadByte, Unfinished
<1> QED
  BY <1>2, <1>4 DEF r, ReaderOf

\* The first reading is of two.
LEMMA TwoRead ==
  ASSUME NEW n, NEW data, IsText(data, n, FileByte), NEW f, IsFile(f, data, n),
         NEW i \in 1 .. CharsOf(n), NEW l,
         Sixth(Spelt(data, n, i)) # Failed, Sixth(Spelt(data, n, i + 1)) # Failed
  PROVE  Base64ReadByte(ReaderOf(f[i - 1] + 1, l, 0))
           = [c |-> Sixth(Spelt(data, n, i)) * 4 + (Sixth(Spelt(data, n, i + 1)) \div 16),
              r |-> ReaderOf(f[i + 1] + 1, Sixth(Spelt(data, n, i + 1)), 1)]
<1> DEFINE r == ReaderOf(f[i - 1] + 1, l, 0)
           s == ReaderOf(f[i] + 1, l, 0)
           t == ReaderOf(f[i + 1] + 1, l, 0)
           x == Sixth(Spelt(data, n, i))
           y == Sixth(Spelt(data, n, i + 1))
<1>0. n \in Nat /\ CharsOf(n) \in Nat
  BY TextIs DEF CharsOf
<1>1. i \in 1 .. CharsOf(n) + 1 /\ i + 1 \in 1 .. CharsOf(n) + 1 /\ (i + 1) - 1 = i
  BY <1>0
<1>2. get6bits(r) = [c |-> x, r |-> s]
  BY <1>1, get6bitsIs
<1>3. get6bits(s) = [c |-> y, r |-> t]
  <2> DEFINE j == i + 1
  <2>1. j \in 1 .. CharsOf(n) + 1 /\ j - 1 = i
    BY <1>1
  <2> HIDE DEF j
  <2>2. get6bits(ReaderOf(f[j - 1] + 1, l, 0))
          = [c |-> Sixth(Spelt(data, n, j)), r |-> ReaderOf(f[j] + 1, l, 0)]
    BY <2>1, get6bitsIs
  <2> QED
    BY <2>1, <2>2 DEF j
<1>4. r.posn = 0 /\ r.last6 = l /\ r.finished = FALSE /\ t.next = f[i + 1] + 1
  BY DEF ReaderOf, Unfinished
<1>5. get6bits(r).c = x /\ get6bits(r).r = s /\ get6bits(s).c = y /\ get6bits(s).r = t
  BY <1>2, <1>3
<1>7. x # Failed /\ y # Failed
  OBVIOUS
<1> HIDE DEF r, s, t, x, y
<1>6. Base64ReadByte(r)
        = [c |-> x * 4 + (y \div 16),
           r |-> [next |-> t.next, last6 |-> y, posn |-> 1, finished |-> Unfinished]]
  BY <1>4, <1>5, <1>7 DEF Base64ReadByte, Unfinished
<1> QED
  BY <1>4, <1>6 DEF r, x, y, ReaderOf

\* A character that ends the data ends the reading.
LEMMA EndRead ==
  ASSUME NEW n, NEW data, IsText(data, n, FileByte), NEW f, IsFile(f, data, n),
         NEW i \in 1 .. CharsOf(n) + 1, NEW l, NEW p, Sixth(Spelt(data, n, i)) = Failed
  PROVE  Base64ReadByte(ReaderOf(f[i - 1] + 1, l, p)).c = Failed
<1> DEFINE r == ReaderOf(f[i - 1] + 1, l, p)
<1>1. get6bits(r).c = Failed
  <2>1. get6bits(r) = [c |-> Sixth(Spelt(data, n, i)), r |-> ReaderOf(f[i] + 1, l, p)]
    BY get6bitsIs
  <2> QED
    BY <2>1
<1>2. r.finished = FALSE
  BY DEF ReaderOf, Unfinished
<1> HIDE DEF r
<1>3. Base64ReadByte(r).c = Failed
  BY <1>1, <1>2 DEF Base64ReadByte
<1> QED
  BY <1>3 DEF r

\* Where byte k + 1 stands in its group.
LEMMA PlaceInGroup ==
  ASSUME NEW k \in Nat
  PROVE  \E g \in Nat :
           \/ k = 3 * g /\ k % 3 = 0 /\ (k + 1) % 3 = 1
              /\ CharsRead(k) = 4 * g /\ CharsRead(k + 1) = 4 * g + 2
           \/ k = 3 * g + 1 /\ k % 3 = 1 /\ (k + 1) % 3 = 2
              /\ CharsRead(k) = 4 * g + 2 /\ CharsRead(k + 1) = 4 * g + 3
           \/ k = 3 * g + 2 /\ k % 3 = 2 /\ (k + 1) % 3 = 0
              /\ CharsRead(k) = 4 * g + 3 /\ CharsRead(k + 1) = 4 * g + 4
<1> DEFINE g == k \div 3
<1>1. g \in Nat /\ (k = 3 * g \/ k = 3 * g + 1 \/ k = 3 * g + 2)
  BY Z3
<1>2. CASE k = 3 * g
  <2>1. k % 3 = 0 /\ (k + 1) % 3 = 1 /\ (k + 1) \div 3 = g
    BY <1>2, Z3
  <2>2. CharsRead(k) = 4 * g /\ CharsRead(k + 1) = 4 * g + 2
    BY <1>1, <2>1 DEF CharsRead
  <2> QED
    BY <1>1, <1>2, <2>1, <2>2
<1>3. CASE k = 3 * g + 1
  <2>1. k % 3 = 1 /\ (k + 1) % 3 = 2 /\ (k + 1) \div 3 = g
    BY <1>3, Z3
  <2>2. CharsRead(k) = 4 * g + 2 /\ CharsRead(k + 1) = 4 * g + 3
    BY <1>1, <2>1 DEF CharsRead
  <2> QED
    BY <1>1, <1>3, <2>1, <2>2
<1>4. CASE k = 3 * g + 2
  <2>1. k % 3 = 2 /\ (k + 1) % 3 = 0 /\ (k + 1) \div 3 = g + 1
    BY <1>4, Z3
  <2>2. CharsRead(k) = 4 * g + 3 /\ CharsRead(k + 1) = 4 * g + 4
    BY <1>1, <2>1 DEF CharsRead
  <2> QED
    BY <1>1, <1>4, <2>1, <2>2
<1> QED
  BY <1>1, <1>2, <1>3, <1>4

\* FileByte after byte is read, and the reader goes on to the next.
LEMMA ReadByteIs ==
  ASSUME NEW n, NEW data, IsText(data, n, FileByte), NEW f, IsFile(f, data, n),
         NEW k \in Nat, k < n
  PROVE  Base64ReadByte(ReaderAt(f, data, n, k))
           = [c |-> data[k + 1], r |-> ReaderAt(f, data, n, k + 1)]
<1>0. n \in Nat /\ CharsOf(n) \in Nat
  BY TextIs DEF CharsOf
<1> DEFINE B(j) == ByteAt(data, n, j)
           r == ReaderAt(f, data, n, k)
<1>1. PICK g \in Nat :
           \/ k = 3 * g /\ k % 3 = 0 /\ (k + 1) % 3 = 1
              /\ CharsRead(k) = 4 * g /\ CharsRead(k + 1) = 4 * g + 2
           \/ k = 3 * g + 1 /\ k % 3 = 1 /\ (k + 1) % 3 = 2
              /\ CharsRead(k) = 4 * g + 2 /\ CharsRead(k + 1) = 4 * g + 3
           \/ k = 3 * g + 2 /\ k % 3 = 2 /\ (k + 1) % 3 = 0
              /\ CharsRead(k) = 4 * g + 3 /\ CharsRead(k + 1) = 4 * g + 4
  BY PlaceInGroup
<1>2. 3 * g < n
  BY <1>0, <1>1
<1>3. \A j \in Nat \ {0} : B(j) \in FileByte
  BY ByteAtIs
<1>4. B(k + 1) = data[k + 1] /\ k + 1 # 0 /\ (k + 1) - 1 = k
  BY <1>0 DEF ByteAt
<1>5. 4 * g + 4 <= CharsOf(n)
  BY <1>2, SpeltIs
<1>6. /\ B(3 * g + 1) \in FileByte /\ B(3 * g + 2) \in FileByte /\ B(3 * g + 3) \in FileByte
  BY <1>3
<1> DEFINE x1 == FirstSix(B(3 * g + 1))
           x2 == SecondSix(B(3 * g + 1), B(3 * g + 2))
           x3 == ThirdSix(B(3 * g + 2), B(3 * g + 3))
           x4 == FourthSix(B(3 * g + 3))
<1>7. x1 \in 0 .. 63 /\ x2 \in 0 .. 63 /\ x3 \in 0 .. 63 /\ x4 \in 0 .. 63
  BY GroupBits
<1>8. /\ Spelt(data, n, 4 * g + 1) = Alphabet(x1) /\ Spelt(data, n, 4 * g + 2) = Alphabet(x2)
      /\ Spelt(data, n, 4 * g + 3) = IF 3 * g + 2 > n THEN 61 ELSE Alphabet(x3)
      /\ Spelt(data, n, 4 * g + 4) = IF 3 * g + 3 > n THEN 61 ELSE Alphabet(x4)
  BY <1>2, SpeltIs
<1>9. \A x \in 0 .. 63 : Sixth(Alphabet(x)) = x /\ x # Failed
  BY AlphabetIs DEF Failed
<1>10. r = ReaderOf(f[CharsRead(k)] + 1, LastBits(data, n, k), k % 3)
  BY DEF ReaderAt
<1>11. ReaderAt(f, data, n, k + 1)
         = ReaderOf(f[CharsRead(k + 1)] + 1, LastBits(data, n, k + 1), (k + 1) % 3)
  BY DEF ReaderAt
<1> HIDE DEF r, x1, x2, x3, x4, B
<1>12. CASE k = 3 * g /\ k % 3 = 0 /\ (k + 1) % 3 = 1
            /\ CharsRead(k) = 4 * g /\ CharsRead(k + 1) = 4 * g + 2
  <2> DEFINE i == 4 * g + 1
             l == LastBits(data, n, k)
  <2>1. i \in 1 .. CharsOf(n) /\ i - 1 = 4 * g /\ i + 1 = 4 * g + 2
    BY <1>0, <1>5
  <2>2. x1 = Sixth(Spelt(data, n, i)) /\ x2 = Sixth(Spelt(data, n, i + 1))
    BY <1>7, <1>8, <1>9, <2>1
  <2>3. x1 # Failed /\ x2 # Failed
    BY <1>7, <1>9
  <2> HIDE DEF i, l
  <2>4. Base64ReadByte(ReaderOf(f[i - 1] + 1, l, 0))
          = [c |-> x1 * 4 + (x2 \div 16), r |-> ReaderOf(f[i + 1] + 1, x2, 1)]
    <3> DEFINE u == Sixth(Spelt(data, n, i))
               v == Sixth(Spelt(data, n, i + 1))
    <3>1. i \in 1 .. CharsOf(n) /\ u # Failed /\ v # Failed /\ u = x1 /\ v = x2
      BY <2>1, <2>2, <2>3
    <3>2. Base64ReadByte(ReaderOf(f[i - 1] + 1, l, 0))
            = [c |-> u * 4 + (v \div 16), r |-> ReaderOf(f[i + 1] + 1, v, 1)]
      BY <3>1, TwoRead
    <3> HIDE DEF u, v
    <3> QED
      BY <3>1, <3>2
  <2>5. x1 * 4 + (x2 \div 16) = B(k + 1)
    BY <1>6, <1>12, FirstJoined DEF x1, x2
  <2>6. LastBits(data, n, k + 1) = x2
    <3>1. 3 * g + 2 = (k + 1) + 1 /\ 3 * g + 1 = k + 1
      BY <1>12
    <3>2. LastBits(data, n, k + 1) = SecondSix(ByteAt(data, n, k + 1), ByteAt(data, n, (k + 1) + 1))
      BY <1>4, <1>12, LastBitsAre
    <3> QED
      BY <3>1, <3>2 DEF x2, B
  <2> QED
    BY <1>4, <1>10, <1>11, <1>12, <2>1, <2>4, <2>5, <2>6 DEF r, l
<1>13. CASE k = 3 * g + 1 /\ k % 3 = 1 /\ (k + 1) % 3 = 2
            /\ CharsRead(k) = 4 * g + 2 /\ CharsRead(k + 1) = 4 * g + 3
  <2> DEFINE i == 4 * g + 3
             l == LastBits(data, n, k)
             p == 1
  <2>1. i \in 1 .. CharsOf(n) + 1 /\ i - 1 = 4 * g + 2
    BY <1>0, <1>5
  <2>2. ~ (3 * g + 2 > n)
    BY <1>0, <1>13
  <2>3. x3 = Sixth(Spelt(data, n, i)) /\ x3 # Failed
    BY <1>7, <1>8, <1>9, <2>2
  <2>4. l = x2
    <3>1. 3 * g + 2 = k + 1 /\ 3 * g + 1 = k /\ k # 0
      BY <1>13
    <3> QED
      BY <1>13, <3>1 DEF LastBits, x2, B
  <2>5. p \in {1, 2} /\ p = 1 /\ (p + 1) % 3 = 2
    OBVIOUS
  <2> HIDE DEF i, l, p
  <2>6. Base64ReadByte(ReaderOf(f[i - 1] + 1, l, p))
          = [c |-> WithLast(p, l, x3), r |-> ReaderOf(f[i] + 1, IF p = 1 THEN x3 ELSE l, (p + 1) % 3)]
    BY <2>1, <2>3, <2>5, OneRead
  <2>7. WithLast(1, x2, x3) = B(k + 1)
    <3>1. 3 * g + 2 = k + 1
      BY <1>13
    <3> QED
      BY <1>6, <3>1, SecondJoined DEF x2, x3
  <2>8. LastBits(data, n, k + 1) = x3
    <3>1. 3 * g + 2 = k + 1 /\ 3 * g + 3 = (k + 1) + 1
      BY <1>13
    <3>2. LastBits(data, n, k + 1) = ThirdSix(ByteAt(data, n, k + 1), ByteAt(data, n, (k + 1) + 1))
      BY <1>4, <1>13, LastBitsAre
    <3> QED
      BY <3>1, <3>2 DEF x3, B
  <2>9. Base64ReadByte(ReaderOf(f[i - 1] + 1, l, 1)) = [c |-> B(k + 1), r |-> ReaderOf(f[i] + 1, x3, 2)]
    BY <2>4, <2>5, <2>6, <2>7
  <2> QED
    BY <1>4, <1>10, <1>11, <1>13, <2>1, <2>8, <2>9 DEF r, l, i
<1>14. CASE k = 3 * g + 2 /\ k % 3 = 2 /\ (k + 1) % 3 = 0
            /\ CharsRead(k) = 4 * g + 3 /\ CharsRead(k + 1) = 4 * g + 4
  <2> DEFINE i == 4 * g + 4
             l == LastBits(data, n, k)
             p == 2
  <2>1. i \in 1 .. CharsOf(n) + 1 /\ i - 1 = 4 * g + 3
    BY <1>0, <1>5
  <2>2. ~ (3 * g + 3 > n)
    BY <1>0, <1>14
  <2>3. x4 = Sixth(Spelt(data, n, i)) /\ x4 # Failed
    BY <1>7, <1>8, <1>9, <2>2
  <2>4. l = x3
    <3>1. 3 * g + 2 = k /\ 3 * g + 3 = k + 1 /\ k # 0
      BY <1>14
    <3> QED
      BY <1>14, <3>1 DEF LastBits, x3, B
  <2>5. p \in {1, 2} /\ p = 2 /\ (p + 1) % 3 = 0
    OBVIOUS
  <2> HIDE DEF i, l, p
  <2>6. Base64ReadByte(ReaderOf(f[i - 1] + 1, l, p))
          = [c |-> WithLast(p, l, x4), r |-> ReaderOf(f[i] + 1, IF p = 1 THEN x4 ELSE l, (p + 1) % 3)]
    BY <2>1, <2>3, <2>5, OneRead
  <2>7. WithLast(2, x3, x4) = B(k + 1)
    <3>1. 3 * g + 3 = k + 1
      BY <1>14
    <3> QED
      BY <1>6, <3>1, ThirdJoined DEF x3, x4
  <2>8. LastBits(data, n, k + 1) = x3
    <3>1. 3 * g + 2 = (k + 1) - 1 /\ 3 * g + 3 = k + 1
      BY <1>14
    <3>2. LastBits(data, n, k + 1) = ThirdSix(ByteAt(data, n, (k + 1) - 1), ByteAt(data, n, k + 1))
      BY <1>4, <1>14, LastBitsAre
    <3> QED
      BY <3>1, <3>2 DEF x3, B
  <2>9. Base64ReadByte(ReaderOf(f[i - 1] + 1, l, 2)) = [c |-> B(k + 1), r |-> ReaderOf(f[i] + 1, l, 0)]
    BY <2>4, <2>5, <2>6, <2>7
  <2> QED
    BY <1>4, <1>10, <1>11, <1>14, <2>1, <2>4, <2>8, <2>9 DEF r, l, i
<1> QED
  BY <1>1, <1>12, <1>13, <1>14

\* After the last byte there is none.
LEMMA ReadEndIs ==
  ASSUME NEW n, NEW data, IsText(data, n, FileByte), NEW f, IsFile(f, data, n)
  PROVE  Base64ReadByte(ReaderAt(f, data, n, n)).c = Failed
<1>0. n \in Nat /\ CharsOf(n) \in Nat
  BY TextIs DEF CharsOf
<1> DEFINE r == ReaderAt(f, data, n, n)
           l == LastBits(data, n, n)
           p == n % 3
<1>1. PICK g \in Nat :
           \/ n = 3 * g /\ n % 3 = 0 /\ CharsRead(n) = 4 * g
           \/ n = 3 * g + 1 /\ n % 3 = 1 /\ CharsRead(n) = 4 * g + 2
           \/ n = 3 * g + 2 /\ n % 3 = 2 /\ CharsRead(n) = 4 * g + 3
  BY <1>0, PlaceInGroup
<1> DEFINE i == CharsRead(n) + 1
<1>2. i \in 1 .. CharsOf(n) + 1 /\ Sixth(Spelt(data, n, i)) = Failed /\ i - 1 = CharsRead(n)
  <2>1. CASE n = 3 * g /\ n % 3 = 0 /\ CharsRead(n) = 4 * g
    <3>1. CharsOf(n) = 4 * g
      BY <2>1, Z3 DEF CharsOf
    <3>2. i = 4 * g + 1 /\ i \in 1 .. CharsOf(n) + 1 /\ ~ (i <= CharsOf(n)) /\ i - 1 = CharsRead(n)
      BY <2>1, <3>1
    <3> HIDE DEF i
    <3> QED
      BY <3>2, EndsAre DEF Spelt
  <2>2. CASE n = 3 * g + 1 /\ n % 3 = 1 /\ CharsRead(n) = 4 * g + 2
    <3>1. 3 * g < n /\ 3 * g + 2 > n
      BY <2>2
    <3>2. 4 * g + 4 <= CharsOf(n) /\ Spelt(data, n, 4 * g + 3) = 61
      BY <3>1, SpeltIs
    <3>3. i = 4 * g + 3 /\ i \in 1 .. CharsOf(n) + 1 /\ i - 1 = CharsRead(n)
      BY <1>0, <2>2, <3>2
    <3> HIDE DEF i
    <3> QED
      BY <3>2, <3>3, EndsAre
  <2>3. CASE n = 3 * g + 2 /\ n % 3 = 2 /\ CharsRead(n) = 4 * g + 3
    <3>1. 3 * g < n /\ 3 * g + 3 > n
      BY <2>3
    <3>2. 4 * g + 4 <= CharsOf(n) /\ Spelt(data, n, 4 * g + 4) = 61
      BY <3>1, SpeltIs
    <3>3. i = 4 * g + 4 /\ i \in 1 .. CharsOf(n) + 1 /\ i - 1 = CharsRead(n)
      BY <1>0, <2>3, <3>2
    <3> HIDE DEF i
    <3> QED
      BY <3>2, <3>3, EndsAre
  <2> QED
    BY <1>1, <2>1, <2>2, <2>3
<1> HIDE DEF i, l, p
<1>3. Base64ReadByte(ReaderOf(f[i - 1] + 1, l, p)).c = Failed
  BY <1>2, EndRead
<1> QED
  BY <1>2, <1>3 DEF ReaderAt, l, p

-----------------------------------------------------------------------------
(* Reading lengths and data *)

\* l bytes after the first k.
Part(data, k, l) == [j \in 1 .. l |-> data[k + j]]

LEMMA PartIs ==
  ASSUME NEW n, NEW data, IsText(data, n, FileByte), NEW k \in Nat, NEW l \in Nat, k + l <= n
  PROVE  IsText(Part(data, k, l), l, FileByte) /\ \A j \in 1 .. l : Part(data, k, l)[j] = data[k + j]
<1>1. n \in Nat /\ \A j \in 1 .. n : data[j] \in FileByte
  BY TextIs
<1>2. \A j \in 1 .. l : k + j \in 1 .. n
  BY <1>1
<1>3. IsTable(Part(data, k, l), l, FileByte)
  BY <1>1, <1>2 DEF IsTable, Part
<1> QED
  BY <1>3, IsTextOf DEF Part

LEMMA PartGrows ==
  ASSUME NEW n, NEW data, IsText(data, n, FileByte), NEW k \in Nat, NEW l \in Nat, k + l + 1 <= n
  PROVE  /\ Part(data, k, 0) = <<>>
         /\ Append(Part(data, k, l), data[k + l + 1]) = Part(data, k, l + 1)
<1>0. n \in Nat /\ \A j \in 1 .. n : data[j] \in FileByte
  BY TextIs
<1> DEFINE s == Part(data, k, l)
           e == data[k + l + 1]
           t == Append(s, e)
           m == l + 1
           u == Part(data, k, m)
<1>1. IsText(s, l, FileByte) /\ \A j \in 1 .. l : s[j] = data[k + j]
  <2>1. k + l <= n
    BY <1>0
  <2> QED
    BY <2>1, PartIs
<1>2. e \in FileByte
  BY <1>0
<1>3. IsText(u, m, FileByte) /\ \A j \in 1 .. m : u[j] = data[k + j]
  <2>1. m \in Nat /\ k + m <= n
    OBVIOUS
  <2> HIDE DEF m
  <2> QED
    BY <2>1, PartIs
<1> HIDE DEF s, e, u
<1>4. /\ IsText(t, m, FileByte) /\ \A j \in 1 .. l : t[j] = s[j]
      /\ t[l + 1] = e
  <2>1. s \in Seq(FileByte) /\ Len(s) = l
    BY <1>1 DEF IsText
  <2>2. /\ t \in Seq(FileByte) /\ Len(t) = l + 1 /\ \A j \in 1 .. l : t[j] = s[j]
        /\ t[l + 1] = e
    BY <1>2, <2>1, AppendProperties
  <2> QED
    BY <2>2 DEF IsText
<1>5. ASSUME NEW j \in 1 .. m PROVE t[j] = u[j]
  <2>1. CASE j = l + 1
    <3>1. u[j] = data[k + j] /\ k + j = k + l + 1
      BY <1>3, <2>1
    <3> QED
      BY <1>4, <2>1, <3>1 DEF e
  <2>2. CASE j # l + 1
    <3>1. j \in 1 .. l
      BY <2>2
    <3> QED
      BY <1>1, <1>3, <1>4, <3>1
  <2> QED
    BY <2>1, <2>2
<1> HIDE DEF t, m
<1>6. t = u
  BY <1>3, <1>4, <1>5, SameText
<1>7. Part(data, k, 0) = <<>>
  <2> DEFINE none == 0
  <2>1. none \in Nat /\ k + none <= n
    BY <1>0
  <2> HIDE DEF none
  <2>2. IsText(Part(data, k, none), none, FileByte)
    BY <2>1, PartIs
  <2>3. Part(data, k, 0) \in Seq(FileByte) /\ Len(Part(data, k, 0)) = 0
    BY <2>2 DEF IsText, none
  <2> QED
    BY <2>3, EmptySeq
<1> QED
  BY <1>6, <1>7 DEF t, u, s, e, m

LEMMA readBytesIs ==
  ASSUME NEW n, NEW data, IsText(data, n, FileByte), NEW f, IsFile(f, data, n),
         NEW k \in Nat, NEW l \in Nat, k + l <= n
  PROVE  readBytes(ReaderAt(f, data, n, k), l)
           = [c |-> 0, bytes |-> Part(data, k, l), r |-> ReaderAt(f, data, n, k + l)]
<1>0. n \in Nat /\ \A j \in 1 .. n : data[j] \in FileByte
  BY TextIs
<1> DEFINE At(j) == ReaderAt(f, data, n, j)
           start == [c |-> 0, bytes |-> <<>>, r |-> At(k)]
           Step(last) ==
             LET byte == Base64ReadByte(last.r)
             IN  IF last.c = Failed THEN last
                 ELSE IF byte.c = Failed THEN [c |-> Failed, bytes |-> last.bytes, r |-> byte.r]
                 ELSE [c |-> 0, bytes |-> Append(last.bytes, byte.c), r |-> byte.r]
           IsRun(g) == g = [i \in 0 .. l |-> IF i = 0 THEN start ELSE Step(g[i - 1])]
           Value(i) == [c |-> 0, bytes |-> Part(data, k, i), r |-> At(k + i)]
           all == [i \in 0 .. l |-> Value(i)]
           run == CHOOSE g : IsRun(g)
<1>1. ASSUME NEW i \in 0 .. l, i # l PROVE Step(Value(i)) = Value(i + 1)
  <2>1. k + i \in Nat /\ k + i < n /\ k + (i + 1) = (k + i) + 1 /\ i \in Nat /\ k + i + 1 <= n
    BY <1>0, <1>1
  <2>2. Base64ReadByte(At(k + i)) = [c |-> data[k + i + 1], r |-> At(k + i + 1)]
    <3> DEFINE j == k + i
    <3>1. j \in Nat /\ j < n
      BY <2>1
    <3> HIDE DEF j
    <3>2. Base64ReadByte(At(j)) = [c |-> data[j + 1], r |-> At(j + 1)]
      BY <3>1, ReadByteIs
    <3> QED
      BY <3>2 DEF j
  <2>3. data[k + i + 1] # Failed
    <3>1. data[k + i + 1] \in FileByte
      BY <1>0, <2>1
    <3> QED
      BY <3>1 DEF FileByte, Failed
  <2>4. Append(Part(data, k, i), data[k + i + 1]) = Part(data, k, i + 1)
    BY <2>1, PartGrows
  <2> DEFINE v == Value(i)
             byte == Base64ReadByte(v.r)
  <2>5. v.c # Failed /\ v.bytes = Part(data, k, i) /\ v.r = At(k + i)
    BY DEF Failed
  <2> HIDE DEF At, Value
  <2>6. byte.c = data[k + i + 1] /\ byte.r = At(k + i + 1)
    BY <2>2, <2>5
  <2> HIDE DEF v, byte
  <2>7. Step(v) = [c |-> 0, bytes |-> Append(v.bytes, byte.c), r |-> byte.r]
    BY <2>3, <2>5, <2>6 DEF byte
  <2> HIDE DEF Step
  <2>8. Step(v) = [c |-> 0, bytes |-> Part(data, k, i + 1), r |-> At(k + (i + 1))]
    BY <2>1, <2>4, <2>5, <2>6, <2>7
  <2> QED
    BY <2>8 DEF v, Value
<1>2. Value(0) = start
  <2>1. CASE l = 0
    <3> DEFINE none == 0
    <3>1. none \in Nat /\ k + none <= n
      BY <1>0
    <3> HIDE DEF none
    <3>2. IsText(Part(data, k, none), none, FileByte)
      BY <3>1, PartIs
    <3>3. Part(data, k, 0) \in Seq(FileByte) /\ Len(Part(data, k, 0)) = 0
      BY <3>2 DEF IsText, none
    <3>4. Part(data, k, 0) = <<>>
      BY <3>3, EmptySeq
    <3>5. k + 0 = k
      OBVIOUS
    <3> QED
      BY <3>4, <3>5
  <2>2. CASE l # 0
    <3> DEFINE none == 0
    <3>1. none \in Nat /\ k + none + 1 <= n
      BY <1>0, <2>2
    <3> HIDE DEF none
    <3>2. Part(data, k, 0) = <<>>
      BY <3>1, PartGrows
    <3>3. k + 0 = k
      OBVIOUS
    <3> QED
      BY <3>2, <3>3
  <2> QED
    BY <2>1, <2>2
<1> HIDE DEF Value, Step, start
<1>3. IsRun(all)
  <2> SUFFICES ASSUME NEW i \in 0 .. l
               PROVE  Value(i) = IF i = 0 THEN start ELSE Step(all[i - 1])
    OBVIOUS
  <2>1. CASE i = 0
    BY <1>2, <2>1
  <2>2. CASE i # 0
    <3>1. i - 1 \in 0 .. l /\ i - 1 # l /\ (i - 1) + 1 = i
      BY <2>2
    <3>2. all[i - 1] = Value(i - 1)
      BY <3>1
    <3> HIDE DEF all
    <3>3. Step(Value(i - 1)) = Value((i - 1) + 1)
      BY <1>1, <3>1
    <3> QED
      BY <2>2, <3>1, <3>2, <3>3
  <2> QED
    BY <2>1, <2>2
<1>4. IsRun(run)
  BY <1>3, Zenon
<1>5. readBytes(At(k), l) = run[l]
  BY DEF readBytes, start, Step
<1> HIDE DEF run
<1>6. \A i \in 0 .. l : run[i] = IF i = 0 THEN start ELSE Step(run[i - 1])
  BY <1>4
<1> DEFINE Good == {i \in Nat : i <= l => run[i] = Value(i)}
<1>7. 0 \in Good
  <2>1. 0 \in 0 .. l
    OBVIOUS
  <2>2. run[0] = start
    BY <1>6, <2>1
  <2> QED
    BY <1>2, <2>2
<1>8. ASSUME NEW i \in Nat, i \in Good PROVE i + 1 \in Good
  <2> SUFFICES ASSUME i + 1 <= l PROVE run[i + 1] = Value(i + 1)
    OBVIOUS
  <2>1. i \in 0 .. l /\ i # l /\ i + 1 \in 0 .. l /\ i + 1 # 0 /\ (i + 1) - 1 = i
    OBVIOUS
  <2>2. run[i] = Value(i)
    BY <1>8, <2>1
  <2>3. run[i + 1] = Step(run[i])
    BY <1>6, <2>1
  <2> QED
    BY <1>1, <2>1, <2>2, <2>3
<1> HIDE DEF Good
<1>9. Nat \subseteq Good
  BY <1>7, <1>8, Induction
<1>10. run[l] = Value(l)
  BY <1>9 DEF Good
<1> QED
  BY <1>5, <1>10 DEF Value

\* The same, part by part.
LEMMA ByteIsRead ==
  ASSUME NEW n, NEW data, IsText(data, n, FileByte), NEW f, IsFile(f, data, n),
         NEW k \in Nat, k < n
  PROVE  /\ Base64ReadByte(ReaderAt(f, data, n, k)).c = data[k + 1]
         /\ Base64ReadByte(ReaderAt(f, data, n, k)).r = ReaderAt(f, data, n, k + 1)
<1> DEFINE byte == Base64ReadByte(ReaderAt(f, data, n, k))
           next == ReaderAt(f, data, n, k + 1)
<1>1. byte = [c |-> data[k + 1], r |-> next]
  BY ReadByteIs
<1> HIDE DEF byte, next
<1>2. byte.c = data[k + 1] /\ byte.r = next
  BY <1>1
<1> QED
  BY <1>2 DEF byte, next

LEMMA NumberInIs ==
  ASSUME NEW b
  PROVE  /\ IsText(b, 1, FileByte) => NumberIn(b) = b[1]
         /\ IsText(b, 2, FileByte) => NumberIn(b) = b[1] * 256 + b[2]
<1> DEFINE IsRun(g, l) == g = [i \in 0 .. l |-> IF i = 0 THEN 0 ELSE g[i - 1] * 256 + b[i]]
           run(l) == CHOOSE g : IsRun(g, l)
<1>1. ASSUME IsText(b, 1, FileByte) PROVE NumberIn(b) = b[1]
  <2>0. Len(b) = 1 /\ b[1] \in FileByte
    <3> DEFINE one == 1
    <3>1. IsText(b, one, FileByte)
      BY <1>1
    <3> HIDE DEF one
    <3>2. Len(b) = one /\ \A i \in 1 .. one : b[i] \in FileByte
      BY <3>1, TextIs
    <3> QED
      BY <3>2 DEF one
  <2>1. Len(b) = 1 /\ b[1] \in Nat
    BY <2>0 DEF FileByte
  <2> DEFINE h == [i \in 0 .. 1 |-> IF i = 0 THEN 0 ELSE b[1]]
  <2>2. IsRun(h, 1)
    BY <2>1
  <2>3. IsRun(run(1), 1)
    BY <2>2, Zenon
  <2>4. NumberIn(b) = run(1)[1]
    BY <2>1 DEF NumberIn
  <2> HIDE DEF run
  <2>5. run(1)[0] = 0 /\ run(1)[1] = run(1)[0] * 256 + b[1]
    BY <2>3
  <2> QED
    BY <2>1, <2>4, <2>5
<1>2. ASSUME IsText(b, 2, FileByte) PROVE NumberIn(b) = b[1] * 256 + b[2]
  <2>0. Len(b) = 2 /\ b[1] \in FileByte /\ b[2] \in FileByte
    <3> DEFINE two == 2
    <3>1. IsText(b, two, FileByte)
      BY <1>2
    <3> HIDE DEF two
    <3>2. Len(b) = two /\ \A i \in 1 .. two : b[i] \in FileByte
      BY <3>1, TextIs
    <3> QED
      BY <3>2 DEF two
  <2>1. Len(b) = 2 /\ b[1] \in Nat /\ b[2] \in Nat
    BY <2>0 DEF FileByte
  <2> DEFINE h == [i \in 0 .. 2 |-> IF i = 0 THEN 0 ELSE IF i = 1 THEN b[1] ELSE b[1] * 256 + b[2]]
  <2>2. IsRun(h, 2)
    <3> SUFFICES ASSUME NEW i \in 0 .. 2
                 PROVE  h[i] = IF i = 0 THEN 0 ELSE h[i - 1] * 256 + b[i]
      OBVIOUS
    <3>1. i = 0 \/ i = 1 \/ i = 2
      OBVIOUS
    <3>2. h[0] = 0 /\ h[1] = b[1] /\ h[2] = b[1] * 256 + b[2]
      OBVIOUS
    <3> HIDE DEF h
    <3> QED
      BY <2>1, <3>1, <3>2
  <2>3. IsRun(run(2), 2)
    BY <2>2, Zenon
  <2>4. NumberIn(b) = run(2)[2]
    BY <2>1 DEF NumberIn
  <2> HIDE DEF run
  <2>5. run(2)[0] = 0 /\ run(2)[1] = run(2)[0] * 256 + b[1] /\ run(2)[2] = run(2)[1] * 256 + b[2]
    BY <2>3
  <2> QED
    BY <2>1, <2>4, <2>5
<1> QED
  BY <1>1, <1>2

\* The bytes of a length.
LengthBytes(l) == IF l < 128 THEN 1 ELSE IF l < 256 THEN 2 ELSE 3

LEMMA DerLengthIs ==
  ASSUME NEW l \in Nat, l < 65536
  PROVE  /\ LengthBytes(l) \in 1 .. 3 /\ IsText(DerLength(l), LengthBytes(l), FileByte)
         /\ l < 128 => DerLength(l) = <<l>>
         /\ l \in 128 .. 255 => DerLength(l) = <<129, l>>
         /\ l > 255 => DerLength(l) = <<130, l \div 256, l % 256>>
<1> DEFINE h == l \div 256
           m == l % 256
           d == 256
<1>1. DerLength(l) = CASE l < 128 -> <<l>> [] l \in 128 .. 255 -> <<129, l>>
                       [] l > 255 -> <<130, h, m>>
  BY DEF DerLength
<1>2. h \in FileByte /\ m \in FileByte
  <2>1. d \in Nat \ {0} /\ l \in Int /\ d = 256
    OBVIOUS
  <2> HIDE DEF d
  <2>2. l % d \in 0 .. d - 1 /\ l = d * (l \div d) + (l % d) /\ l \div d \in Int
    BY <2>1, Division
  <2>3. h \in Int /\ m \in 0 .. 255 /\ l = 256 * h + m
    BY <2>1, <2>2 DEF d
  <2> HIDE DEF h, m
  <2> QED
    BY <2>3 DEF FileByte
<1> HIDE DEF h, m
<1>3. CASE l < 128
  <2>1. DerLength(l) = <<l>>
    BY <1>1, <1>3
  <2>2. LengthBytes(l) = 1 /\ l \in FileByte
    BY <1>3 DEF LengthBytes, FileByte
  <2>3. IsText(<<l>>, 1, FileByte)
    BY <2>2 DEF IsText
  <2> QED
    BY <1>3, <2>1, <2>2, <2>3
<1>4. CASE l \in 128 .. 255
  <2>1. DerLength(l) = <<129, l>>
    BY <1>1, <1>4
  <2>2. LengthBytes(l) = 2 /\ l \in FileByte /\ 129 \in FileByte
    BY <1>4 DEF LengthBytes, FileByte
  <2>3. IsText(<<129, l>>, 2, FileByte)
    BY <2>2 DEF IsText
  <2> QED
    BY <1>4, <2>1, <2>2, <2>3
<1>5. CASE l > 255
  <2>1. DerLength(l) = <<130, h, m>>
    BY <1>1, <1>5
  <2>2. LengthBytes(l) = 3 /\ 130 \in FileByte
    BY <1>5 DEF LengthBytes, FileByte
  <2>3. IsText(<<130, h, m>>, 3, FileByte)
    BY <1>2, <2>2 DEF IsText
  <2> QED
    BY <1>5, <2>1, <2>2, <2>3 DEF h, m
<1> QED
  BY <1>3, <1>4, <1>5

\* s stands in the data behind byte k.
StandsAt(s, m, data, n, k) ==
  k \in Nat /\ m \in Nat /\ k + m <= n /\ \A j \in 1 .. m : data[k + j] = s[j]

LEMMA readLengthIs ==
  ASSUME NEW n, NEW data, IsText(data, n, FileByte), NEW f, IsFile(f, data, n), NEW k,
         NEW l \in Nat, l < 65536, StandsAt(DerLength(l), LengthBytes(l), data, n, k)
  PROVE  readLength(ReaderAt(f, data, n, k)) = [c |-> l, r |-> ReaderAt(f, data, n, k + LengthBytes(l))]
<1> DEFINE At(j) == ReaderAt(f, data, n, j)
           first == Base64ReadByte(At(k))
           rest == readBytes(first.r, first.c - 128)
<1>0. /\ n \in Nat /\ k \in Nat /\ k < n /\ LengthBytes(l) \in 1 .. 3 /\ k + LengthBytes(l) <= n
      /\ \A j \in 1 .. LengthBytes(l) : data[k + j] = DerLength(l)[j]
  BY DerLengthIs, TextIs DEF StandsAt
<1>1. first.c = data[k + 1] /\ first.r = At(k + 1)
  <2>1. first = [c |-> data[k + 1], r |-> At(k + 1)]
    BY <1>0, ReadByteIs
  <2> QED
    BY <2>1
<1>2. data[k + 1] = DerLength(l)[1]
  BY <1>0
<1> HIDE DEF At
<1>3. CASE l < 128
  <2>1. DerLength(l)[1] = l /\ LengthBytes(l) = 1
    BY <1>3, DerLengthIs DEF LengthBytes
  <2>2. first = [c |-> data[k + 1], r |-> At(k + 1)]
    BY <1>0, ReadByteIs DEF At
  <2>3. first.c < 128
    BY <1>1, <1>2, <1>3, <2>1
  <2> HIDE DEF first
  <2>4. readLength(At(k)) = first
    BY <2>3 DEF readLength, LengthFrom, first
  <2> QED
    BY <1>2, <2>1, <2>2, <2>4 DEF At
<1>4. ASSUME NEW m \in {1, 2}, first.c = 128 + m, LengthBytes(l) = m + 1,
             NumberIn(Part(data, k + 1, m)) = l
      PROVE  readLength(At(k)) = [c |-> l, r |-> At(k + LengthBytes(l))]
  <2>1. m \in Nat /\ k + 1 \in Nat /\ (k + 1) + m <= n /\ (k + 1) + m = k + LengthBytes(l)
    BY <1>0, <1>4
  <2>2. first.c - 128 = m /\ ~ (first.c < 128) /\ first.c # 128
    BY <1>4
  <2>3. readBytes(At(k + 1), m)
          = [c |-> 0, bytes |-> Part(data, k + 1, m), r |-> At(k + LengthBytes(l))]
    <3> DEFINE o == k + 1
    <3>1. o \in Nat /\ o + m <= n /\ o + m = k + LengthBytes(l)
      BY <2>1
    <3> HIDE DEF o
    <3>2. readBytes(At(o), m) = [c |-> 0, bytes |-> Part(data, o, m), r |-> At(o + m)]
      BY <2>1, <3>1, readBytesIs DEF At
    <3> QED
      BY <3>1, <3>2 DEF o
  <2>4. rest = [c |-> 0, bytes |-> Part(data, k + 1, m), r |-> At(k + LengthBytes(l))]
    BY <1>1, <2>2, <2>3
  <2>5. rest.c # Failed /\ NumberIn(rest.bytes) = l /\ rest.r = At(k + LengthBytes(l))
    BY <1>4, <2>4 DEF Failed
  <2> HIDE DEF first
  <2>6. readLength(At(k))
          = [c |-> IF first.c = 128 \/ rest.c = Failed THEN Failed ELSE NumberIn(rest.bytes),
             r |-> rest.r]
    BY <2>2 DEF readLength, LengthFrom, first
  <2> HIDE DEF rest
  <2> QED
    BY <2>2, <2>5, <2>6
<1>5. CASE l \in 128 .. 255
  <2>1. DerLength(l) = <<129, l>> /\ LengthBytes(l) = 2
    BY <1>5, DerLengthIs DEF LengthBytes
  <2>2. first.c = 129 /\ data[k + 2] = l
    BY <1>0, <1>1, <2>1
  <2> DEFINE o == k + 1
             one == 1
  <2>8. one \in 1 .. one
    OBVIOUS
  <2>3. o \in Nat /\ one \in Nat /\ o + one <= n
    BY <1>0, <2>1
  <2> HIDE DEF o, one
  <2>4. IsText(Part(data, o, one), one, FileByte) /\ \A j \in 1 .. one : Part(data, o, one)[j] = data[o + j]
    BY <2>3, PartIs
  <2> DEFINE part == Part(data, o, one)
  <2> HIDE DEF part
  <2>9. IsText(part, one, FileByte) /\ part[one] = data[o + one]
    BY <2>3, <2>4, <2>8 DEF part
  <2>5. IsText(Part(data, k + 1, 1), 1, FileByte) /\ Part(data, k + 1, 1)[1] = data[(k + 1) + 1]
    BY <2>9 DEF o, one, part
  <2>6. (k + 1) + 1 = k + 2
    BY <1>0
  <2>7. NumberIn(Part(data, k + 1, 1)) = l
    BY <2>2, <2>5, <2>6, NumberInIs
  <2> QED
    BY <1>4, <2>1, <2>2, <2>7 DEF At
<1>6. CASE l > 255
  <2> DEFINE h == l \div 256
             d == l % 256
  <2>1. DerLength(l) = <<130, h, d>> /\ LengthBytes(l) = 3
    BY <1>6, DerLengthIs DEF LengthBytes
  <2>0. h * 256 + d = l
    OBVIOUS
  <2> HIDE DEF h, d
  <2>2. first.c = 130 /\ data[k + 2] = h /\ data[k + 3] = d
    BY <1>0, <1>1, <2>1
  <2> DEFINE o == k + 1
             one == 1
             two == 2
  <2>8. one \in 1 .. two /\ two \in 1 .. two
    OBVIOUS
  <2>3. o \in Nat /\ two \in Nat /\ o + two <= n
    BY <1>0, <2>1
  <2> HIDE DEF o, one, two
  <2>4. IsText(Part(data, o, two), two, FileByte) /\ \A j \in 1 .. two : Part(data, o, two)[j] = data[o + j]
    BY <2>3, PartIs
  <2> DEFINE part == Part(data, o, two)
  <2> HIDE DEF part
  <2>9. IsText(part, two, FileByte) /\ part[one] = data[o + one] /\ part[two] = data[o + two]
    BY <2>3, <2>4, <2>8 DEF part
  <2>5. /\ IsText(Part(data, k + 1, 2), 2, FileByte) /\ Part(data, k + 1, 2)[1] = data[(k + 1) + 1]
        /\ Part(data, k + 1, 2)[2] = data[(k + 1) + 2]
    BY <2>9 DEF o, one, two, part
  <2>6. (k + 1) + 1 = k + 2 /\ (k + 1) + 2 = k + 3
    BY <1>0
  <2>7. NumberIn(Part(data, k + 1, 2)) = h * 256 + d
    BY <2>2, <2>5, <2>6, NumberInIs
  <2> QED
    BY <1>4, <2>0, <2>1, <2>2, <2>7 DEF At
<1> QED
  BY <1>3, <1>5, <1>6

LEMMA readHeaderIs ==
  ASSUME NEW n, NEW data, IsText(data, n, FileByte), NEW f, IsFile(f, data, n), NEW k \in Nat,
         NEW type, k < n, data[k + 1] = type,
         NEW l \in Nat, l < 65536, StandsAt(DerLength(l), LengthBytes(l), data, n, k + 1)
  PROVE  readHeader(ReaderAt(f, data, n, k), type)
           = [c |-> l, r |-> ReaderAt(f, data, n, k + 1 + LengthBytes(l))]
<1> DEFINE At(j) == ReaderAt(f, data, n, j)
           first == Base64ReadByte(At(k))
           o == k + 1
<1>1. first.c = type /\ first.r = At(o)
  <2>1. first = [c |-> data[k + 1], r |-> At(k + 1)]
    BY ReadByteIs
  <2> QED
    BY <2>1
<1>2. StandsAt(DerLength(l), LengthBytes(l), data, n, o)
  OBVIOUS
<1>3. k + 1 + LengthBytes(l) = o + LengthBytes(l)
  BY DerLengthIs
<1> HIDE DEF first, o
<1>4. readLength(At(o)) = [c |-> l, r |-> At(o + LengthBytes(l))]
  BY <1>2, readLengthIs
<1> HIDE DEF At
<1>5. readHeader(At(k), type) = readLength(At(o))
  BY <1>1 DEF readHeader, first
<1> QED
  BY <1>3, <1>4, <1>5 DEF At

LEMMA readDataIs ==
  ASSUME NEW n, NEW data, IsText(data, n, FileByte), NEW f, IsFile(f, data, n), NEW k \in Nat,
         NEW size, k < n, data[k + 1] = 2,
         NEW l \in Nat, l < 65536, StandsAt(DerLength(l), LengthBytes(l), data, n, k + 1),
         k + 1 + LengthBytes(l) + l <= n
  PROVE  readData(ReaderAt(f, data, n, k), size)
           = [c |-> 0, r |-> ReaderAt(f, data, n, k + 1 + LengthBytes(l) + l),
              data |-> LittleEndian(Part(data, k + 1 + LengthBytes(l), l), size)]
<1> DEFINE At(j) == ReaderAt(f, data, n, j)
           type == 2
           o == k + 1 + LengthBytes(l)
           header == readHeader(At(k), type)
           body == readBytes(header.r, header.c)
<1>1. data[k + 1] = type
  OBVIOUS
<1>2. o \in Nat /\ l \in Nat /\ o + l <= n /\ l # Failed
  BY DerLengthIs DEF Failed
<1> HIDE DEF type
<1>3. header = [c |-> l, r |-> At(k + 1 + LengthBytes(l))]
  BY <1>1, readHeaderIs
<1>4. header.c = l /\ header.r = At(o)
  BY <1>3
<1> HIDE DEF o
<1>5. readBytes(At(o), l) = [c |-> 0, bytes |-> Part(data, o, l), r |-> At(o + l)]
  BY <1>2, readBytesIs
<1>6. body = [c |-> 0, bytes |-> Part(data, o, l), r |-> At(o + l)]
  BY <1>4, <1>5
<1>7. body.c = 0 /\ body.bytes = Part(data, o, l) /\ body.r = At(o + l)
  BY <1>6
<1> HIDE DEF At, header
<1>8. readData(At(k), size) = [c |-> body.c, r |-> body.r, data |-> LittleEndian(body.bytes, size)]
  BY <1>2, <1>4 DEF readData, DataFrom, header, type
<1> HIDE DEF body
<1>9. readData(At(k), size) = [c |-> 0, r |-> At(o + l), data |-> LittleEndian(Part(data, o, l), size)]
  BY <1>7, <1>8
<1> QED
  BY <1>9 DEF At, o

-----------------------------------------------------------------------------
(* Lines *)

LEMMA DivisionIs ==
  ASSUME NEW n \in Nat \ {0}, NEW k \in Int, NEW r \in 0 .. n - 1, NEW a \in Int,
         a = n * k + r
  PROVE  a \div n = k /\ a % n = r
<1> DEFINE q == a \div n
<1>1. q \in Int /\ a = n * q + (a % n) /\ a % n = r
  BY Division, RemainderIs
<1> HIDE DEF q
<1>2. n * q = n * k /\ n * (q - k) = n * q - n * k /\ n * q \in Int /\ n * k \in Int
  BY <1>1, Z3
<1>3. n * (q - k) = 0 /\ q - k \in Int
  BY <1>1, <1>2
<1>4. q - k = 0
  BY <1>3, Z3
<1> QED
  BY <1>1, <1>4 DEF q

LEMMA Larger ==
  ASSUME NEW n \in Nat, NEW a \in Int, NEW b \in Int, a <= b
  PROVE  n * a <= n * b /\ n * a \in Int /\ n * b \in Int
<1>1. n * (b - a) = n * b - n * a /\ n * b \in Int /\ n * a \in Int
  BY Z3
<1>2. n * (b - a) >= 0
  BY Z3
<1> QED
  BY <1>1, <1>2

\* How many lines n characters are, and which line character i is in, from 0.
LinesOf(n, length) == (n + length - 1) \div length
LineOf(i, length) == (i - 1) \div length

LEMMA LinesHold ==
  ASSUME NEW n \in Nat \ {0}, NEW length \in Nat \ {0}
  PROVE  /\ LinesOf(n, length) \in Nat \ {0}
         /\ length * LinesOf(n, length) \in Nat /\ length * LinesOf(n, length) >= n
         /\ length * LinesOf(n, length) - length < n
<1> DEFINE a == n + length - 1
           lines == LinesOf(n, length)
<1>1. a \in Int
  OBVIOUS
<1>2. lines \in Int /\ a % length \in 0 .. length - 1 /\ a = length * lines + (a % length)
  <2> HIDE DEF a
  <2>1. lines = a \div length
    BY DEF LinesOf, a
  <2> HIDE DEF lines
  <2> QED
    BY <1>1, <2>1, Division
<1> DEFINE s == a % length
           p == length * lines
<1> HIDE DEF lines
<1>3. p \in Int
  BY <1>2
<1> HIDE DEF s, p
<1>4. s \in 0 .. length - 1 /\ n + length - 1 = p + s
  BY <1>2 DEF s, p
<1>5. p >= n /\ p - length < n
  BY <1>3, <1>4
<1>6. lines > 0
  <2> SUFFICES ASSUME lines <= 0 PROVE FALSE
    BY <1>2
  <2>1. length * lines <= length * 0
    BY <1>2, Larger
  <2> QED
    BY <1>3, <1>5, <2>1 DEF p
<1> QED
  BY <1>2, <1>3, <1>5, <1>6 DEF p, lines

LEMMA LineIs ==
  ASSUME NEW n \in Nat \ {0}, NEW length \in Nat \ {0}, NEW i \in 1 .. n
  PROVE  /\ LineOf(i, length) \in Nat /\ LineOf(i, length) < LinesOf(n, length)
         /\ length * LineOf(i, length) \in Nat
         /\ length * LineOf(i, length) < i /\ i <= length * LineOf(i, length) + length
<1> DEFINE q == LineOf(i, length)
           lines == LinesOf(n, length)
           p == length * q
           o == i - 1
           s == o % length
<1>1. q \in Int /\ s \in 0 .. length - 1 /\ o = length * q + s
  <2>1. q = o \div length /\ o \in Int
    BY DEF LineOf
  <2> HIDE DEF q, o
  <2> QED
    BY <2>1, Division
<1> HIDE DEF q, lines, s
<1>2. p \in Int /\ i - 1 = p + s
  BY <1>1
<1> HIDE DEF p
<1>3. p < i /\ i <= p + length
  BY <1>1, <1>2
<1>4. q >= 0
  <2> SUFFICES ASSUME q <= -1 PROVE FALSE
    BY <1>1
  <2>1. length * q <= length * (-1)
    BY <1>1, Larger
  <2>2. length * (-1) = - length
    OBVIOUS
  <2> QED
    BY <1>2, <1>3, <2>1, <2>2 DEF p
<1>5. q < lines
  <2>1. lines \in Nat /\ length * lines >= n
    BY LinesHold DEF lines
  <2> SUFFICES ASSUME lines <= q PROVE FALSE
    BY <1>1, <2>1
  <2>2. length * lines <= length * q /\ length * lines \in Int
    BY <1>1, <2>1, Larger
  <2> QED
    BY <1>2, <1>3, <2>1, <2>2 DEF p
<1>6. p >= 0
  <2>1. length * 0 <= length * q
    BY <1>1, <1>4, Larger
  <2> QED
    BY <2>1 DEF p
<1> QED
  BY <1>1, <1>2, <1>3, <1>4, <1>5, <1>6 DEF p, q, lines

\* Where character i comes to stand.
PlaceOf(i, length, e) == i + e * LineOf(i, length)

\* How many characters are in line q.
InLine(n, length, q) == IF q = LinesOf(n, length) - 1 THEN n - q * length ELSE length

LEMMA LinesAre ==
  ASSUME NEW n \in Nat \ {0}, NEW chars, Len(chars) = n, NEW length \in Nat \ {0},
         NEW e \in Nat, NEW end, Len(end) = e, NEW q \in Nat, NEW c \in 0 .. length + e - 1,
         NEW x \in 1 .. n + LinesOf(n, length) * e, x - 1 = (length + e) * q + c
  PROVE  Lines(chars, length, end)[x] =
           IF c < InLine(n, length, q) THEN chars[q * length + c + 1]
           ELSE end[c - InLine(n, length, q) + 1]
<1> DEFINE lines == LinesOf(n, length)
           width == length + e
           Char(y) ==
             LET line == (y - 1) \div width
                 column == (y - 1) % width
                 own == IF line = lines - 1 THEN n - line * length ELSE length
             IN  IF column < own THEN chars[line * length + column + 1] ELSE end[column - own + 1]
<1>1. Lines(chars, length, end) = [y \in 1 .. n + lines * e |-> Char(y)]
  BY DEF Lines, LinesOf
<1>2. (x - 1) \div width = q /\ (x - 1) % width = c
  <2> DEFINE a == x - 1
  <2>1. width \in Nat \ {0} /\ c \in 0 .. width - 1 /\ a \in Int /\ a = width * q + c /\ q \in Int
    <3>1. n + LinesOf(n, length) * e \in Int
      <4>1. LinesOf(n, length) \in Int
        BY LinesHold
      <4> QED
        BY <4>1
    <3> QED
      BY <3>1
  <2> HIDE DEF a, width
  <2>2. a \div width = q /\ a % width = c
    BY <2>1, DivisionIs
  <2> QED
    BY <2>2 DEF a
<1> HIDE DEF width, lines
<1>3. x \in 1 .. n + lines * e
  BY DEF lines
<1>4. Lines(chars, length, end)[x] = Char(x)
  BY <1>1, <1>3
<1>5. Char(x) = IF c < InLine(n, length, q) THEN chars[q * length + c + 1]
                ELSE end[c - InLine(n, length, q) + 1]
  BY <1>2 DEF InLine, lines
<1> QED
  BY <1>4, <1>5

\* Every character stands where PlaceOf says, with the line ends between them and at the end.
LEMMA CharStands ==
  ASSUME NEW n \in Nat \ {0}, NEW chars, Len(chars) = n, NEW length \in Nat \ {0},
         NEW e \in Nat, NEW end, Len(end) = e, NEW i \in 1 .. n
  PROVE  /\ PlaceOf(i, length, e) \in 1 .. n + LinesOf(n, length) * e
         /\ Lines(chars, length, end)[PlaceOf(i, length, e)] = chars[i]
<1> DEFINE q == LineOf(i, length)
           lines == LinesOf(n, length)
           p == length * q
           s == e * q
           t == e * lines
           x == i + s
           c == i - p - 1
<1>1. /\ q \in Nat /\ q < lines /\ p \in Nat /\ p < i /\ i <= p + length /\ lines \in Nat
      /\ p = length * q /\ s = e * q /\ t = e * lines
      /\ q = lines - 1 => p + length >= n
  <2>1. q = lines - 1 => p + length >= n
    <3> SUFFICES ASSUME q = lines - 1 PROVE p + length >= n
      OBVIOUS
    <3>4. q \in Nat
      BY LineIs
    <3>5. lines \in Nat /\ length * lines >= n
      BY LinesHold
    <3> HIDE DEF q, lines
    <3>1. q \in Int /\ lines \in Int /\ length * lines >= n /\ lines = q + 1
      BY <3>4, <3>5
    <3>2. length * lines = length * q + length
      BY <3>1
    <3> QED
      BY <3>1, <3>2
  <2> QED
    BY <2>1, LineIs, LinesHold
<1> HIDE DEF q, lines, p, t
<1>2. s <= t /\ s \in Nat /\ t \in Nat /\ lines * e = t
  <2>1. q \in Int /\ lines \in Int /\ q <= lines /\ 0 <= q /\ e * 0 = 0
    BY <1>1
  <2>2. e * q <= e * lines /\ e * 0 <= e * q /\ e * q \in Int /\ e * lines \in Int
    BY <2>1, Larger
  <2>3. lines * e = e * lines
    BY <2>1
  <2> HIDE DEF s
  <2> QED
    BY <1>1, <2>1, <2>2, <2>3
<1> HIDE DEF s
<1>3. x \in 1 .. n + lines * e
  BY <1>2
<1>4. x - 1 = (length + e) * q + c /\ c \in 0 .. length + e - 1 /\ q * length = p
  <2>1. (length + e) * q = p + s /\ q * length = p
    BY <1>1
  <2> QED
    BY <1>1, <1>2, <2>1
<1>5. c < InLine(n, length, q) /\ p + c + 1 = i
  BY <1>1, <1>4 DEF InLine, lines
<1>6. x \in 1 .. n + LinesOf(n, length) * e
  BY <1>3 DEF lines
<1> HIDE DEF x, c
<1>7. Lines(chars, length, end)[x] =
           IF c < InLine(n, length, q) THEN chars[q * length + c + 1]
           ELSE end[c - InLine(n, length, q) + 1]
  BY <1>1, <1>4, <1>6, LinesAre
<1>8. Lines(chars, length, end)[x] = chars[i]
  BY <1>4, <1>5, <1>7
<1>9. PlaceOf(i, length, e) = x
  BY DEF PlaceOf, q, s, x
<1> QED
  BY <1>6, <1>8, <1>9

\* Character i of n is the last of its line.
EndsLine(i, n, length) == i = n \/ i = length * LineOf(i, length) + length

\* Behind the end of the last line there is nothing.
EndsLast(n, length, e) == PlaceOf(n, length, e) + e = n + LinesOf(n, length) * e

LEMMA EndStands ==
  ASSUME NEW n \in Nat \ {0}, NEW chars, Len(chars) = n, NEW length \in Nat \ {0},
         NEW e \in Nat, NEW end, Len(end) = e, NEW i \in 1 .. n,
         EndsLine(i, n, length), NEW k \in 1 .. e
  PROVE  /\ PlaceOf(i, length, e) + k \in 1 .. n + LinesOf(n, length) * e
         /\ Lines(chars, length, end)[PlaceOf(i, length, e) + k] = end[k]
         /\ i = n => EndsLast(n, length, e)
<1> DEFINE q == LineOf(i, length)
           lines == LinesOf(n, length)
           p == length * q
           s == e * q
           t == e * lines
           l == length * lines
           x == i + s + k
           c == i - p + k - 1
<1>1. /\ q \in Nat /\ q < lines /\ p \in Nat /\ p < i /\ i <= p + length /\ lines \in Nat
      /\ p = length * q /\ s = e * q /\ t = e * lines
      /\ l \in Int /\ l >= n /\ l - length < n /\ l = length * lines
      /\ i = n \/ i = p + length
  <2>1. q \in Nat /\ q < lines /\ p \in Nat /\ p < i /\ i <= p + length
    BY LineIs
  <2>2. lines \in Nat \ {0} /\ l \in Nat /\ l >= n /\ l - length < n
    BY LinesHold, Zenon
  <2>3. p = length * q /\ s = e * q /\ t = e * lines /\ l = length * lines /\ (i = n \/ i = p + length)
    BY DEF EndsLine
  <2> HIDE DEF q, lines, p, t, l, s
  <2> QED
    BY <2>1, <2>2, <2>3
<1> HIDE DEF q, lines, p, t, l
<1>2. s + e <= t /\ s \in Nat /\ t \in Nat /\ lines * e = t /\ (q = lines - 1 => s + e = t)
  <2>1. q \in Int /\ q + 1 \in Int /\ lines \in Int /\ q + 1 <= lines /\ 0 <= q /\ e * 0 = 0
    BY <1>1
  <2>2. e * (q + 1) <= e * lines /\ e * lines \in Int
    BY <2>1, Larger
  <2>3. e * 0 <= e * q /\ e * q \in Int
    BY <2>1, Larger
  <2>4. lines * e = e * lines /\ e * (q + 1) = e * q + e
    BY <2>1
  <2>5. q = lines - 1 => e * (q + 1) = e * lines
    BY <2>1
  <2> HIDE DEF s
  <2> QED
    BY <1>1, <2>1, <2>2, <2>3, <2>4, <2>5
<1> HIDE DEF s
<1>3. /\ i = n => q = lines - 1
      /\ i # n => q # lines - 1
  <2>1. q + 1 \in Int /\ lines - 1 \in Int /\ lines \in Int
    BY <1>1
  <2>2. length * (q + 1) = p + length /\ length * (lines - 1) = l - length
    BY <1>1
  <2>3. ASSUME i = n, q # lines - 1 PROVE FALSE
    <3>1. q + 1 <= lines - 1
      BY <1>1, <2>3
    <3>2. length * (q + 1) <= length * (lines - 1)
      BY <2>1, <3>1, Larger
    <3> QED
      BY <1>1, <2>2, <2>3, <3>2
  <2>4. ASSUME i # n, q = lines - 1 PROVE FALSE
    <3>1. p + length = l
      BY <1>1, <2>2, <2>4
    <3> QED
      BY <1>1, <2>4, <3>1
  <2> QED
    BY <2>3, <2>4
<1>4. x \in 1 .. n + lines * e /\ (i = n => i + s + e = n + lines * e)
  BY <1>2, <1>3
<1>5. x - 1 = (length + e) * q + c /\ c \in 0 .. length + e - 1 /\ q * length = p
  <2>1. (length + e) * q = p + s /\ q * length = p
    BY <1>1
  <2> QED
    BY <1>1, <1>2, <2>1
<1>6. ~ (c < InLine(n, length, q)) /\ c - InLine(n, length, q) + 1 = k
  <2>1. InLine(n, length, q) = i - p
    BY <1>1, <1>3, <1>5 DEF InLine, lines
  <2> QED
    BY <1>1, <2>1
<1>7. x \in 1 .. n + LinesOf(n, length) * e
  BY <1>4 DEF lines
<1> HIDE DEF x, c
<1>8. Lines(chars, length, end)[x] =
           IF c < InLine(n, length, q) THEN chars[q * length + c + 1]
           ELSE end[c - InLine(n, length, q) + 1]
  BY <1>1, <1>5, <1>7, LinesAre
<1>9. Lines(chars, length, end)[x] = end[k]
  BY <1>6, <1>8
<1>10. PlaceOf(i, length, e) + k = x /\ PlaceOf(i, length, e) = i + s
  BY DEF PlaceOf, q, s, x
<1>11. i = n => EndsLast(n, length, e)
  BY <1>4, <1>10 DEF EndsLast, lines
<1> QED
  BY <1>7, <1>9, <1>10, <1>11

LEMMA LastPlace ==
  ASSUME NEW n \in Nat \ {0}, NEW length \in Nat \ {0}, NEW e \in Nat \ {0}
  PROVE  EndsLast(n, length, e)
<1> DEFINE i == n
           k == e
           chars == [j \in 1 .. n |-> j]
           end == [j \in 1 .. e |-> j]
<1>1. Len(chars) = n /\ Len(end) = e
  BY LenProperties
<1>2. i \in 1 .. n /\ k \in 1 .. e /\ e \in Nat
  OBVIOUS
<1>3. EndsLine(i, n, length) /\ i = n
  BY DEF EndsLine
<1> HIDE DEF i, k, chars, end
<1>4. /\ PlaceOf(i, length, e) + k \in 1 .. n + LinesOf(n, length) * e
      /\ Lines(chars, length, end)[PlaceOf(i, length, e) + k] = end[k]
      /\ i = n => EndsLast(n, length, e)
  BY <1>1, <1>2, <1>3, EndStands
<1> QED
  BY <1>3, <1>4

LEMMA NextPlace ==
  ASSUME NEW n \in Nat \ {0}, NEW length \in Nat \ {0}, NEW e \in Nat, NEW i \in 1 .. n
  PROVE  \/ PlaceOf(i + 1, length, e) = PlaceOf(i, length, e) + 1
         \/ /\ PlaceOf(i + 1, length, e) = PlaceOf(i, length, e) + e + 1
            /\ i = length * LineOf(i, length) + length
<1> DEFINE q == LineOf(i, length)
           p == length * q
           s == e * q
<1>1. q \in Nat /\ p \in Nat /\ p < i /\ i <= p + length
  BY LineIs
<1>2. PlaceOf(i, length, e) = i + s
  BY DEF PlaceOf
<1>3. p = length * q /\ s = e * q
  OBVIOUS
<1>4. LineOf(i + 1, length) = i \div length
  <2>1. (i + 1) - 1 = i
    OBVIOUS
  <2> QED
    BY <2>1 DEF LineOf
<1> HIDE DEF q, p, s
<1>5. s \in Int
  <2>1. e * q \in Int
    BY <1>1
  <2> QED
    BY <1>3, <2>1
<1>6. CASE i < p + length
  <2> DEFINE c == i - p
  <2>1. c \in 0 .. length - 1 /\ i \in Int /\ i = length * q + c /\ q \in Int
    BY <1>1, <1>3, <1>6
  <2> HIDE DEF c
  <2>2. i \div length = q
    BY <2>1, DivisionIs
  <2>3. PlaceOf(i + 1, length, e) = (i + 1) + s
    BY <1>3, <1>4, <2>2 DEF PlaceOf
  <2> QED
    BY <1>2, <1>5, <2>3
<1>7. CASE i = p + length
  <2> DEFINE o == q + 1
             c == 0
  <2>1. o \in Int /\ length * o = p + length /\ e * o = s + e
    BY <1>1, <1>3
  <2>2. c \in 0 .. length - 1 /\ i \in Int /\ i = length * o + c
    BY <1>1, <1>7, <2>1
  <2> HIDE DEF c, o
  <2>3. i \div length = o
    BY <2>1, <2>2, DivisionIs
  <2>4. PlaceOf(i + 1, length, e) = (i + 1) + (s + e)
    BY <1>4, <2>1, <2>3 DEF PlaceOf
  <2>5. PlaceOf(i + 1, length, e) = PlaceOf(i, length, e) + e + 1
    BY <1>2, <1>5, <2>4
  <2> QED
    BY <1>3, <1>7, <2>5 DEF q
<1> QED
  BY <1>1, <1>6, <1>7

-----------------------------------------------------------------------------
(* The file *)

\* How long the lines are together.
SizeOfLines(n, length, e) == CharsOf(n) + LinesOf(CharsOf(n), length) * e

CharsIn(data, n) == [i \in 1 .. CharsOf(n) |-> Encoded(data, i)]

IsEnd(end, e) ==
  /\ e \in Nat \ {0} /\ Len(end) = e /\ IsText(end, e, {10, 13})
  /\ end[e] = 10 /\ \A k \in 1 .. e : end[k] = 10 => k = e

\* LF, or CR and LF.
Endings == {<<10>>, <<13, 10>>}

LEMMA EndIs ==
  ASSUME NEW end \in Endings
  PROVE  \E e \in Nat : IsEnd(end, e)
<1>1. CASE end = <<10>>
  <2> DEFINE e == 1
  <2>1. IsEnd(end, e)
    BY <1>1 DEF IsEnd, IsText
  <2>2. e \in Nat
    OBVIOUS
  <2> HIDE DEF e
  <2> QED
    BY <2>1, <2>2
<1>2. CASE end = <<13, 10>>
  <2> DEFINE e == 2
  <2>1. IsEnd(end, e)
    <3>1. Len(end) = 2 /\ end[1] = 13 /\ end[2] = 10 /\ end \in Seq({10, 13})
      BY <1>2
    <3> QED
      BY <3>1 DEF IsEnd, IsText
  <2>2. e \in Nat
    OBVIOUS
  <2> HIDE DEF e
  <2> QED
    BY <2>1, <2>2
<1> QED
  BY <1>1, <1>2 DEF Endings

LEMMA CharsAre ==
  ASSUME NEW n \in Nat \ {0}
  PROVE  CharsOf(n) \in Nat \ {0}
<1>1. 3 * ((n + 2) \div 3) \in Nat /\ (n + 2) \div 3 \in Nat \ {0}
  BY Z3
<1> QED
  BY <1>1 DEF CharsOf

\* What stands where in a file.
IsPem(text, lines, size, end, e) ==
  /\ size \in Nat /\ Len(text) = 4 + e + size + 4 + e
  /\ text[1] = 45 /\ text[2] = 45 /\ text[3] = 66 /\ text[4] = 45
  /\ \A k \in 1 .. e : text[4 + k] = end[k]
  /\ \A x \in 1 .. size : text[4 + e + x] = lines[x]
  /\ text[4 + e + size + 1] = 45

LEMMA LinesAreSequence ==
  ASSUME NEW n \in Nat \ {0}, NEW data, NEW length \in Nat \ {0}, NEW end, NEW e, IsEnd(end, e)
  PROVE  /\ IsSequence(Lines(CharsIn(data, n), length, end))
         /\ Len(Lines(CharsIn(data, n), length, end)) = SizeOfLines(n, length, e)
         /\ SizeOfLines(n, length, e) \in Nat
<1> DEFINE m == CharsOf(n)
           chars == CharsIn(data, n)
           size == SizeOfLines(n, length, e)
           lines == Lines(chars, length, end)
           Char(i) ==
             LET line == (i - 1) \div (length + Len(end))
                 column == (i - 1) % (length + Len(end))
                 own == IF line = LinesOf(m, length) - 1 THEN m - line * length ELSE length
             IN  IF column < own THEN chars[line * length + column + 1] ELSE end[column - own + 1]
<1>1. m \in Nat \ {0} /\ e \in Nat /\ Len(end) = e
  BY CharsAre DEF IsEnd
<1>2. size \in Nat
  <2>1. LinesOf(m, length) \in Nat
    BY <1>1, LinesHold
  <2>2. LinesOf(m, length) * e \in Nat
    BY <1>1, <2>1
  <2> QED
    BY <1>1, <2>2 DEF SizeOfLines
<1>3. Len(chars) = m
  BY <1>1 DEF CharsIn
<1>4. size = m + LinesOf(m, length) * Len(end)
  BY <1>1 DEF SizeOfLines
<1> HIDE DEF size, m, chars
<1>5. lines = [i \in 1 .. size |-> Char(i)]
  BY <1>3, <1>4 DEF Lines, LinesOf
<1> HIDE DEF Char, lines
<1> DEFINE T == {lines[i] : i \in 1 .. size}
<1>6. lines \in [1 .. size -> T]
  BY <1>5
<1> HIDE DEF T
<1>7. IsText(lines, size, T)
  BY <1>2, <1>6, IsTextOf DEF IsTable
<1>8. IsSequence(lines) /\ Len(lines) = size
  BY <1>7, TextIsSequence DEF IsText
<1> QED
  BY <1>2, <1>8 DEF lines, size, chars

LEMMA PemIs ==
  ASSUME NEW n \in Nat \ {0}, NEW data, Len(data) = n, NEW length \in Nat \ {0},
         NEW end, NEW e, IsEnd(end, e)
  PROVE  IsPem(PemOf(data, length, end), Lines(CharsIn(data, n), length, end),
               SizeOfLines(n, length, e), end, e)
<1> DEFINE head == <<45, 45, 66, 45>>
           foot == <<45, 45, 69, 45>>
           lines == Lines(CharsIn(data, n), length, end)
           size == SizeOfLines(n, length, e)
           text == PemOf(data, length, end)
           a == head \o end
           b == a \o lines
           c == b \o foot
           four == 4
<1>1. IsSequence(lines) /\ Len(lines) = size /\ size \in Nat
  BY LinesAreSequence
<1>2. IsSequence(end) /\ Len(end) = e /\ e \in Nat
  BY TextIsSequence DEF IsEnd
<1>3. /\ IsSequence(head) /\ Len(head) = 4 /\ IsSequence(foot) /\ Len(foot) = 4
      /\ head[1] = 45 /\ head[2] = 45 /\ head[3] = 66 /\ head[4] = 45 /\ foot[1] = 45
  <2>1. head \in Seq({45, 66}) /\ foot \in Seq({45, 69}) /\ Len(head) = 4 /\ Len(foot) = 4
    OBVIOUS
  <2>2. IsText(head, 4, {45, 66}) /\ IsText(foot, 4, {45, 69})
    BY <2>1 DEF IsText
  <2> QED
    BY <2>1, <2>2, TextIsSequence
<1>4. text = c \o end
  BY DEF PemOf, CharsIn, CharsOf
<1>5. four = 4 /\ Len(head) = four /\ Len(foot) = four
  BY <1>3
<1> HIDE DEF head, foot, lines, size, text, a, b, c
<1>6. AreJoined(head, end, a)
  BY <1>2, <1>3, SequencesJoined DEF a
<1>7. IsSequence(a) /\ Len(a) = four + e /\ (\A k \in 1 .. four : a[k] = head[k])
      /\ \A k \in 1 .. e : a[four + k] = end[k]
  BY <1>2, <1>5, <1>6 DEF AreJoined
<1>8. AreJoined(a, lines, b)
  BY <1>1, <1>7, SequencesJoined DEF b
<1>9. IsSequence(b) /\ Len(b) = four + e + size /\ (\A k \in 1 .. four + e : b[k] = a[k])
      /\ \A k \in 1 .. size : b[four + e + k] = lines[k]
  BY <1>1, <1>7, <1>8 DEF AreJoined
<1>10. AreJoined(b, foot, c)
  BY <1>3, <1>9, SequencesJoined DEF c
<1>11. IsSequence(c) /\ Len(c) = four + e + size + four
       /\ (\A k \in 1 .. four + e + size : c[k] = b[k])
       /\ \A k \in 1 .. four : c[four + e + size + k] = foot[k]
  BY <1>5, <1>9, <1>10 DEF AreJoined
<1>12. AreJoined(c, end, text)
  BY <1>2, <1>4, <1>11, SequencesJoined
<1>13. Len(text) = four + e + size + four + e
       /\ \A k \in 1 .. four + e + size + four : text[k] = c[k]
  BY <1>2, <1>11, <1>12 DEF AreJoined
<1>14. \A k \in 1 .. four + e + size : text[k] = b[k]
  BY <1>1, <1>2, <1>5, <1>11, <1>13
<1>15. \A k \in 1 .. four + e : text[k] = a[k]
  BY <1>1, <1>2, <1>5, <1>9, <1>14
<1>16. \A k \in 1 .. four : text[k] = head[k]
  BY <1>1, <1>2, <1>5, <1>7, <1>15
<1>17. \A k \in 1 .. e : text[four + k] = end[k]
  <2> TAKE k \in 1 .. e
  <2>1. four + k \in 1 .. four + e
    BY <1>2, <1>5
  <2> QED
    BY <1>7, <1>15, <2>1
<1>18. \A x \in 1 .. size : text[four + e + x] = lines[x]
  <2> TAKE x \in 1 .. size
  <2>1. four + e + x \in 1 .. four + e + size
    BY <1>1, <1>2, <1>5
  <2> QED
    BY <1>9, <1>14, <2>1
<1>19. text[four + e + size + 1] = 45
  <2>1. 1 \in 1 .. four /\ four + e + size + 1 \in 1 .. four + e + size + four
    BY <1>1, <1>2, <1>5
  <2> QED
    BY <1>3, <1>11, <1>13, <2>1
<1>20. text[1] = 45 /\ text[2] = 45 /\ text[3] = 66 /\ text[4] = 45
  <2>1. 1 \in 1 .. four /\ 2 \in 1 .. four /\ 3 \in 1 .. four /\ 4 \in 1 .. four
    BY <1>5
  <2> QED
    BY <1>3, <1>16, <2>1
<1>21. IsPem(text, lines, size, end, e)
  BY <1>1, <1>13, <1>17, <1>18, <1>19, <1>20 DEF IsPem, four
<1> QED
  BY <1>21 DEF text, lines, size

LEMMA FirstPlace ==
  ASSUME NEW length \in Nat \ {0}, NEW e \in Nat
  PROVE  PlaceOf(1, length, e) = 1
<1> DEFINE none == 0
<1>1. none \in 0 .. length - 1 /\ none \in Int /\ none = length * none + none
  OBVIOUS
<1> HIDE DEF none
<1>2. none \div length = none
  BY <1>1, DivisionIs
<1>3. LineOf(1, length) = none
  BY <1>2 DEF LineOf, none
<1>4. e * none = 0
  BY DEF none
<1> QED
  BY <1>3, <1>4 DEF PlaceOf

\* Where the characters of the base64 are in a file.
FileOf(n, length, e) ==
  [i \in 0 .. CharsOf(n) + 1 |->
     IF i = 0 THEN 4 + e
     ELSE IF i = CharsOf(n) + 1 THEN 4 + e + SizeOfLines(n, length, e) + 1
     ELSE 4 + e + PlaceOf(i, length, e)]

IsPemFile(data, n, length, end, e) ==
  /\ n \in Nat \ {0} /\ IsText(data, n, FileByte) /\ length \in Nat \ {0} /\ IsEnd(end, e)
  /\ pemText = PemOf(data, length, end)

LEMMA FileStands ==
  ASSUME NEW n, NEW data, NEW length, NEW end, NEW e, IsPemFile(data, n, length, end, e),
         NEW i \in 1 .. CharsOf(n)
  PROVE  /\ PlaceOf(i, length, e) \in 1 .. SizeOfLines(n, length, e)
         /\ pemText[4 + e + PlaceOf(i, length, e)] = Spelt(data, n, i)
         /\ EndsLine(i, CharsOf(n), length)
              => \A k \in 1 .. e :
                   /\ PlaceOf(i, length, e) + k <= SizeOfLines(n, length, e)
                   /\ IsSkipped(pemText[4 + e + (PlaceOf(i, length, e) + k)])
         /\ i = CharsOf(n) => PlaceOf(i, length, e) + e = SizeOfLines(n, length, e)
<1> DEFINE m == CharsOf(n)
           chars == CharsIn(data, n)
           lines == Lines(chars, length, end)
           size == SizeOfLines(n, length, e)
           p == PlaceOf(i, length, e)
<1>1. /\ n \in Nat \ {0} /\ length \in Nat \ {0} /\ e \in Nat \ {0} /\ Len(end) = e
      /\ IsEnd(end, e) /\ IsText(data, n, FileByte) /\ pemText = PemOf(data, length, end)
  BY DEF IsPemFile, IsEnd
<1>2. m \in Nat \ {0}
  BY <1>1, CharsAre
<1>3. Len(chars) = m /\ chars[i] = Encoded(data, i)
  BY <1>2 DEF CharsIn
<1>4. Spelt(data, n, i) = Encoded(data, i)
  BY <1>2 DEF Spelt
<1>5. IsPem(pemText, lines, size, end, e)
  <2>1. Len(data) = n
    BY <1>1, TextIs
  <2> QED
    BY <1>1, <2>1, PemIs
<1>6. size = m + LinesOf(m, length) * e
  BY DEF SizeOfLines
<1> HIDE DEF m, chars
<1>7. p \in 1 .. m + LinesOf(m, length) * e /\ lines[p] = chars[i]
  BY <1>1, <1>2, <1>3, CharStands DEF m
<1>8. pemText[4 + e + p] = chars[i]
  BY <1>5, <1>6, <1>7 DEF IsPem
<1>9. i = m => p + e = size
  <2> SUFFICES ASSUME i = m PROVE p + e = size
    OBVIOUS
  <2>1. m \in Nat \ {0} /\ length \in Nat \ {0} /\ e \in Nat \ {0}
    BY <1>1, <1>2 DEF m
  <2>2. PlaceOf(m, length, e) + e = m + LinesOf(m, length) * e
    BY <2>1, LastPlace DEF EndsLast
  <2> QED
    BY <1>6, <2>2
<1>10. ASSUME EndsLine(i, m, length), NEW k \in 1 .. e
       PROVE  p + k <= size /\ IsSkipped(pemText[4 + e + (p + k)])
  <2>9. e \in Nat
    BY <1>1
  <2>1. p + k \in 1 .. m + LinesOf(m, length) * e /\ lines[p + k] = end[k]
    BY <2>9, <1>1, <1>2, <1>3, <1>10, EndStands DEF m
  <2>2. end[k] = 10 \/ end[k] = 13
    <3>1. \A j \in 1 .. e : end[j] \in {10, 13}
      BY <1>1, TextIs DEF IsEnd
    <3> QED
      BY <3>1
  <2>3. size \in Nat /\ p + k \in 1 .. size
    BY <1>5, <1>6, <2>1 DEF IsPem
  <2> DEFINE x == p + k
  <2> HIDE DEF x
  <2>4. x \in 1 .. size /\ lines[x] = end[k]
    BY <2>1, <2>3 DEF x
  <2>5. pemText[4 + e + x] = end[k]
    BY <1>5, <2>4 DEF IsPem
  <2> QED
    BY <2>2, <2>3, <2>5, EndsAre DEF x
<1> QED
  BY <1>3, <1>4, <1>6, <1>7, <1>8, <1>9, <1>10 DEF m

LEMMA FileIs ==
  ASSUME NEW n, NEW data, NEW length, NEW end, NEW e, IsPemFile(data, n, length, end, e)
  PROVE  IsFile(FileOf(n, length, e), data, n)
<1> DEFINE m == CharsOf(n)
           size == SizeOfLines(n, length, e)
           P(i) == PlaceOf(i, length, e)
           h == 4 + e
           f == FileOf(n, length, e)
<1>1. /\ n \in Nat \ {0} /\ length \in Nat \ {0} /\ e \in Nat \ {0}
      /\ IsEnd(end, e) /\ IsText(data, n, FileByte) /\ pemText = PemOf(data, length, end)
  BY DEF IsPemFile, IsEnd
<1>2. m \in Nat \ {0} /\ h \in Nat
  BY <1>1, CharsAre
<1>3. IsPem(pemText, Lines(CharsIn(data, n), length, end), size, end, e)
  <2>1. Len(data) = n
    BY <1>1, TextIs
  <2> QED
    BY <1>1, <2>1, PemIs
<1>4. size \in Nat /\ Len(pemText) \in Nat /\ h + size + 1 <= Len(pemText)
      /\ pemText[h + size + 1] = 45
  BY <1>1, <1>3 DEF IsPem
<1>5. ASSUME NEW i \in 1 .. m
      PROVE  P(i) \in 1 .. size /\ pemText[h + P(i)] = Spelt(data, n, i)
  BY <1>1, FileStands DEF m, h, size
<1>6. /\ f[0] = h /\ f[m + 1] = h + size + 1
      /\ \A i \in 1 .. m : f[i] = h + P(i)
  <2> HIDE DEF h
  <2>1. f = [i \in 0 .. m + 1 |->
               IF i = 0 THEN h ELSE IF i = m + 1 THEN h + size + 1 ELSE h + P(i)]
    BY DEF FileOf, h
  <2> HIDE DEF f, P, size, m
  <2>2. 0 \in 0 .. m + 1 /\ m + 1 \in 0 .. m + 1 /\ m + 1 # 0
        /\ \A i \in 1 .. m : i \in 0 .. m + 1 /\ i # 0 /\ i # m + 1
    BY <1>2
  <2> QED
    BY <2>1, <2>2
<1>7. f \in [0 .. m + 1 -> Nat]
  <2> SUFFICES ASSUME NEW i \in 0 .. m + 1
               PROVE  (IF i = 0 THEN 4 + e
                       ELSE IF i = m + 1 THEN 4 + e + size + 1 ELSE 4 + e + P(i)) \in Nat
    BY DEF FileOf
  <2>1. i = 0 \/ i = m + 1 \/ i \in 1 .. m
    BY <1>2
  <2> QED
    BY <1>1, <1>2, <1>4, <1>5, <2>1
<1> DEFINE Good(i) ==
             /\ f[i - 1] < f[i] /\ f[i] <= Len(pemText) /\ pemText[f[i]] = Spelt(data, n, i)
             /\ \A j \in f[i - 1] + 1 .. f[i] - 1 : IsSkipped(pemText[j])
<1> HIDE DEF f
<1>8. Good(1)
  <2>1. P(1) = 1 /\ 1 \in 1 .. m
    BY <1>1, <1>2, FirstPlace
  <2>2. f[1 - 1] = h /\ f[1] = h + 1 /\ pemText[h + 1] = Spelt(data, n, 1) /\ 1 <= size
    BY <1>5, <1>6, <2>1
  <2> HIDE DEF h, m, size, P
  <2> QED
    BY <1>2, <1>4, <2>2
<1>9. ASSUME NEW k \in 1 .. m, k # m PROVE Good(k + 1)
  <2>1. k + 1 \in 1 .. m /\ (k + 1) - 1 = k
    BY <1>2, <1>9
  <2>2. /\ f[k] = h + P(k) /\ f[k + 1] = h + P(k + 1)
        /\ pemText[h + P(k + 1)] = Spelt(data, n, k + 1)
        /\ P(k) \in 1 .. size /\ P(k + 1) \in 1 .. size
    BY <1>5, <1>6, <2>1
  <2>3. \/ P(k + 1) = P(k) + 1
        \/ P(k + 1) = P(k) + e + 1 /\ k = length * LineOf(k, length) + length
    BY <1>1, <1>2, NextPlace
  <2>11. k = length * LineOf(k, length) + length => EndsLine(k, m, length)
    BY DEF EndsLine
  <2>4. EndsLine(k, m, length)
          => \A j \in 1 .. e : IsSkipped(pemText[h + (P(k) + j)])
    BY <1>1, FileStands
  <2> DEFINE a == P(k)
             b == P(k + 1)
  <2> HIDE DEF P, m, size, h
  <2>5. ASSUME NEW x \in a + 1 .. b - 1 PROVE IsSkipped(pemText[h + x])
    <3>1. x \in Int /\ b = a + e + 1 /\ \A j \in 1 .. e : IsSkipped(pemText[h + (a + j)])
      BY <2>2, <2>3, <2>4, <2>5, <2>11
    <3>2. x - a \in 1 .. e /\ a + (x - a) = x
      BY <1>1, <2>2, <2>5, <3>1
    <3> QED
      BY <3>1, <3>2
  <2>6. a < b /\ a \in Nat /\ b \in Nat /\ b <= size
    BY <1>1, <2>2, <2>3
  <2> HIDE DEF a, b
  <2>7. f[k] = h + a /\ f[k + 1] = h + b /\ pemText[h + b] = Spelt(data, n, k + 1)
    BY <2>2 DEF a, b
  <2>8. ASSUME NEW j \in h + a + 1 .. h + b - 1 PROVE IsSkipped(pemText[j])
    <3>1. j - h \in a + 1 .. b - 1 /\ h + (j - h) = j
      BY <1>2, <2>6
    <3> QED
      BY <2>5, <3>1
  <2>9. f[k] < f[k + 1] /\ f[k + 1] <= Len(pemText)
    <3>1. h \in Nat /\ size \in Nat /\ Len(pemText) \in Nat /\ h + size + 1 <= Len(pemText)
      BY <1>2, <1>4
    <3>2. h + a < h + b /\ h + b <= Len(pemText)
      BY <2>6, <3>1
    <3> QED
      BY <2>7, <3>2
  <2>10. \A j \in f[k] + 1 .. f[k + 1] - 1 : IsSkipped(pemText[j])
    BY <1>2, <2>6, <2>7, <2>8
  <2> QED
    BY <2>1, <2>7, <2>9, <2>10
<1>10. Good(m + 1)
  <2>1. m \in 1 .. m /\ (m + 1) - 1 = m
    BY <1>2
  <2>2. f[m] = h + P(m) /\ P(m) \in 1 .. size /\ f[m + 1] = h + size + 1
    BY <1>5, <1>6, <2>1
  <2>11. EndsLine(m, m, length)
    BY DEF EndsLine
  <2>3. P(m) + e = size /\ \A j \in 1 .. e : IsSkipped(pemText[h + (P(m) + j)])
    BY <1>1, <2>1, <2>11, FileStands
  <2>4. Spelt(data, n, m + 1) = 45
    BY <1>2 DEF Spelt
  <2> DEFINE a == P(m)
  <2> HIDE DEF P, m, size, h
  <2>5. ASSUME NEW j \in h + a + 1 .. h + size PROVE IsSkipped(pemText[j])
    <3>1. j - h - a \in 1 .. e /\ h + (a + (j - h - a)) = j
      BY <1>1, <1>2, <2>2, <2>3
    <3> QED
      BY <2>3, <3>1
  <2> HIDE DEF a
  <2>6. f[m] < f[m + 1] /\ f[m + 1] <= Len(pemText) /\ f[m] = h + a /\ f[m + 1] - 1 = h + size
    BY <1>2, <1>4, <2>2 DEF a
  <2>7. \A j \in f[m] + 1 .. f[m + 1] - 1 : IsSkipped(pemText[j])
    BY <2>5, <2>6
  <2> QED
    BY <1>4, <2>1, <2>2, <2>4, <2>6, <2>7
<1>11. ASSUME NEW i \in 1 .. m + 1 PROVE Good(i)
  <2> HIDE DEF Good
  <2>1. CASE i = 1
    BY <1>8, <2>1
  <2>2. CASE i = m + 1
    BY <1>10, <2>2
  <2>3. CASE i # 1 /\ i # m + 1
    <3> DEFINE k == i - 1
    <3>1. k \in 1 .. m /\ k # m /\ k + 1 = i
      BY <1>2, <2>3
    <3> HIDE DEF k
    <3>2. Good(k + 1)
      BY <1>9, <3>1
    <3> QED
      BY <3>1, <3>2
  <2> QED
    BY <2>1, <2>2, <2>3
<1> QED
  BY <1>4, <1>7, <1>11 DEF IsFile, f

LEMMA ReaderStarts ==
  ASSUME NEW f, NEW data, NEW n
  PROVE  ReaderAt(f, data, n, 0) = ReaderOf(f[0] + 1, 0, 0)
<1>1. CharsRead(0) = 0 /\ 0 % 3 = 0
  BY DEF CharsRead
<1>2. LastBits(data, n, 0) = 0
  BY DEF LastBits
<1> QED
  BY <1>1, <1>2 DEF ReaderAt

\* The first line is skipped.
LEMMA SkipLineIs ==
  ASSUME NEW n, NEW data, NEW length, NEW end, NEW e, IsPemFile(data, n, length, end, e),
         NEW r, r.next = 1
  PROVE  Base64SkipLine(r) = [c |-> 0, r |-> ReaderAt(FileOf(n, length, e), data, n, 0)]
<1> DEFINE size == SizeOfLines(n, length, e)
           lines == Lines(CharsIn(data, n), length, end)
           b == 4 + e
           all == Len(pemText)
           Is(i) == /\ i <= all => pemText[i] = NewLine
                    /\ \A j \in 1 .. i - 1 : pemText[j] # NewLine
           s == [next |-> b, last6 |-> 0, posn |-> 0, finished |-> FALSE]
<1>1. e \in Nat \ {0} /\ end[e] = 10 /\ (\A k \in 1 .. e : end[k] = 10 => k = e)
      /\ IsPem(pemText, lines, size, end, e)
  <2>1. /\ n \in Nat \ {0} /\ length \in Nat \ {0} /\ IsEnd(end, e) /\ IsText(data, n, FileByte)
        /\ pemText = PemOf(data, length, end)
    BY DEF IsPemFile
  <2>2. Len(data) = n
    BY <2>1, TextIs
  <2>3. IsPem(pemText, lines, size, end, e)
    BY <2>1, <2>2, PemIs
  <2> QED
    BY <2>1, <2>3 DEF IsEnd
<1> HIDE DEF size, lines
<1>2. all \in Nat /\ b \in Nat /\ b >= 1 /\ b <= all /\ b + 1 \in Nat
  BY <1>1 DEF IsPem
<1>3. pemText[b] = NewLine
  BY <1>1 DEF IsPem, NewLine
<1>4. ASSUME NEW j \in 1 .. b - 1 PROVE pemText[j] # NewLine
  <2>1. CASE j <= 4
    <3>1. j = 1 \/ j = 2 \/ j = 3 \/ j = 4
      BY <2>1
    <3> QED
      BY <1>1, <3>1 DEF IsPem, NewLine
  <2>2. CASE j > 4
    <3> DEFINE k == j - 4
    <3>1. k \in 1 .. e /\ 4 + k = j /\ k # e
      BY <1>1, <2>2
    <3> HIDE DEF k
    <3>2. pemText[4 + k] = end[k]
      BY <1>1, <3>1 DEF IsPem
    <3> QED
      BY <1>1, <3>1, <3>2 DEF NewLine
  <2> QED
    BY <1>1, <2>1, <2>2
<1> HIDE DEF b, all
<1>5. Is(b) /\ b \in 1 .. all + 1
  BY <1>2, <1>3, <1>4
<1>6. ASSUME NEW i \in 1 .. all + 1, Is(i) PROVE i = b
  <2>1. CASE i < b
    <3>1. i \in 1 .. b - 1 /\ i <= all
      BY <1>2, <2>1
    <3> QED
      BY <1>4, <1>6, <3>1
  <2>2. CASE i > b
    <3>1. b \in 1 .. i - 1
      BY <1>2, <2>2
    <3> QED
      BY <1>3, <1>6, <3>1
  <2> QED
    BY <1>2, <2>1, <2>2
<1> HIDE DEF Is
<1>7. (CHOOSE i \in 1 .. all + 1 : Is(i)) = b
  BY <1>5, <1>6
<1>8. LineEnd(r.next) = b
  BY <1>7 DEF LineEnd, Is, all
<1>9. readChar(s) = [c |-> NewLine, r |-> ReaderOf(b + 1, 0, 0)]
  <2>4. s = ReaderOf(b, 0, 0)
    BY DEF ReaderOf, Unfinished
  <2> HIDE DEF s
  <2>1. s.next = b /\ [s EXCEPT !.next = @ + 1] = ReaderOf(b + 1, 0, 0)
    BY <2>4 DEF ReaderOf
  <2>2. ~ (s.next > Len(pemText))
    BY <1>2, <2>1 DEF all
  <2>3. readChar(s) = [c |-> pemText[s.next], r |-> [s EXCEPT !.next = @ + 1]]
    BY <2>2 DEF readChar
  <2> QED
    BY <1>3, <2>1, <2>3
<1>10. Base64SkipLine(r) = [c |-> 0, r |-> ReaderOf(b + 1, 0, 0)]
  <2> DEFINE char == readChar(s)
  <2>1. Base64SkipLine(r) = [c |-> IF char.c = 0 THEN Failed ELSE 0, r |-> char.r]
    BY <1>8 DEF Base64SkipLine
  <2>2. char.c = NewLine /\ char.r = ReaderOf(b + 1, 0, 0)
    BY <1>9
  <2> HIDE DEF char, s
  <2> QED
    BY <2>1, <2>2 DEF NewLine
<1>11. FileOf(n, length, e)[0] = b
  <2>1. n \in Nat \ {0}
    BY DEF IsPemFile
  <2>2. CharsOf(n) \in Nat
    BY <2>1, CharsAre
  <2>3. 0 \in 0 .. CharsOf(n) + 1
    BY <2>2
  <2> QED
    BY <2>3 DEF FileOf, b
<1> QED
  BY <1>10, <1>11, ReaderStarts

-----------------------------------------------------------------------------
(* A key as OpenSSL writes it *)

\* What stands in a text that stands in the data stands there too.
LEMMA StandsIn ==
  ASSUME NEW s, NEW m, NEW data, NEW n \in Nat, NEW k, StandsAt(s, m, data, n, k),
         NEW t, NEW q, NEW j, StandsAt(t, q, s, m, j)
  PROVE  StandsAt(t, q, data, n, k + j)
<1>1. /\ k \in Nat /\ m \in Nat /\ k + m <= n /\ j \in Nat /\ q \in Nat /\ j + q <= m
      /\ (\A i \in 1 .. m : data[k + i] = s[i]) /\ \A i \in 1 .. q : s[j + i] = t[i]
  BY DEF StandsAt
<1>2. ASSUME NEW i \in 1 .. q PROVE data[k + j + i] = t[i]
  <2> DEFINE o == j + i
  <2>1. o \in 1 .. m /\ k + j + i = k + o /\ s[o] = t[i]
    BY <1>1
  <2> HIDE DEF o
  <2> QED
    BY <1>1, <2>1
<1>3. k + j + q <= n
  BY <1>1
<1>5. k + j \in Nat
  BY <1>1
<1> QED
  BY <1>1, <1>2, <1>3, <1>5 DEF StandsAt

\* A type, a length, and as many bytes.
LEMMA TaggedIs ==
  ASSUME NEW tag \in FileByte, NEW l \in Nat, l < 65536, NEW b, IsText(b, l, FileByte)
  PROVE  /\ IsText(<<tag>> \o DerLength(l) \o b, 1 + LengthBytes(l) + l, FileByte)
         /\ (<<tag>> \o DerLength(l) \o b)[1] = tag
         /\ StandsAt(DerLength(l), LengthBytes(l), <<tag>> \o DerLength(l) \o b, 1 + LengthBytes(l) + l, 1)
         /\ StandsAt(b, l, <<tag>> \o DerLength(l) \o b, 1 + LengthBytes(l) + l, 1 + LengthBytes(l))
<1> DEFINE one == 1
           o == LengthBytes(l)
           d == DerLength(l)
           head == <<tag>>
           a == head \o d
           t == a \o b
<1>1. o \in Nat /\ IsText(d, o, FileByte)
  <2>1. o \in 1 .. 3 /\ IsText(d, o, FileByte)
    BY DerLengthIs
  <2> HIDE DEF o
  <2> QED
    BY <2>1
<1>2. IsText(head, one, FileByte) /\ head[1] = tag /\ one = 1 /\ one \in Nat
  BY DEF IsText
<1> HIDE DEF o, d, head, a, t, one
<1>3. IsConcat(head, one, d, o, a, FileByte)
  BY <1>1, <1>2, ConcatIs DEF a
<1>4. IsConcat(a, one + o, b, l, t, FileByte)
  <2>1. IsText(a, one + o, FileByte)
    BY <1>3 DEF IsConcat
  <2> QED
    BY <2>1, ConcatIs DEF t
<1>5. IsText(t, one + o + l, FileByte)
  BY <1>4 DEF IsConcat
<1>6. \A i \in 1 .. one + o : t[i] = a[i]
  BY <1>4 DEF IsConcat
<1>7. t[1] = tag
  <2>1. 1 \in 1 .. one + o /\ 1 \in 1 .. one
    BY <1>1, <1>2
  <2>2. a[1] = head[1]
    BY <1>3, <2>1 DEF IsConcat
  <2> QED
    BY <1>2, <1>6, <2>1, <2>2
<1>8. \A i \in 1 .. o : t[one + i] = d[i]
  <2> TAKE i \in 1 .. o
  <2>1. one + i \in 1 .. one + o /\ a[one + i] = d[i]
    BY <1>1, <1>2, <1>3 DEF IsConcat
  <2> QED
    BY <1>6, <2>1
<1>9. StandsAt(d, o, t, one + o + l, one)
  BY <1>1, <1>2, <1>8 DEF StandsAt
<1>10. StandsAt(b, l, t, one + o + l, one + o)
  <2>1. \A i \in 1 .. l : t[one + o + i] = b[i]
    BY <1>4 DEF IsConcat
  <2>2. one + o \in Nat /\ one + o + l <= one + o + l
    BY <1>1, <1>2
  <2> QED
    BY <2>1, <2>2 DEF StandsAt
<1> QED
  BY <1>5, <1>7, <1>9, <1>10 DEF one, o, d, head, a, t

\* The bytes of an integer: a zero before them, if it would be negative or empty.
IntegerBytes(number) ==
  IF number = <<>> \/ number[1] >= 128 THEN <<0>> \o number ELSE number

\* A number of a key that fits into size bytes.
IsFitting(number, size) ==
  /\ IsText(number, Len(number), FileByte) /\ Len(number) \in Nat /\ Len(number) <= size
  /\ number # <<>> => number[1] # 0

LowestFirst(number, size) ==
  [i \in 1 .. size |-> IF i <= Len(number) THEN number[Len(number) + 1 - i] ELSE 0]

LEMMA IntegerBytesAre ==
  ASSUME NEW size \in Nat, NEW number, IsFitting(number, size)
  PROVE  /\ IsText(IntegerBytes(number), Len(IntegerBytes(number)), FileByte)
         /\ Len(IntegerBytes(number)) \in Nat /\ Len(IntegerBytes(number)) <= size + 1
         /\ LittleEndian(IntegerBytes(number), size) = LowestFirst(number, size)
<1> DEFINE n == Len(number)
           b == IntegerBytes(number)
           Last == IF b # <<>> /\ b[1] = 0 THEN Len(b) - 1 ELSE Len(b)
<1>1. n \in Nat /\ n <= size /\ IsText(number, n, FileByte) /\ (number # <<>> => number[1] # 0)
  BY DEF IsFitting
<1>2. CASE number = <<>> \/ number[1] >= 128
  <2> DEFINE one == 1
             head == <<0>>
  <2>1. b = head \o number
    BY <1>2 DEF IntegerBytes
  <2>2. IsText(head, one, FileByte) /\ head[1] = 0 /\ one = 1 /\ one \in Nat
    BY DEF IsText, FileByte
  <2> HIDE DEF b, head, one, n
  <2>3. IsConcat(head, one, number, n, b, FileByte)
    BY <1>1, <2>1, <2>2, ConcatIs
  <2>4. IsText(b, one + n, FileByte) /\ \A i \in 1 .. n : b[one + i] = number[i]
    BY <2>3 DEF IsConcat
  <2>5. b[1] = 0
    <3>1. 1 \in 1 .. one
      BY <2>2
    <3> QED
      BY <2>2, <2>3, <3>1 DEF IsConcat
  <2>6. Len(b) = one + n /\ b # <<>>
    <3>1. Len(b) = one + n
      BY <2>4 DEF IsText
    <3>2. Len(<<>>) = 0
      OBVIOUS
    <3> QED
      BY <1>1, <2>2, <3>1, <3>2
  <2>7. Last = n
    BY <1>1, <2>2, <2>5, <2>6
  <2>8. \A i \in 1 .. size : i <= n => b[Len(b) + 1 - i] = number[n + 1 - i]
    <3> TAKE i \in 1 .. size
    <3> SUFFICES ASSUME i <= n PROVE b[Len(b) + 1 - i] = number[n + 1 - i]
      OBVIOUS
    <3> DEFINE j == n + 1 - i
    <3>1. j \in 1 .. n /\ Len(b) + 1 - i = one + j
      BY <1>1, <2>2, <2>6
    <3> HIDE DEF j
    <3> QED
      BY <2>4, <3>1 DEF j
  <2>9. LittleEndian(b, size)
          = [i \in 1 .. (IF Last > size THEN Last ELSE size) |->
               IF i <= Last THEN b[Len(b) + 1 - i] ELSE 0]
    BY DEF LittleEndian
  <2> HIDE DEF Last
  <2>10. LittleEndian(b, size) = [i \in 1 .. size |-> IF i <= n THEN b[Len(b) + 1 - i] ELSE 0]
    <3>1. ~ (n > size)
      BY <1>1
    <3> QED
      BY <2>7, <2>9, <3>1
  <2>11. LittleEndian(b, size) = LowestFirst(number, size)
    BY <2>8, <2>10 DEF LowestFirst, n
  <2>12. Len(b) \in Nat /\ Len(b) <= size + 1 /\ IsText(b, Len(b), FileByte)
    BY <1>1, <2>2, <2>4, <2>6
  <2> QED
    BY <2>11, <2>12 DEF b
<1>3. CASE number # <<>> /\ ~ (number[1] >= 128)
  <2>1. b = number
    BY <1>3 DEF IntegerBytes
  <2>2. number[1] # 0
    BY <1>1, <1>3
  <2> HIDE DEF b, n
  <2>3. Last = n /\ Len(b) = n
    BY <1>1, <2>1, <2>2 DEF n
  <2>4. LittleEndian(b, size)
          = [i \in 1 .. (IF Last > size THEN Last ELSE size) |->
               IF i <= Last THEN b[Len(b) + 1 - i] ELSE 0]
    BY DEF LittleEndian
  <2> HIDE DEF Last
  <2>5. LittleEndian(b, size) = [i \in 1 .. size |-> IF i <= n THEN b[Len(b) + 1 - i] ELSE 0]
    <3>1. ~ (n > size)
      BY <1>1
    <3> QED
      BY <2>3, <2>4, <3>1
  <2>6. LittleEndian(b, size) = LowestFirst(number, size)
    BY <2>1, <2>5 DEF LowestFirst, n
  <2>7. Len(b) \in Nat /\ Len(b) <= size + 1 /\ IsText(b, Len(b), FileByte)
    BY <1>1, <2>1, <2>3
  <2> QED
    BY <2>6, <2>7 DEF b
<1> QED
  BY <1>2, <1>3

LEMMA FieldsAre ==
  /\ Len(FieldSizes) = 9
  /\ \A k \in 1 .. Len(FieldSizes) : FieldSizes[k] \in Nat /\ FieldSizes[k] <= 128
<1>1. Len(FieldSizes) = 9
  BY DEF FieldSizes
<1>2. /\ FieldSizes[1] = 4 /\ FieldSizes[2] = 128 /\ FieldSizes[3] = 4 /\ FieldSizes[4] = 128
      /\ FieldSizes[5] = 64 /\ FieldSizes[6] = 64 /\ FieldSizes[7] = 64 /\ FieldSizes[8] = 64
      /\ FieldSizes[9] = 64
  BY DEF FieldSizes
<1>3. ASSUME NEW k \in 1 .. 9 PROVE FieldSizes[k] = 4 \/ FieldSizes[k] = 64 \/ FieldSizes[k] = 128
  <2>1. k = 1 \/ k = 2 \/ k = 3 \/ k = 4 \/ k = 5 \/ k = 6 \/ k = 7 \/ k = 8 \/ k = 9
    OBVIOUS
  <2> QED
    BY <1>2, <2>1
<1>4. ASSUME NEW k \in 1 .. 9 PROVE FieldSizes[k] \in Nat /\ FieldSizes[k] <= 128
  BY <1>3
<1> QED
  BY <1>1, <1>4

LEMMA KeyIs ==
  ASSUME NEW key \in PemKeys
  PROVE  /\ Len(key) = Len(FieldSizes) /\ Len(key) = 9
         /\ \A k \in 1 .. Len(key) : /\ IsFitting(key[k], FieldSizes[k])
                                     /\ FieldSizes[k] \in Nat /\ FieldSizes[k] <= 128
<1>1. /\ key \in Seq(Seq(FileByte)) /\ Len(key) = Len(FieldSizes)
      /\ \A k \in 1 .. Len(key) :
           Len(key[k]) <= FieldSizes[k] /\ (key[k] # <<>> => key[k][1] # 0)
  BY PemAssumption DEF FileByte
<1>2. Len(key) = 9 /\ \A k \in 1 .. Len(key) : FieldSizes[k] \in Nat /\ FieldSizes[k] <= 128
  BY <1>1, FieldsAre
<1>3. ASSUME NEW k \in 1 .. Len(key) PROVE IsFitting(key[k], FieldSizes[k])
  <2>1. key[k] \in Seq(FileByte)
    BY <1>1
  <2>2. Len(key[k]) \in Nat
    BY <2>1, LenProperties
  <2> QED
    BY <1>1, <2>1, <2>2 DEF IsFitting, IsText
<1> QED
  BY <1>1, <1>2, <1>3

\* How long something of l bytes is with its type and length.
DerSize(l) == 1 + LengthBytes(l) + l

LEMMA DerIntegerIs ==
  ASSUME NEW size \in Nat, size <= 128, NEW number, IsFitting(number, size),
         NEW b, b = IntegerBytes(number)
  PROVE  /\ Len(b) \in Nat /\ Len(b) <= 129 /\ IsText(b, Len(b), FileByte)
         /\ LittleEndian(b, size) = LowestFirst(number, size)
         /\ IsText(DerInteger(number), DerSize(Len(b)), FileByte) /\ DerInteger(number)[1] = 2
         /\ StandsAt(DerLength(Len(b)), LengthBytes(Len(b)), DerInteger(number), DerSize(Len(b)), 1)
         /\ StandsAt(b, Len(b), DerInteger(number), DerSize(Len(b)), 1 + LengthBytes(Len(b)))
<1> DEFINE l == Len(b)
           tag == 2
           d == <<tag>> \o DerLength(l) \o b
<1>1. /\ l \in Nat /\ l <= 129 /\ IsText(b, l, FileByte) /\ l < 65536
      /\ LittleEndian(b, size) = LowestFirst(number, size)
  <2>1. /\ IsText(b, l, FileByte) /\ l \in Nat /\ l <= size + 1
        /\ LittleEndian(b, size) = LowestFirst(number, size)
    BY IntegerBytesAre
  <2> HIDE DEF l
  <2> QED
    BY <2>1
<1>2. DerInteger(number) = d
  BY DEF DerInteger, IntegerBytes
<1>3. tag \in FileByte
  BY DEF FileByte
<1> HIDE DEF l, tag
<1>4. /\ IsText(d, 1 + LengthBytes(l) + l, FileByte) /\ d[1] = tag
      /\ StandsAt(DerLength(l), LengthBytes(l), d, 1 + LengthBytes(l) + l, 1)
      /\ StandsAt(b, l, d, 1 + LengthBytes(l) + l, 1 + LengthBytes(l))
  BY <1>1, <1>3, TaggedIs
<1> HIDE DEF d
<1>5. DerSize(l) = 1 + LengthBytes(l) + l
  BY DEF DerSize
<1> QED
  BY <1>1, <1>2, <1>4, <1>5 DEF l, tag

\* The first numbers as OpenSSL writes them.
Integers(key) ==
  CHOOSE g : g = [k \in 0 .. Len(key) |-> IF k = 0 THEN <<>> ELSE g[k - 1] \o DerInteger(key[k])]

SizeBefore(key, k) == Len(Integers(key)[k])

LEMMA IntegersAre ==
  ASSUME NEW key \in PemKeys
  PROVE  /\ DerIntegers(key) = Integers(key)[Len(key)] /\ Integers(key)[0] = <<>>
         /\ \A k \in 0 .. Len(key) : Integers(key)[k] \in Seq(FileByte)
         /\ \A k \in 1 .. Len(key) :
              Integers(key)[k] = Integers(key)[k - 1] \o DerInteger(key[k])
<1> DEFINE last == Len(key)
           X == Seq(FileByte)
           none == <<>>
           step == [p \in (0 .. last) \X X |->
                      IF p[1] = 0 THEN p[2] ELSE p[2] \o DerInteger(key[p[1]])]
           IsRun(g) == g = [k \in 0 .. last |->
                              IF k = 0 THEN <<>> ELSE g[k - 1] \o DerInteger(key[k])]
           run == CHOOSE g : IsRun(g)
<1>0. last = 9 /\ last \in Nat /\ none \in X
  BY KeyIs
<1>1. ASSUME NEW k \in 1 .. last PROVE DerInteger(key[k]) \in X
  <2>1. IsFitting(key[k], FieldSizes[k]) /\ FieldSizes[k] \in Nat /\ FieldSizes[k] <= 128
    BY KeyIs
  <2>2. IsText(DerInteger(key[k]), DerSize(Len(IntegerBytes(key[k]))), FileByte)
    BY <2>1, DerIntegerIs
  <2> QED
    BY <2>2 DEF IsText
<1>2. IsStepUpTo(step, last, X)
  <2> HIDE DEF X
  <2> SUFFICES ASSUME NEW k \in 0 .. last, NEW x \in X, k # 0 PROVE x \o DerInteger(key[k]) \in X
    BY DEF IsStepUpTo, IsStep
  <2>1. k \in 1 .. last
    BY <1>0
  <2>2. DerInteger(key[k]) \in X
    BY <1>1, <2>1
  <2> QED
    BY <2>2, ConcatProperties DEF X
<1>3. \A k \in 0 .. last, x \in X : k # 0 => step[<<k, x>>] = x \o DerInteger(key[k])
  OBVIOUS
<1> HIDE DEF step, X, last, none
<1>5. PICK f \in [0 .. last -> X] :
        f[0] = none /\ \A k \in 1 .. last : f[k] = step[<<k, f[k - 1]>>]
  <2>1. last \in Nat /\ none \in X
    BY <1>0
  <2> QED
    BY <1>2, <2>1, RecursionUpTo
<1>6. \A k \in 0 .. last : f[k] = IF k = 0 THEN <<>> ELSE f[k - 1] \o DerInteger(key[k])
  <2> SUFFICES ASSUME NEW k \in 0 .. last, k # 0 PROVE f[k] = f[k - 1] \o DerInteger(key[k])
    BY <1>5 DEF none
  <2>1. k - 1 \in 0 .. last /\ k \in 1 .. last
    BY <1>0
  <2>2. f[k] = step[<<k, f[k - 1]>>] /\ f[k - 1] \in X
    BY <1>5, <2>1
  <2> QED
    BY <1>3, <2>2
<1>7. IsRun(f)
  <2>1. f = [k \in 0 .. last |-> f[k]]
    BY <1>5
  <2> QED
    BY <1>6, <2>1
<1>8. IsRun(run)
  BY <1>7, Zenon
<1>9. DerIntegers(key) = run[last] /\ Integers(key) = run
  BY DEF DerIntegers, Integers, last
<1> HIDE DEF run
<1>10. \A k \in 0 .. last : run[k] = IF k = 0 THEN <<>> ELSE run[k - 1] \o DerInteger(key[k])
  BY <1>8
<1> HIDE DEF IsRun
<1>11. run[0] = <<>>
  BY <1>0, <1>10
<1>12. ASSUME NEW k \in 1 .. last PROVE run[k] = run[k - 1] \o DerInteger(key[k])
  <2>1. k \in 0 .. last /\ k # 0
    BY <1>0
  <2> QED
    BY <1>10, <2>1
<1> DEFINE Good == {k \in Nat : k <= last => run[k] \in X}
<1>13. 0 \in Good
  BY <1>0, <1>11 DEF none
<1>14. ASSUME NEW k \in Nat, k \in Good PROVE k + 1 \in Good
  <2> SUFFICES ASSUME k + 1 <= last PROVE run[k + 1] \in X
    OBVIOUS
  <2>1. k + 1 \in 1 .. last /\ k <= last /\ (k + 1) - 1 = k
    BY <1>0
  <2>2. run[k + 1] = run[k] \o DerInteger(key[k + 1])
    BY <1>12, <2>1
  <2>3. run[k] \in X /\ DerInteger(key[k + 1]) \in X
    BY <1>1, <1>14, <2>1
  <2> QED
    BY <2>2, <2>3, ConcatProperties DEF X
<1> HIDE DEF Good
<1>15. Nat \subseteq Good
  BY <1>13, <1>14, Induction
<1>16. \A k \in 0 .. last : run[k] \in X
  BY <1>0, <1>15 DEF Good
<1> QED
  BY <1>9, <1>11, <1>12, <1>16 DEF last, X

BytesIn(key, k) == Len(IntegerBytes(key[k]))

LEMMA NumberIs ==
  ASSUME NEW key \in PemKeys, NEW k \in 1 .. Len(key)
  PROVE  /\ BytesIn(key, k) \in Nat /\ BytesIn(key, k) <= 129
         /\ IsText(IntegerBytes(key[k]), BytesIn(key, k), FileByte)
         /\ LittleEndian(IntegerBytes(key[k]), FieldSizes[k]) = LowestFirst(key[k], FieldSizes[k])
         /\ IsText(DerInteger(key[k]), DerSize(BytesIn(key, k)), FileByte) /\ DerInteger(key[k])[1] = 2
         /\ StandsAt(DerLength(BytesIn(key, k)), LengthBytes(BytesIn(key, k)), DerInteger(key[k]),
                     DerSize(BytesIn(key, k)), 1)
         /\ StandsAt(IntegerBytes(key[k]), BytesIn(key, k), DerInteger(key[k]),
                     DerSize(BytesIn(key, k)), 1 + LengthBytes(BytesIn(key, k)))
         /\ DerSize(BytesIn(key, k)) \in Nat /\ DerSize(BytesIn(key, k)) \in 2 .. 133
<1> DEFINE l == BytesIn(key, k)
           b == IntegerBytes(key[k])
<1>1. IsFitting(key[k], FieldSizes[k]) /\ FieldSizes[k] \in Nat /\ FieldSizes[k] <= 128
  BY KeyIs
<1>2. l = Len(b)
  BY DEF BytesIn
<1> HIDE DEF l
<1>3. /\ l \in Nat /\ l <= 129 /\ IsText(b, l, FileByte)
      /\ LittleEndian(b, FieldSizes[k]) = LowestFirst(key[k], FieldSizes[k])
      /\ IsText(DerInteger(key[k]), DerSize(l), FileByte) /\ DerInteger(key[k])[1] = 2
      /\ StandsAt(DerLength(l), LengthBytes(l), DerInteger(key[k]), DerSize(l), 1)
      /\ StandsAt(b, l, DerInteger(key[k]), DerSize(l), 1 + LengthBytes(l))
  BY <1>1, <1>2, DerIntegerIs
<1>4. LengthBytes(l) \in 1 .. 3
  <2>1. l < 65536 /\ l \in Nat
    BY <1>3
  <2> QED
    BY <2>1, DerLengthIs
<1>5. DerSize(l) \in Nat /\ DerSize(l) \in 2 .. 133
  <2>1. l \in Nat /\ l <= 129
    BY <1>3
  <2> DEFINE o == LengthBytes(l)
  <2>2. o \in 1 .. 3
    BY <1>4
  <2>3. DerSize(l) = 1 + o + l
    BY DEF DerSize
  <2> HIDE DEF o
  <2>4. 1 + o + l \in Nat /\ 1 + o + l \in 2 .. 133
    BY <2>1, <2>2
  <2> QED
    BY <2>3, <2>4
<1> QED
  BY <1>3, <1>5 DEF l

LEMMA IntegerFollows ==
  ASSUME NEW key \in PemKeys, NEW k \in 1 .. Len(key)
  PROVE  /\ SizeBefore(key, k - 1) \in Nat /\ SizeBefore(key, k) \in Nat
         /\ SizeBefore(key, k) = SizeBefore(key, k - 1) + DerSize(BytesIn(key, k))
         /\ StandsAt(Integers(key)[k - 1], SizeBefore(key, k - 1),
                     Integers(key)[k], SizeBefore(key, k), 0)
         /\ StandsAt(DerInteger(key[k]), DerSize(BytesIn(key, k)),
                     Integers(key)[k], SizeBefore(key, k), SizeBefore(key, k - 1))
<1> DEFINE a == Integers(key)[k - 1]
           b == DerInteger(key[k])
           t == Integers(key)[k]
           na == SizeBefore(key, k - 1)
           nb == DerSize(BytesIn(key, k))
           nt == SizeBefore(key, k)
           none == 0
<1>0. k - 1 \in 0 .. Len(key)
  BY KeyIs
<1>1. a \in Seq(FileByte) /\ t = a \o b /\ Len(a) = na /\ Len(t) = nt
  BY <1>0, IntegersAre DEF SizeBefore
<1>2. IsText(b, nb, FileByte) /\ nb \in Nat
  BY NumberIs
<1> HIDE DEF a, b, t, na, nb, nt, none
<1>3. IsText(a, na, FileByte) /\ na \in Nat
  BY <1>1, LenProperties DEF IsText
<1>4. IsConcat(a, na, b, nb, t, FileByte)
  BY <1>1, <1>2, <1>3, ConcatIs
<1>5. nt = na + nb
  <2>1. IsText(t, na + nb, FileByte)
    BY <1>4 DEF IsConcat
  <2> QED
    BY <1>1, <2>1 DEF IsText
<1>6. nt \in Nat
  BY <1>2, <1>3, <1>5
<1>7. StandsAt(a, na, t, nt, none)
  <2>1. \A i \in 1 .. na : t[i] = a[i]
    BY <1>4 DEF IsConcat
  <2>2. \A i \in 1 .. na : t[none + i] = a[i]
    <3> TAKE i \in 1 .. na
    <3>1. none + i = i
      BY DEF none
    <3> QED
      BY <2>1, <3>1
  <2>3. none \in Nat /\ none + na <= nt
    BY <1>2, <1>3, <1>5 DEF none
  <2> QED
    BY <1>3, <2>2, <2>3 DEF StandsAt
<1>8. StandsAt(b, nb, t, nt, na)
  <2>1. \A i \in 1 .. nb : t[na + i] = b[i]
    BY <1>4 DEF IsConcat
  <2>2. na + nb <= nt
    BY <1>2, <1>3, <1>5
  <2> QED
    BY <1>2, <1>3, <2>1, <2>2 DEF StandsAt
<1> QED
  BY <1>3, <1>5, <1>6, <1>7, <1>8 DEF a, b, t, na, nb, nt, none

LEMMA NothingBefore ==
  ASSUME NEW key \in PemKeys
  PROVE  SizeBefore(key, 0) = 0
<1>1. Integers(key)[0] = <<>>
  BY IntegersAre
<1>2. Len(<<>>) = 0
  OBVIOUS
<1> QED
  BY <1>1, <1>2 DEF SizeBefore

LEMMA SizesAre ==
  ASSUME NEW key \in PemKeys, NEW k \in 0 .. Len(key)
  PROVE  SizeBefore(key, k) \in Nat /\ SizeBefore(key, k) <= 133 * k
<1> DEFINE last == Len(key)
           Holds(i) == SizeBefore(key, i) \in Nat /\ SizeBefore(key, i) <= 133 * i
           Good == {i \in Nat : i <= last => Holds(i)}
<1>0. last \in Nat
  BY KeyIs
<1>1. 0 \in Good
  <2>1. SizeBefore(key, 0) = 0
    BY NothingBefore
  <2> QED
    BY <2>1
<1>2. ASSUME NEW i \in Nat, i \in Good PROVE i + 1 \in Good
  <2> SUFFICES ASSUME i + 1 <= last PROVE Holds(i + 1)
    OBVIOUS
  <2> DEFINE o == i + 1
  <2>1. o \in 1 .. last /\ o - 1 = i /\ i <= last /\ o = i + 1
    BY <1>0
  <2> HIDE DEF o
  <2>2. SizeBefore(key, o) \in Nat
        /\ SizeBefore(key, o) = SizeBefore(key, i) + DerSize(BytesIn(key, o))
    <3>1. SizeBefore(key, o) \in Nat
        /\ SizeBefore(key, o) = SizeBefore(key, o - 1) + DerSize(BytesIn(key, o))
      BY <2>1, IntegerFollows
    <3> QED
      BY <2>1, <3>1
  <2>3. DerSize(BytesIn(key, o)) \in 2 .. 133
    BY <2>1, NumberIs
  <2>4. Holds(i)
    BY <1>2, <2>1
  <2>5. Holds(o)
    <3> DEFINE s == SizeBefore(key, i)
               t == SizeBefore(key, o)
               d == DerSize(BytesIn(key, o))
               u == 133 * i
    <3>1. s \in Nat /\ s <= u /\ u \in Nat /\ t = s + d /\ d \in 2 .. 133 /\ 133 * o = u + 133
      BY <2>1, <2>2, <2>3, <2>4
    <3> HIDE DEF s, t, d, u
    <3>2. t \in Nat /\ t <= 133 * o
      BY <3>1
    <3> QED
      BY <3>2 DEF t
  <2> HIDE DEF Holds
  <2> QED
    BY <2>5 DEF o
<1> HIDE DEF Good
<1>3. Nat \subseteq Good
  BY <1>1, <1>2, Induction
<1>4. k \in Nat /\ k <= last
  BY <1>0
<1> QED
  BY <1>3, <1>4 DEF Good

LEMMA IntegersStand ==
  ASSUME NEW key \in PemKeys, NEW k \in 0 .. Len(key)
  PROVE  StandsAt(Integers(key)[k], SizeBefore(key, k),
                  Integers(key)[Len(key)], SizeBefore(key, Len(key)), 0)
<1> DEFINE last == Len(key)
           none == 0
           all == Integers(key)[last]
           size == SizeBefore(key, last)
           Holds(i) == StandsAt(Integers(key)[i], SizeBefore(key, i), all, size, none)
           Good == {i \in Nat : i <= last => Holds(last - i)}
<1>0. last \in Nat
  BY KeyIs
<1>1. size \in Nat
  <2>1. last \in 0 .. last
    BY <1>0
  <2> QED
    BY <2>1, SizesAre
<1>2. 0 \in Good
  <2>1. last - 0 = last
    BY <1>0
  <2>2. \A j \in 1 .. size : all[none + j] = all[j]
    <3> TAKE j \in 1 .. size
    <3> HIDE DEF all, size
    <3>1. none + j = j
      BY <1>1
    <3> QED
      BY <3>1
  <2> HIDE DEF all, size
  <2>3. none \in Nat /\ none + size <= size
    BY <1>1
  <2> HIDE DEF none
  <2>4. StandsAt(all, size, all, size, none)
    BY <1>1, <2>2, <2>3 DEF StandsAt
  <2>5. Holds(last)
    BY <2>4 DEF all, size
  <2> HIDE DEF Holds
  <2> QED
    BY <2>1, <2>5
<1>3. ASSUME NEW i \in Nat, i \in Good PROVE i + 1 \in Good
  <2> SUFFICES ASSUME i + 1 <= last PROVE Holds(last - (i + 1))
    OBVIOUS
  <2> DEFINE m == last - i
             o == m - 1
  <2>1. m \in 1 .. last /\ last - (i + 1) = o /\ i <= last
    BY <1>0
  <2>2. Holds(m)
    BY <1>3, <2>1
  <2> HIDE DEF m, all, size
  <2>3. StandsAt(Integers(key)[o], SizeBefore(key, o), Integers(key)[m], SizeBefore(key, m), none)
    BY <2>1, IntegerFollows
  <2> HIDE DEF none, o
  <2>4. StandsAt(Integers(key)[o], SizeBefore(key, o), all, size, none + none)
    BY <1>1, <2>2, <2>3, StandsIn
  <2>5. none + none = none
    BY DEF none
  <2> QED
    BY <2>1, <2>4, <2>5
<1> HIDE DEF Good, Holds
<1>4. Nat \subseteq Good
  BY <1>2, <1>3, Induction
<1>5. last - k \in Nat /\ last - k <= last /\ last - (last - k) = k
  BY <1>0
<1>6. Holds(k)
  BY <1>4, <1>5 DEF Good
<1> QED
  BY <1>6 DEF Holds, all, size, none

\* Where number k + 1 begins in the file.
Offset(key, k) == (1 + LengthBytes(Len(DerIntegers(key)))) + SizeBefore(key, k)

LEMMA KeyStands ==
  ASSUME NEW key \in PemKeys
  PROVE  /\ Len(DerKey(key)) \in Nat \ {0} /\ IsText(DerKey(key), Len(DerKey(key)), FileByte)
         /\ DerKey(key)[1] = 48
         /\ Len(DerIntegers(key)) \in Nat /\ Len(DerIntegers(key)) < 65536
         /\ StandsAt(DerLength(Len(DerIntegers(key))), LengthBytes(Len(DerIntegers(key))),
                     DerKey(key), Len(DerKey(key)), 1)
         /\ Offset(key, 0) = 1 + LengthBytes(Len(DerIntegers(key)))
         /\ \A k \in 0 .. Len(key) : Offset(key, k) \in Nat
         /\ \A k \in 1 .. Len(key) :
              /\ Offset(key, k) = Offset(key, k - 1) + DerSize(BytesIn(key, k))
              /\ StandsAt(DerInteger(key[k]), DerSize(BytesIn(key, k)),
                          DerKey(key), Len(DerKey(key)), Offset(key, k - 1))
<1> DEFINE body == DerIntegers(key)
           l == Len(body)
           tag == 48
           data == <<tag>> \o DerLength(l) \o body
           n == Len(data)
           last == Len(key)
           h == 1 + LengthBytes(l)
<1>0. last \in Nat /\ last = 9 /\ last \in 0 .. last
  BY KeyIs
<1>1. body = Integers(key)[last] /\ body \in Seq(FileByte) /\ l = SizeBefore(key, last)
  BY <1>0, IntegersAre DEF SizeBefore
<1>2. l \in Nat /\ l < 65536
  <2>1. last \in 0 .. last
    BY <1>0
  <2>2. SizeBefore(key, last) \in Nat /\ SizeBefore(key, last) <= 133 * last
    BY <2>1, SizesAre
  <2>3. 133 * last < 65536 /\ 133 * last \in Nat
    BY <1>0
  <2> HIDE DEF l, last
  <2> QED
    BY <1>1, <2>2, <2>3
<1>3. IsText(body, l, FileByte) /\ tag \in FileByte
  BY <1>1 DEF IsText, FileByte
<1>4. DerKey(key) = data
  BY DEF DerKey
<1> HIDE DEF body, l, tag
<1>5. /\ IsText(data, h + l, FileByte) /\ data[1] = tag
      /\ StandsAt(DerLength(l), LengthBytes(l), data, h + l, 1)
      /\ StandsAt(body, l, data, h + l, h)
  BY <1>2, <1>3, TaggedIs
<1> HIDE DEF data
<1>6. n = h + l
  BY <1>5 DEF IsText
<1>7. h \in Nat /\ n \in Nat \ {0}
  <2>1. LengthBytes(l) \in 1 .. 3
    BY <1>2, DerLengthIs
  <2> QED
    BY <1>2, <1>6, <2>1
<1> HIDE DEF n, h
<1>8. StandsAt(body, l, data, n, h)
  BY <1>5, <1>6
<1>9. \A k \in 0 .. last : Offset(key, k) = h + SizeBefore(key, k)
  BY DEF Offset, h, l, body
<1>10. \A k \in 0 .. last : Offset(key, k) \in Nat
  <2> TAKE k \in 0 .. last
  <2>1. SizeBefore(key, k) \in Nat
    BY SizesAre
  <2> QED
    BY <1>7, <1>9, <2>1
<1>11. Offset(key, 0) = h
  <2>1. SizeBefore(key, 0) = 0
    BY NothingBefore
  <2>2. 0 \in 0 .. last
    BY <1>0
  <2> QED
    BY <1>7, <1>9, <2>1, <2>2
<1>12. ASSUME NEW k \in 1 .. last
       PROVE  /\ Offset(key, k) = Offset(key, k - 1) + DerSize(BytesIn(key, k))
              /\ StandsAt(DerInteger(key[k]), DerSize(BytesIn(key, k)), data, n, Offset(key, k - 1))
  <2> DEFINE o == k - 1
             none == 0
             s == SizeBefore(key, k)
             p == SizeBefore(key, o)
             d == DerSize(BytesIn(key, k))
  <2>1. o \in 0 .. last /\ k \in 0 .. last
    BY <1>0
  <2>2. /\ p \in Nat /\ s \in Nat /\ s = p + d
        /\ StandsAt(DerInteger(key[k]), d, Integers(key)[k], s, p)
    BY IntegerFollows
  <2>3. StandsAt(Integers(key)[k], s, body, l, none)
    BY <1>1, <2>1, IntegersStand
  <2>4. d \in Nat
    BY NumberIs
  <2> HIDE DEF o, s, p, d, none
  <2>5. StandsAt(DerInteger(key[k]), d, body, l, none + p)
    BY <1>2, <2>2, <2>3, StandsIn
  <2>6. none + p = p
    BY <2>2 DEF none
  <2>7. StandsAt(DerInteger(key[k]), d, data, n, h + p)
    BY <1>7, <1>8, <2>5, <2>6, StandsIn
  <2>8. Offset(key, o) = h + p
    BY <1>9, <2>1 DEF p
  <2>9. Offset(key, k) = h + s
    BY <1>9, <2>1 DEF s
  <2>10. Offset(key, k) = Offset(key, o) + d
    BY <1>7, <2>2, <2>4, <2>8, <2>9
  <2> QED
    BY <2>7, <2>8, <2>10 DEF o, d
<1>13. /\ IsText(data, n, FileByte) /\ StandsAt(DerLength(l), LengthBytes(l), data, n, 1)
  BY <1>5, <1>6
<1>14. n = Len(data)
  BY DEF n
<1> QED
  BY <1>2, <1>4, <1>5, <1>7, <1>10, <1>11, <1>12, <1>13, <1>14 DEF h, l, body, tag

-----------------------------------------------------------------------------
(* Reading a file *)

LEMMA StandingPart ==
  ASSUME NEW n, NEW data, IsText(data, n, FileByte), NEW s, NEW l, IsText(s, l, FileByte), NEW k,
         StandsAt(s, l, data, n, k)
  PROVE  Part(data, k, l) = s
<1>1. k \in Nat /\ l \in Nat /\ k + l <= n /\ \A j \in 1 .. l : data[k + j] = s[j]
  BY DEF StandsAt
<1> DEFINE p == Part(data, k, l)
<1>2. IsText(p, l, FileByte) /\ \A j \in 1 .. l : p[j] = data[k + j]
  BY <1>1, PartIs
<1> HIDE DEF p
<1>3. \A j \in 1 .. l : p[j] = s[j]
  BY <1>1, <1>2
<1>4. p = s
  BY <1>2, <1>3, SameText
<1> QED
  BY <1>4 DEF p

LEMMA SequenceRead ==
  ASSUME NEW key \in PemKeys, NEW f, IsFile(f, DerKey(key), Len(DerKey(key)))
  PROVE  readSequence(ReaderAt(f, DerKey(key), Len(DerKey(key)), 0))
           = [c |-> Len(DerIntegers(key)),
              r |-> ReaderAt(f, DerKey(key), Len(DerKey(key)), Offset(key, 0))]
<1> DEFINE data == DerKey(key)
           n == Len(data)
           l == Len(DerIntegers(key))
           none == 0
           one == none + 1
           type == 48
<1>1. /\ n \in Nat \ {0} /\ IsText(data, n, FileByte) /\ data[1] = type
      /\ l \in Nat /\ l < 65536 /\ StandsAt(DerLength(l), LengthBytes(l), data, n, 1)
      /\ Offset(key, 0) = 1 + LengthBytes(l)
  BY KeyStands
<1>2. one = 1 /\ none \in Nat /\ none = 0
  OBVIOUS
<1> HIDE DEF data, n, l, type
<1>3. none < n
  BY <1>1
<1> HIDE DEF none
<1>4. data[none + 1] = type /\ StandsAt(DerLength(l), LengthBytes(l), data, n, none + 1)
  BY <1>1, <1>2
<1>5. IsFile(f, data, n)
  BY DEF n, data
<1>6. readHeader(ReaderAt(f, data, n, none), type)
        = [c |-> l, r |-> ReaderAt(f, data, n, none + 1 + LengthBytes(l))]
  BY <1>1, <1>2, <1>3, <1>4, <1>5, readHeaderIs
<1>7. none + 1 + LengthBytes(l) = Offset(key, 0)
  BY <1>1, <1>2
<1> QED
  BY <1>2, <1>6, <1>7 DEF readSequence, type, data, n, l

LEMMA NumberRead ==
  ASSUME NEW key \in PemKeys, NEW f, IsFile(f, DerKey(key), Len(DerKey(key))),
         NEW k \in 1 .. Len(key)
  PROVE  readData(ReaderAt(f, DerKey(key), Len(DerKey(key)), Offset(key, k - 1)), FieldSizes[k])
           = [c |-> 0, r |-> ReaderAt(f, DerKey(key), Len(DerKey(key)), Offset(key, k)),
              data |-> LowestFirst(key[k], FieldSizes[k])]
<1> DEFINE data == DerKey(key)
           n == Len(data)
           l == BytesIn(key, k)
           b == IntegerBytes(key[k])
           d == DerInteger(key[k])
           o == Offset(key, k - 1)
           p == Offset(key, k)
           q == LengthBytes(l)
           s == DerSize(l)
           size == FieldSizes[k]
           one == 1
           type == 2
<1>1. /\ n \in Nat \ {0} /\ IsText(data, n, FileByte) /\ p = o + s /\ StandsAt(d, s, data, n, o)
  BY KeyStands
<1>2. o \in Nat
  <2>1. k - 1 \in 0 .. Len(key)
    BY KeyIs
  <2> QED
    BY <2>1, KeyStands
<1>3. /\ l \in Nat /\ l <= 129 /\ IsText(b, l, FileByte)
      /\ LittleEndian(b, size) = LowestFirst(key[k], size)
      /\ d[1] = type /\ StandsAt(DerLength(l), q, d, s, 1) /\ StandsAt(b, l, d, s, 1 + q)
      /\ s \in Nat /\ s \in 2 .. 133
  BY NumberIs
<1>4. s = (one + q) + l /\ one = 1
  BY DEF DerSize
<1>5. IsFile(f, data, n)
  OBVIOUS
<1> HIDE DEF data, n, l, b, d, o, p, s, size, one, type
<1>6. q \in 1 .. 3 /\ l < 65536
  <2>1. l < 65536
    BY <1>3
  <2>2. q \in 1 .. 3
    BY <1>3, <2>1, DerLengthIs
  <2> QED
    BY <2>1, <2>2
<1> HIDE DEF q
<1>7. o + s <= n /\ n \in Nat
  BY <1>1 DEF StandsAt
<1>8. o < n
  BY <1>2, <1>3, <1>7
<1>9. data[o + 1] = type
  <2>0. s \in Nat /\ s >= 2
    BY <1>3
  <2>1. one \in 1 .. s
    BY <1>4, <2>0
  <2>2. data[o + one] = d[one]
    BY <1>1, <2>1 DEF StandsAt
  <2> QED
    BY <1>3, <1>4, <2>2
<1>10. StandsAt(DerLength(l), q, data, n, o + 1)
  BY <1>1, <1>3, <1>7, StandsIn
<1>11. StandsAt(b, l, data, n, o + (1 + q))
  BY <1>1, <1>3, <1>7, StandsIn
<1>12. o + (1 + q) = o + 1 + q /\ o + 1 + q + l <= n /\ o + 1 + q + l = p
  BY <1>1, <1>2, <1>3, <1>4, <1>6, <1>7
<1>13. Part(data, o + 1 + q, l) = b
  BY <1>1, <1>3, <1>11, <1>12, StandingPart
<1>14. readData(ReaderAt(f, data, n, o), size)
           = [c |-> 0, r |-> ReaderAt(f, data, n, o + 1 + LengthBytes(l) + l),
              data |-> LittleEndian(Part(data, o + 1 + LengthBytes(l), l), size)]
  <2>1. StandsAt(DerLength(l), LengthBytes(l), data, n, o + 1) /\ o + 1 + LengthBytes(l) + l <= n
    BY <1>10, <1>12 DEF q
  <2>2. data[o + 1] = 2
    BY <1>9 DEF type
  <2>3. l \in Nat /\ l < 65536 /\ IsText(data, n, FileByte)
    BY <1>1, <1>3, <1>6
  <2> QED
    BY <1>2, <1>5, <1>8, <2>1, <2>2, <2>3, readDataIs
<1>15. readData(ReaderAt(f, data, n, o), size)
           = [c |-> 0, r |-> ReaderAt(f, data, n, p), data |-> LowestFirst(key[k], size)]
  BY <1>3, <1>12, <1>13, <1>14 DEF q
<1> QED
  BY <1>15 DEF data, n, o, p, size


-----------------------------------------------------------------------------
(* The specification *)

\* What a number of the key, or a certificate, is while the file is read.
IsKeyFile(key, length, end, e) ==
  key \in PemKeys /\ pemGiven = key /\ IsPemFile(DerKey(key), Len(DerKey(key)), length, end, e)

NumbersRead(key, f, step, r, read) ==
  /\ step \in {"key", "numbers", "done"}
  /\ IsSequence(read) /\ Len(read) <= Len(key)
  /\ \A k \in 1 .. Len(read) : read[k] = LowestFirst(key[k], FieldSizes[k])
  /\ step = "key" => r.next = 1 /\ read = <<>>
  /\ step = "numbers" =>
       /\ Len(read) < Len(key)
       /\ r = ReaderAt(f, DerKey(key), Len(DerKey(key)), Offset(key, Len(read)))
  /\ step = "done" => Len(read) = Len(key)

IsCertificateFile(data, n, length, end, e) ==
  data \in Certificates /\ pemGiven = data /\ IsPemFile(data, n, length, end, e)

BytesRead(data, n, f, step, r, read) ==
  /\ step \in {"certificate", "bytes", "done"}
  /\ IsSequence(read) /\ Len(read) <= n
  /\ \A k \in 1 .. Len(read) : read[k] = data[k]
  /\ step = "certificate" => r.next = 1 /\ read = <<>>
  /\ step = "bytes" => r = ReaderAt(f, data, n, Len(read))
  /\ step = "done" => Len(read) = n

KeyHolds(key, length, end, e) ==
  /\ IsKeyFile(key, length, end, e) /\ serCerData = <<>>
  /\ NumbersRead(key, FileOf(Len(DerKey(key)), length, e), pemStep, reader, pemRead)

CertificateHolds(data, n, length, end, e) ==
  /\ IsCertificateFile(data, n, length, end, e) /\ pemRead = <<>>
  /\ BytesRead(data, n, FileOf(n, length, e), pemStep, reader, serCerData)

\* The reader is where what has been read ends, and what has been read is what is written there.
PemInv ==
  \/ \E key, length, end, e : KeyHolds(key, length, end, e)
  \/ \E data, n, length, end, e : CertificateHolds(data, n, length, end, e)

LEMMA EmptyIs == IsSequence(<<>>) /\ Len(<<>>) = 0
<1>1. IsText(<<>>, 0, FileByte)
  BY DEF IsText
<1> QED
  BY <1>1, TextIsSequence

LEMMA CertificatesAre ==
  ASSUME NEW data \in Certificates
  PROVE  Len(data) \in Nat \ {0} /\ IsText(data, Len(data), FileByte)
<1> DEFINE n == Len(data)
<1>1. data \in Seq(FileByte) /\ n \in 1 .. 1024
  BY PemAssumption DEF FileByte
<1> HIDE DEF n
<1>2. n \in Nat \ {0}
  BY <1>1
<1> QED
  BY <1>1, <1>2 DEF IsText, n

LEMMA PemStarts ==
  ASSUME PemInit
  PROVE  PemInv
<1>1. PICK length \in LineLengths, end \in LineEnds :
        \/ /\ pemGiven \in PemKeys /\ pemStep = "key"
           /\ pemText = PemOf(DerKey(pemGiven), length, end)
        \/ /\ pemGiven \in Certificates /\ pemStep = "certificate"
           /\ pemText = PemOf(pemGiven, length, end)
  BY DEF PemInit
<1>2. length \in Nat \ {0} /\ end \in Endings
  BY PemAssumption DEF Endings
<1>3. PICK e \in Nat : IsEnd(end, e)
  BY <1>2, EndIs
<1>4. reader.next = 1 /\ pemRead = <<>> /\ serCerData = <<>>
  BY DEF PemInit
<1>5. IsSequence(<<>>) /\ Len(<<>>) = 0
  BY EmptyIs
<1>6. CASE pemGiven \in PemKeys /\ pemStep = "key" /\ pemText = PemOf(DerKey(pemGiven), length, end)
  <2> DEFINE key == pemGiven
             f == FileOf(Len(DerKey(key)), length, e)
  <2>1. Len(DerKey(key)) \in Nat \ {0} /\ IsText(DerKey(key), Len(DerKey(key)), FileByte)
    BY <1>6, KeyStands
  <2>2. IsKeyFile(key, length, end, e)
    BY <1>2, <1>3, <1>6, <2>1 DEF IsKeyFile, IsPemFile
  <2>3. Len(key) \in Nat
    BY <1>6, KeyIs
  <2> HIDE DEF key, f
  <2>4. NumbersRead(key, f, pemStep, reader, pemRead)
    BY <1>4, <1>5, <1>6, <2>3 DEF NumbersRead
  <2>5. KeyHolds(key, length, end, e)
    BY <1>4, <2>2, <2>4 DEF KeyHolds, f
  <2> QED
    BY <2>5 DEF PemInv
<1>7. CASE pemGiven \in Certificates /\ pemStep = "certificate" /\ pemText = PemOf(pemGiven, length, end)
  <2> DEFINE data == pemGiven
             n == Len(data)
             f == FileOf(n, length, e)
  <2>1. n \in Nat \ {0} /\ IsText(data, n, FileByte)
    BY <1>7, CertificatesAre
  <2>2. IsCertificateFile(data, n, length, end, e)
    BY <1>2, <1>3, <1>7, <2>1 DEF IsCertificateFile, IsPemFile
  <2> HIDE DEF data, n, f
  <2>3. BytesRead(data, n, f, pemStep, reader, serCerData)
    BY <1>4, <1>5, <1>7, <2>1 DEF BytesRead
  <2>4. CertificateHolds(data, n, length, end, e)
    BY <1>4, <2>2, <2>3 DEF CertificateHolds, f
  <2> QED
    BY <2>4 DEF PemInv
<1> QED
  BY <1>1, <1>6, <1>7

\* The line before a key is skipped, and the header behind it.
LEMMA KeyHeaderKeeps ==
  ASSUME NEW key, NEW length, NEW end, NEW e, KeyHolds(key, length, end, e), SkipHeader
  PROVE  KeyHolds(key, length, end, e)'
<1> DEFINE data == DerKey(key)
           n == Len(data)
           f == FileOf(n, length, e)
           line == Base64SkipLine(reader)
           sequence == readSequence(line.r)
           l == Len(DerIntegers(key))
<1>1. key \in PemKeys /\ pemGiven = key /\ IsPemFile(data, n, length, end, e)
      /\ serCerData = <<>> /\ NumbersRead(key, f, pemStep, reader, pemRead)
  BY DEF KeyHolds, IsKeyFile
<1>2. pemStep = "key"
  BY <1>1 DEF SkipHeader, NumbersRead
<1>3. reader.next = 1 /\ pemRead = <<>>
  BY <1>1, <1>2 DEF NumbersRead
<1>4. line = [c |-> 0, r |-> ReaderAt(f, data, n, 0)]
  BY <1>1, <1>3, SkipLineIs
<1>5. IsFile(f, data, n)
  BY <1>1, FileIs
<1>6. sequence = [c |-> l, r |-> ReaderAt(f, data, n, Offset(key, 0))]
  BY <1>1, <1>4, <1>5, SequenceRead
<1>7. l \in Nat
  BY <1>1, KeyStands
<1>8. line.c # Failed /\ sequence.c # Failed
  BY <1>4, <1>6, <1>7 DEF Failed
<1>9. reader' = sequence.r /\ pemStep' = "numbers"
      /\ UNCHANGED <<pemGiven, pemText, pemRead, serCerData>>
  BY <1>2, <1>8 DEF SkipHeader
<1>10. reader' = ReaderAt(f, data, n, Offset(key, 0))
  BY <1>6, <1>9
<1>11. 0 < Len(key) /\ Len(key) \in Nat
  BY <1>1, KeyIs
<1>12. IsSequence(<<>>) /\ Len(<<>>) = 0
  BY EmptyIs
<1>13. NumbersRead(key, f, pemStep', reader', pemRead')
  <2>1. pemRead' = <<>> /\ pemStep' = "numbers" /\ Len(pemRead') = 0 /\ IsSequence(pemRead')
    BY <1>3, <1>9, <1>12
  <2> HIDE DEF data, n, f
  <2>2. reader' = ReaderAt(f, data, n, Offset(key, Len(pemRead')))
    BY <1>10, <2>1
  <2> QED
    BY <1>11, <2>1, <2>2 DEF NumbersRead, data, n
<1>14. IsKeyFile(key, length, end, e)' /\ serCerData' = <<>>
  BY <1>1, <1>9 DEF IsKeyFile, IsPemFile
<1> QED
  BY <1>13, <1>14 DEF KeyHolds

\* readData gives the next number.
LEMMA ReadNumberKeeps ==
  ASSUME NEW key, NEW length, NEW end, NEW e, KeyHolds(key, length, end, e), ReadNumber
  PROVE  KeyHolds(key, length, end, e)'
<1> DEFINE data == DerKey(key)
           n == Len(data)
           f == FileOf(n, length, e)
           m == Len(pemRead)
           k == m + 1
           number == readData(reader, FieldSizes[k])
<1>1. key \in PemKeys /\ pemGiven = key /\ IsPemFile(data, n, length, end, e)
      /\ serCerData = <<>> /\ NumbersRead(key, f, pemStep, reader, pemRead)
  BY DEF KeyHolds, IsKeyFile
<1>2. pemStep = "numbers"
  BY DEF ReadNumber
<1>3. /\ IsSequence(pemRead) /\ m < Len(key)
      /\ \A i \in 1 .. m : pemRead[i] = LowestFirst(key[i], FieldSizes[i])
      /\ reader = ReaderAt(f, data, n, Offset(key, m))
  BY <1>1, <1>2 DEF NumbersRead
<1>4. Len(key) \in Nat /\ Len(key) = Len(FieldSizes)
  BY <1>1, KeyIs
<1>5. m \in Nat
  BY <1>3 DEF IsSequence
<1>6. k \in 1 .. Len(key) /\ k - 1 = m
  BY <1>3, <1>4, <1>5
<1>7. IsFile(f, data, n)
  BY <1>1, FileIs
<1>8. number = [c |-> 0, r |-> ReaderAt(f, data, n, Offset(key, k)),
                data |-> LowestFirst(key[k], FieldSizes[k])]
  <2> HIDE DEF k, m, f
  <2>1. readData(ReaderAt(f, data, n, Offset(key, k - 1)), FieldSizes[k])
          = [c |-> 0, r |-> ReaderAt(f, data, n, Offset(key, k)),
             data |-> LowestFirst(key[k], FieldSizes[k])]
    BY <1>1, <1>6, <1>7, NumberRead
  <2> QED
    BY <1>3, <1>6, <2>1
<1>9. number.c # Failed
  BY <1>8 DEF Failed
<1>10. /\ reader' = number.r /\ pemRead' = Append(pemRead, number.data)
       /\ pemStep' = IF k = Len(FieldSizes) THEN "done" ELSE "numbers"
       /\ UNCHANGED <<pemGiven, pemText, serCerData>>
  BY <1>9 DEF ReadNumber
<1>11. reader' = ReaderAt(f, data, n, Offset(key, k))
       /\ pemRead' = Append(pemRead, LowestFirst(key[k], FieldSizes[k]))
  BY <1>8, <1>10
<1> HIDE DEF f, number, data, n
<1>12. /\ IsSequence(pemRead') /\ Len(pemRead') = m + 1
       /\ \A i \in 1 .. m : pemRead'[i] = pemRead[i]
       /\ pemRead'[m + 1] = LowestFirst(key[k], FieldSizes[k])
  BY <1>3, <1>11, AppendedIs
<1>13. \A i \in 1 .. m + 1 : pemRead'[i] = LowestFirst(key[i], FieldSizes[i])
  <2>1. ASSUME NEW i \in 1 .. m + 1 PROVE pemRead'[i] = LowestFirst(key[i], FieldSizes[i])
    <3>1. i \in 1 .. m \/ i = m + 1
      BY <1>5
    <3> QED
      BY <1>3, <1>12, <3>1
  <2> QED
    BY <2>1
<1>14. NumbersRead(key, f, pemStep', reader', pemRead')
  <2>1. Len(pemRead') = k /\ k <= Len(key)
    BY <1>6, <1>12
  <2>2. reader' = ReaderAt(f, DerKey(key), Len(DerKey(key)), Offset(key, Len(pemRead')))
    BY <1>11, <2>1 DEF data, n
  <2>3. pemStep' = "done" => Len(pemRead') = Len(key)
    BY <1>4, <1>10, <2>1
  <2>4. pemStep' = "numbers" => Len(pemRead') < Len(key)
    BY <1>4, <1>6, <1>10, <2>1
  <2>5. pemStep' \in {"numbers", "done"}
    BY <1>10
  <2>6. \A i \in 1 .. Len(pemRead') : pemRead'[i] = LowestFirst(key[i], FieldSizes[i])
    BY <1>12, <1>13
  <2> QED
    BY <1>12, <2>1, <2>2, <2>3, <2>4, <2>5, <2>6 DEF NumbersRead
<1>15. IsKeyFile(key, length, end, e)' /\ serCerData' = <<>>
  BY <1>1, <1>10 DEF IsKeyFile, IsPemFile, data, n
<1> QED
  BY <1>14, <1>15 DEF KeyHolds, f, data, n

\* The line before a certificate is skipped.
LEMMA CertificateHeaderKeeps ==
  ASSUME NEW data, NEW n, NEW length, NEW end, NEW e, CertificateHolds(data, n, length, end, e),
         SkipHeader
  PROVE  CertificateHolds(data, n, length, end, e)'
<1> DEFINE f == FileOf(n, length, e)
           line == Base64SkipLine(reader)
<1>1. data \in Certificates /\ pemGiven = data /\ IsPemFile(data, n, length, end, e)
      /\ pemRead = <<>> /\ BytesRead(data, n, f, pemStep, reader, serCerData)
  BY DEF CertificateHolds, IsCertificateFile
<1>2. pemStep = "certificate"
  BY <1>1 DEF SkipHeader, BytesRead
<1>3. reader.next = 1 /\ serCerData = <<>>
  BY <1>1, <1>2 DEF BytesRead
<1>4. line = [c |-> 0, r |-> ReaderAt(f, data, n, 0)]
  BY <1>1, <1>3, SkipLineIs
<1>5. line.c # Failed
  BY <1>4 DEF Failed
<1>6. reader' = line.r /\ pemStep' = "bytes" /\ UNCHANGED <<pemGiven, pemText, pemRead, serCerData>>
  BY <1>2, <1>5 DEF SkipHeader
<1>7. reader' = ReaderAt(f, data, n, 0)
  BY <1>4, <1>6
<1>8. n \in Nat
  BY <1>1 DEF IsPemFile
<1>9. serCerData' = <<>> /\ Len(serCerData') = 0 /\ IsSequence(serCerData')
  BY <1>3, <1>6, EmptyIs
<1> HIDE DEF f, line
<1>10. BytesRead(data, n, f, pemStep', reader', serCerData')
  <2>1. reader' = ReaderAt(f, data, n, Len(serCerData'))
    BY <1>7, <1>9
  <2> QED
    BY <1>6, <1>8, <1>9, <2>1 DEF BytesRead
<1>11. IsCertificateFile(data, n, length, end, e)' /\ pemRead' = <<>>
  BY <1>1, <1>6 DEF IsCertificateFile, IsPemFile
<1> QED
  BY <1>10, <1>11 DEF CertificateHolds, f

\* The next byte of the certificate is read, or its end is found.
LEMMA ReadByteKeeps ==
  ASSUME NEW data, NEW n, NEW length, NEW end, NEW e, CertificateHolds(data, n, length, end, e),
         ReadCertificateByte
  PROVE  CertificateHolds(data, n, length, end, e)'
<1> DEFINE f == FileOf(n, length, e)
           m == Len(serCerData)
           byte == Base64ReadByte(reader)
<1>1. data \in Certificates /\ pemGiven = data /\ IsPemFile(data, n, length, end, e)
      /\ pemRead = <<>> /\ BytesRead(data, n, f, pemStep, reader, serCerData)
  BY DEF CertificateHolds, IsCertificateFile
<1>2. pemStep = "bytes"
  BY DEF ReadCertificateByte
<1>3. /\ IsSequence(serCerData) /\ m <= n /\ reader = ReaderAt(f, data, n, m)
      /\ \A i \in 1 .. m : serCerData[i] = data[i]
  BY <1>1, <1>2 DEF BytesRead
<1>4. IsFile(f, data, n) /\ IsText(data, n, FileByte) /\ n \in Nat
  BY <1>1, FileIs DEF IsPemFile
<1>5. m \in Nat
  BY <1>3 DEF IsSequence
<1>6. reader' = byte.r /\ UNCHANGED <<pemGiven, pemText, pemRead>>
  BY DEF ReadCertificateByte
<1>7. IsCertificateFile(data, n, length, end, e)' /\ pemRead' = <<>>
  BY <1>1, <1>6 DEF IsCertificateFile, IsPemFile
<1>8. byte.c = Failed => pemStep' = "done" /\ serCerData' = serCerData
  BY DEF ReadCertificateByte
<1>9. byte.c # Failed => pemStep' = "bytes" /\ serCerData' = Append(serCerData, byte.c)
  BY <1>2 DEF ReadCertificateByte
<1> HIDE DEF f, m
<1>10. CASE m < n
  <2>1. byte.c = data[m + 1] /\ byte.r = ReaderAt(f, data, n, m + 1)
    BY <1>3, <1>4, <1>5, <1>10, ByteIsRead
  <2>2. m + 1 \in 1 .. n
    BY <1>4, <1>5, <1>10
  <2>3. data[m + 1] \in FileByte
    BY <1>4, <2>2, TextIs
  <2>4. byte.c # Failed
    BY <2>1, <2>3 DEF FileByte, Failed
  <2> HIDE DEF byte
  <2>5. pemStep' = "bytes" /\ serCerData' = Append(serCerData, data[m + 1])
    BY <1>9, <2>1, <2>4
  <2>6. /\ IsSequence(serCerData') /\ Len(serCerData') = m + 1
        /\ \A i \in 1 .. m : serCerData'[i] = serCerData[i]
        /\ serCerData'[m + 1] = data[m + 1]
    BY <1>3, <2>5, AppendedIs DEF m
  <2>7. ASSUME NEW i \in 1 .. m + 1 PROVE serCerData'[i] = data[i]
    <3>1. i \in 1 .. m \/ i = m + 1
      BY <1>5
    <3> QED
      BY <1>3, <2>6, <3>1
  <2>8. reader' = ReaderAt(f, data, n, m + 1)
    BY <1>6, <2>1
  <2>9. m + 1 <= n
    BY <2>2
  <2>10. BytesRead(data, n, f, pemStep', reader', serCerData')
    BY <2>5, <2>6, <2>7, <2>8, <2>9 DEF BytesRead
  <2> QED
    BY <1>7, <2>10 DEF CertificateHolds, f
<1>11. CASE ~ m < n
  <2>1. m = n
    BY <1>3, <1>4, <1>5, <1>11
  <2>2. byte.c = Failed
    BY <1>3, <1>4, <2>1, ReadEndIs
  <2>3. pemStep' = "done" /\ serCerData' = serCerData
    BY <1>8, <2>2
  <2>4. BytesRead(data, n, f, pemStep', reader', serCerData')
    BY <1>3, <2>1, <2>3 DEF BytesRead, m
  <2> QED
    BY <1>7, <2>4 DEF CertificateHolds, f
<1> QED
  BY <1>10, <1>11

\* One of the actions, of a state in which what was read is right.
LEMMA PemKeeps ==
  ASSUME PemInv, [PemNext]_pemVars
  PROVE  PemInv'
<1>1. ASSUME NEW key, NEW length, NEW end, NEW e, KeyHolds(key, length, end, e)
      PROVE  PemInv'
  <2>1. CASE SkipHeader
    <3>1. KeyHolds(key, length, end, e)'
      BY <1>1, <2>1, KeyHeaderKeeps
    <3> QED
      BY <3>1 DEF PemInv
  <2>2. CASE ReadNumber
    <3>1. KeyHolds(key, length, end, e)'
      BY <1>1, <2>2, ReadNumberKeeps
    <3> QED
      BY <3>1 DEF PemInv
  <2>3. ~ ReadCertificateByte
    BY <1>1 DEF KeyHolds, NumbersRead, ReadCertificateByte
  <2>4. CASE UNCHANGED pemVars
    <3>1. KeyHolds(key, length, end, e)'
      BY <1>1, <2>4 DEF KeyHolds, IsKeyFile, IsPemFile, pemVars
    <3> QED
      BY <3>1 DEF PemInv
  <2> QED
    BY <2>1, <2>2, <2>3, <2>4 DEF PemNext
<1>2. ASSUME NEW data, NEW n, NEW length, NEW end, NEW e, CertificateHolds(data, n, length, end, e)
      PROVE  PemInv'
  <2>1. CASE SkipHeader
    <3>1. CertificateHolds(data, n, length, end, e)'
      BY <1>2, <2>1, CertificateHeaderKeeps
    <3> QED
      BY <3>1 DEF PemInv
  <2>2. ~ ReadNumber
    BY <1>2 DEF CertificateHolds, BytesRead, ReadNumber
  <2>3. CASE ReadCertificateByte
    <3>1. CertificateHolds(data, n, length, end, e)'
      BY <1>2, <2>3, ReadByteKeeps
    <3> QED
      BY <3>1 DEF PemInv
  <2>4. CASE UNCHANGED pemVars
    <3>1. CertificateHolds(data, n, length, end, e)'
      BY <1>2, <2>4 DEF CertificateHolds, IsCertificateFile, IsPemFile, pemVars
    <3> QED
      BY <3>1 DEF PemInv
  <2> QED
    BY <2>1, <2>2, <2>3, <2>4 DEF PemNext
<1> QED
  BY <1>1, <1>2 DEF PemInv

LEMMA PemInvSays ==
  ASSUME PemInv
  PROVE  FilesAreRead
<1>1. ASSUME NEW key, NEW length, NEW end, NEW e, KeyHolds(key, length, end, e)
      PROVE  FilesAreRead
  <2>1. key \in PemKeys /\ pemGiven = key /\ serCerData = <<>>
        /\ NumbersRead(key, FileOf(Len(DerKey(key)), length, e), pemStep, reader, pemRead)
    BY <1>1 DEF KeyHolds, IsKeyFile
  <2>2. /\ pemStep # "failed"
        /\ pemStep = "done" => Len(pemRead) = Len(key)
        /\ \A k \in 1 .. Len(pemRead) : pemRead[k] = LowestFirst(key[k], FieldSizes[k])
    BY <2>1 DEF NumbersRead
  <2>3. ASSUME NEW k \in 1 .. Len(pemRead) PROVE pemRead[k] = Number(k)
    BY <2>1, <2>2 DEF Number, LowestFirst
  <2>4. Len(key) = Len(FieldSizes)
    BY <2>1, KeyIs
  <2>5. \A i \in 1 .. Len(serCerData) : serCerData[i] = pemGiven[i]
    BY <2>1, EmptyIs
  <2> QED
    BY <2>2, <2>3, <2>4, <2>5 DEF FilesAreRead
<1>2. ASSUME NEW data, NEW n, NEW length, NEW end, NEW e, CertificateHolds(data, n, length, end, e)
      PROVE  FilesAreRead
  <2>1. pemGiven = data /\ pemRead = <<>> /\ IsPemFile(data, n, length, end, e)
        /\ BytesRead(data, n, FileOf(n, length, e), pemStep, reader, serCerData)
    BY <1>2 DEF CertificateHolds, IsCertificateFile
  <2>2. /\ pemStep # "failed"
        /\ pemStep = "done" => Len(serCerData) = n
        /\ IsSequence(serCerData)
        /\ \A k \in 1 .. Len(serCerData) : serCerData[k] = data[k]
    BY <2>1 DEF BytesRead
  <2>3. IsText(data, n, FileByte)
    BY <2>1 DEF IsPemFile
  <2>4. pemStep = "done" => serCerData = data
    <3> SUFFICES ASSUME pemStep = "done" PROVE serCerData = data
      OBVIOUS
    <3>1. Len(serCerData) = n /\ \A k \in 1 .. n : serCerData[k] = data[k] /\ data[k] \in FileByte
      BY <2>2, <2>3, TextIs
    <3>2. IsText(serCerData, n, FileByte)
      BY <2>2, <3>1, SequenceIs
    <3> QED
      BY <2>3, <3>1, <3>2, SameText
  <2>5. \A k \in 1 .. Len(pemRead) : pemRead[k] = Number(k)
    BY <2>1, EmptyIs
  <2> QED
    BY <2>1, <2>2, <2>4, <2>5 DEF FilesAreRead
<1> QED
  BY <1>1, <1>2 DEF PemInv

\* However long the lines of the file are and whichever of its numbers need a zero to stay
\* positive, priKeyInit and serCerInit read what OpenSSL wrote: PriKeyInit each number of the
\* private key into the bytes it is kept in, SerCerInit the whole certificate, and neither
\* takes a well formed file for a wrong one.
THEOREM FilesAreReadAlways == PemSpec => []FilesAreRead
<1>1. PemInit => PemInv
  BY PemStarts
<1>2. PemInv /\ [PemNext]_pemVars => PemInv'
  BY PemKeeps
<1>3. PemInv => FilesAreRead
  BY PemInvSays
<1> QED
  BY <1>1, <1>2, <1>3, PTL DEF PemSpec

=============================================================================
