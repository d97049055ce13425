------------------------------ MODULE PemFiles ------------------------------
(***************************************************************************)
(* crypto/pki: how the private key and the certificate get from the text   *)
(* that is compiled into the program (PEM: base64 in lines) to the numbers *)
(* of RSA and the bytes of the hello, when the program starts.             *)
(***************************************************************************)
EXTENDS Integers, Sequences

CONSTANTS PemKeys,      \* private keys: nine numbers, each its bytes, highest first, no zeros before
          Certificates, \* sequences of bytes
          LineLengths,  \* of the lines of base64
          LineEnds      \* sequences of characters

\* v, n, e, d, p, q, dp, dq, invq
FieldSizes == <<4, 128, 4, 128, 64, 64, 64, 64, 64>>

\* The numbers fit their arrays, and a certificate SerCerData; it is not empty, and
\* lines end as lines do.
ASSUME PemAssumption ==
  /\ \A key \in PemKeys :
       /\ key \in Seq(Seq(0 .. 255)) /\ Len(key) = Len(FieldSizes)
       /\ \A k \in 1 .. Len(key) :
            Len(key[k]) <= FieldSizes[k] /\ (key[k] # <<>> => key[k][1] # 0)
  /\ \A certificate \in Certificates :
       certificate \in Seq(0 .. 255) /\ Len(certificate) \in 1 .. 1024
  /\ LineLengths \subseteq Nat \ {0}
  /\ LineEnds \subseteq {<<10>>, <<13, 10>>}

VARIABLES pemGiven,  \* the key or the certificate in the file
          pemText,   \* the file: the codes of its characters
          reader,    \* of the file: next character, last6, posn and finished of base64.c
          pemRead,   \* the numbers of the key that have been read, lowest byte first
          serCerData, pemStep

pemVars == <<pemGiven, pemText, reader, pemRead, serCerData, pemStep>>

NewLine == 10
Failed == -1

-----------------------------------------------------------------------------
(* Each of these gives what the function returns, c, and the reader after it. *)

\* readChar: 0 at the end of the file, for ever.
readChar(r) ==
  IF r.next > Len(pemText) THEN [c |-> 0, r |-> r]
  ELSE [c |-> pemText[r.next], r |-> [r EXCEPT !.next = @ + 1]]

Sixth(c) ==
  CASE c \in {0, 45, 61} -> Failed   \* the end, '-' and '='
    [] c = 47 -> 63
    [] c = 43 -> 62
    [] c >= 97 -> c - 97 + 26
    [] c >= 65 /\ c < 97 -> c - 65
    [] OTHER -> c - 48 + 52

IsSkipped(c) == c < 48 /\ c \notin {0, 43, 45, 47}

\* Where the next character is that is not skipped; the end is not.
Kept(next) ==
  CHOOSE i \in next .. Len(pemText) + 1 :
    /\ i <= Len(pemText) => ~ IsSkipped(pemText[i])
    /\ \A j \in next .. i - 1 : IsSkipped(pemText[j])

get6bits(r) ==
  LET char == readChar([r EXCEPT !.next = Kept(@)])
  IN  [c |-> Sixth(char.c), r |-> char.r]

\* The byte made of what is left over and the next six bits.
WithLast(posn, last6, this6) ==
  IF posn = 1 THEN ((last6 * 16) % 256) + (this6 \div 4) ELSE ((last6 * 64) % 256) + this6

Base64ReadByte(r) ==
  LET this == get6bits(r)
      second == get6bits(this.r)
  IN  CASE r.finished -> [c |-> Failed, r |-> r]
        [] ~ r.finished /\ this.c = Failed -> [c |-> Failed, r |-> this.r]
        [] ~ r.finished /\ this.c # Failed /\ r.posn = 0 ->
             LET last6 == IF second.c = Failed THEN 0 ELSE second.c
             IN  [c |-> this.c * 4 + (last6 \div 16),
                  r |-> [next |-> second.r.next, last6 |-> last6, posn |-> 1,
                         finished |-> second.c = Failed]]
        [] OTHER ->
             [c |-> WithLast(r.posn, r.last6, this.c),
              r |-> [next |-> this.r.next,
                     last6 |-> IF r.posn = 1 THEN this.c ELSE r.last6,
                     posn |-> (r.posn + 1) % 3, finished |-> FALSE]]

\* Where the line ends, or the text.
LineEnd(next) ==
  CHOOSE i \in next .. Len(pemText) + 1 :
    /\ i <= Len(pemText) => pemText[i] = NewLine
    /\ \A j \in next .. i - 1 : pemText[j] # NewLine

Base64SkipLine(r) ==
  LET char == readChar([next |-> LineEnd(r.next), last6 |-> 0, posn |-> 0, finished |-> FALSE])
  IN  [c |-> IF char.c = 0 THEN Failed ELSE 0, r |-> char.r]

\* n bytes, or those before the end.
readBytes(r, n) ==
  LET read[i \in 0 .. n] ==
        IF i = 0 THEN [c |-> 0, bytes |-> <<>>, r |-> r]
        ELSE LET last == read[i - 1]
                 byte == Base64ReadByte(last.r)
             IN  IF last.c = Failed THEN last
                 ELSE IF byte.c = Failed THEN [c |-> Failed, bytes |-> last.bytes, r |-> byte.r]
                 ELSE [c |-> 0, bytes |-> Append(last.bytes, byte.c), r |-> byte.r]
  IN  read[n]

\* The number that some bytes are, the highest first.
NumberIn(bytes) ==
  LET len[i \in 0 .. Len(bytes)] == IF i = 0 THEN 0 ELSE len[i - 1] * 256 + bytes[i]
  IN  len[Len(bytes)]

\* The length that begins with a byte that has been read.
LengthFrom(first) ==
  LET rest == readBytes(first.r, first.c - 128)
  IN  IF first.c < 128 THEN first
      ELSE [c |-> IF first.c = 128 \/ rest.c = Failed THEN Failed ELSE NumberIn(rest.bytes),
            r |-> rest.r]

readLength(r) == LengthFrom(Base64ReadByte(r))

\* A type and the length behind it: Failed if it is not that type.
readHeader(r, type) ==
  LET first == Base64ReadByte(r)
  IN  IF first.c = type THEN readLength(first.r) ELSE [first EXCEPT !.c = Failed]

readSequence(r) == readHeader(r, 48)

\* Mutant: a zero at the top, which keeps the number positive, is written too.
LittleEndianWithZero(bytes, size) ==
  [i \in 1 .. (IF Len(bytes) > size THEN Len(bytes) ELSE size) |->
     IF i <= Len(bytes) THEN bytes[Len(bytes) + 1 - i] ELSE 0]

\* The other way round, without a zero at the top, and filled up with zeros.  data is
\* what is written: more than size bytes if the number is longer.
LittleEndian(bytes, size) ==
  LET last == IF bytes # <<>> /\ bytes[1] = 0 THEN Len(bytes) - 1 ELSE Len(bytes)
  IN  [i \in 1 .. (IF last > size THEN last ELSE size) |->
         IF i <= last THEN bytes[Len(bytes) + 1 - i] ELSE 0]

\* What is behind a header.
DataFrom(header, size) ==
  LET body == readBytes(header.r, header.c)
  IN  IF header.c = Failed THEN header
      ELSE [c |-> body.c, r |-> body.r, data |-> LittleEndian(body.bytes, size)]

readData(r, size) == DataFrom(readHeader(r, 2), size)

-----------------------------------------------------------------------------
\* External: what OpenSSL makes of a key or a certificate.
Alphabet(n) ==
  CASE n < 26 -> n + 65 [] n \in 26 .. 51 -> n + 71 [] n \in 52 .. 61 -> n - 4
    [] n = 62 -> 43 [] n = 63 -> 47

\* Character i of the base64 of some bytes.
Encoded(bytes, i) ==
  LET at(k) == IF k <= Len(bytes) THEN bytes[k] ELSE 0
      group == 3 * ((i - 1) \div 4)
      place == (i - 1) % 4
  IN  IF place > 1 /\ group + place > Len(bytes) THEN 61
      ELSE Alphabet(CASE place = 0 -> at(group + 1) \div 4
                      [] place = 1 -> (at(group + 1) % 4) * 16 + (at(group + 2) \div 16)
                      [] place = 2 -> (at(group + 2) % 16) * 4 + (at(group + 3) \div 64)
                      [] place = 3 -> at(group + 3) % 64)

\* Lines of as many characters; the last may have fewer.
Lines(chars, length, end) ==
  LET lines == (Len(chars) + length - 1) \div length
  IN  [i \in 1 .. Len(chars) + lines * Len(end) |->
         LET line == (i - 1) \div (length + Len(end))
             column == (i - 1) % (length + Len(end))
             own == IF line = lines - 1 THEN Len(chars) - line * length ELSE length
         IN  IF column < own THEN chars[line * length + column + 1] ELSE end[column - own + 1]]

PemOf(bytes, length, end) ==
  <<45, 45, 66, 45>> \o end
    \o Lines([i \in 1 .. 4 * ((Len(bytes) + 2) \div 3) |-> Encoded(bytes, i)], length, end)
    \o <<45, 45, 69, 45>> \o end

DerLength(n) ==
  CASE n < 128 -> <<n>> [] n \in 128 .. 255 -> <<129, n>> [] n > 255 -> <<130, n \div 256, n % 256>>

DerInteger(number) ==
  LET bytes == IF number = <<>> \/ number[1] >= 128 THEN <<0>> \o number ELSE number
  IN  <<2>> \o DerLength(Len(bytes)) \o bytes

DerIntegers(numbers) ==
  LET integers[k \in 0 .. Len(numbers)] ==
        IF k = 0 THEN <<>> ELSE integers[k - 1] \o DerInteger(numbers[k])
  IN  integers[Len(numbers)]

DerKey(key) == LET body == DerIntegers(key) IN <<48>> \o DerLength(Len(body)) \o body

-----------------------------------------------------------------------------
PemInit ==
  /\ \E length \in LineLengths, end \in LineEnds :
       \/ /\ pemGiven \in PemKeys /\ pemStep = "key"
          /\ pemText = PemOf(DerKey(pemGiven), length, end)
       \/ /\ pemGiven \in Certificates /\ pemStep = "certificate"
          /\ pemText = PemOf(pemGiven, length, end)
  /\ reader = [next |-> 1, last6 |-> 0, posn |-> 0, finished |-> FALSE]
  /\ pemRead = <<>> /\ serCerData = <<>>

\* PriKeyInit up to the first number, and SerCerInit up to the first byte.
SkipHeader ==
  LET line == Base64SkipLine(reader)
      sequence == readSequence(line.r)
  IN  /\ pemStep \in {"key", "certificate"}
      /\ reader' = IF pemStep = "key" THEN sequence.r ELSE line.r
      /\ pemStep' = CASE line.c = Failed \/ (pemStep = "key" /\ sequence.c = Failed) -> "failed"
                      [] line.c # Failed /\ pemStep = "certificate" -> "bytes"
                      [] OTHER -> "numbers"
      /\ UNCHANGED <<pemGiven, pemText, pemRead, serCerData>>

\* One call of PriKeyInit's readData.
ReadNumber ==
  LET k == Len(pemRead) + 1
      number == readData(reader, FieldSizes[k])
  IN  /\ pemStep = "numbers"
      /\ reader' = number.r
      /\ IF number.c = Failed
         THEN pemStep' = "failed" /\ UNCHANGED pemRead
         ELSE /\ pemRead' = Append(pemRead, number.data)
              /\ pemStep' = IF k = Len(FieldSizes) THEN "done" ELSE "numbers"
      /\ UNCHANGED <<pemGiven, pemText, serCerData>>

\* One turn of the loop of SerCerInit's readData.
ReadCertificateByte ==
  LET byte == Base64ReadByte(reader)
  IN  /\ pemStep = "bytes"
      /\ reader' = byte.r
      /\ IF byte.c = Failed
         THEN pemStep' = "done" /\ UNCHANGED serCerData
         ELSE serCerData' = Append(serCerData, byte.c) /\ UNCHANGED pemStep
      /\ UNCHANGED <<pemGiven, pemText, pemRead>>

PemNext == SkipHeader \/ ReadNumber \/ ReadCertificateByte

PemSpec == PemInit /\ [][PemNext]_pemVars

-----------------------------------------------------------------------------
(***************************************************************************)
(* Properties                                                              *)
(***************************************************************************)

\* Number k of the key, lowest byte first.
Number(k) ==
  LET bytes == pemGiven[k]
  IN  [i \in 1 .. FieldSizes[k] |-> IF i <= Len(bytes) THEN bytes[Len(bytes) + 1 - i] ELSE 0]

\* The numbers that are read are those of the file, whether or not a zero had to
\* keep them positive and however long they are; a certificate is read byte by
\* byte to its end; and no file that is well formed fails.
FilesAreRead ==
  /\ pemStep # "failed"
  /\ \A k \in 1 .. Len(pemRead) : pemRead[k] = Number(k)
  /\ \A i \in 1 .. Len(serCerData) : serCerData[i] = pemGiven[i]
  /\ pemStep = "done" => Len(pemRead) = Len(FieldSizes) \/ serCerData = pemGiven

=============================================================================
