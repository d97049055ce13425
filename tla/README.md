# Verification of LPC1768-Test

This directory holds a TLA+ development of the firmware in this repository: an
LPC1768 board that serves HTTP and HTTPS, switches Wiz lights over UDP and keeps
its settings in FRAM. The modules are checked with TLC, and part of what they
claim is proved with TLAPS. Everything is translated from the C source; comments
in the modules name the functions.

    tlc -config Tls.cfg MCTlsRsa
    tlc -config Wiz.cfg MCWiz
    tlc -config WizSched.cfg MCWizSched
    tlc -config Parts.cfg MCParts
    tlapm BasicProofs.tla
    tlapm CryptoProofs.tla
    tlapm RsaProofs.tla
    tlapm TlsClientsProofs.tla
    tlapm TlsRecordsProofs.tla
    tlapm ValuesLogProofs.tla
    tlapm WizDaysProofs.tla
    tlapm WizLightsProofs.tla

The proofs of the TLS server take about ten minutes from nothing, the others less.

## The system

There is no operating system and there are no threads. `main.c` (lines 38 to 48)
calls the `...Main` function of every part in turn, for ever; each does a bounded
piece of work and returns. So a function runs to its end before anything else
happens, and all concurrency is between the *steps* of long jobs: what one call
leaves in static variables is what the next call of another part finds. TCP, UDP,
HTTP, the clock and FRAM come from a shared library that is not in this
repository; they are modelled from how this code uses them and marked external.

| Part | State | Operations | Hard behaviour |
|---|---|---|---|
| RSA engine, `crypto/rsa/rsa.c` | four slots; the scratch numbers `hbis` and `h`, shared by the slots | `RsaStart`, `RsaFinished`, `RsaResult`, `RsaClear`; `RsaMain` does one small step of one slot | interleaved calculations over shared scratch; slots that are never cleared; 512 bit arithmetic |
| TLS server, `crypto/tls` | four connections, four sessions, both reused oldest first | `TlsRequest` (called by TCP with what a client sent), `TlsResponse` (polled by TCP), `TlsReset`, `TlsRequestMain` | the Finished races the decryption; entries evicted under their users; resumption; abandoned slots |
| Record protection, `tls-aes128cbc-sha`, `tls-prf.c`, `prf`, `tls-response.c` | the connection's sequence number and stream offset | encrypt, decrypt, derive keys | lengths and padding; positions in two streams |
| Keys and certificate, `crypto/pki` | the private key, the certificate | Base64 and DER reading at start-up | numbers with a zero in front or too short, line ends anywhere |
| Big numbers, `crypto/bignum` | none | add, subtract, shift, multiply, remainder, exponentiate, parse, show | carries through all words, a remainder that is a bit too long |
| Slow RSA engine, `rsa-slow.c` | four slots | as the RSA engine, for any exponent and modulus | slots reused meanwhile; its only caller is commented out |
| Hashes and ciphers, `sha`, `hmac`, `aes-cbc` | block buffers | add, finish | block boundaries, padding |
| Wiz light list, `wiz-list.c`, `wiz-send.c`, `wiz-recv.c` | the list of lights (FRAM and RAM), the request outstanding for each, one packet waiting to be sent | switch one, a room or all; move, delete; `WizListMain`; UDP in and out | lost, late and duplicated datagrams; editing while requests are outstanding; restarts |
| Wiz schedule, `wiz-sched.c`, `wiz-sun.c` | events | edit; `WizSchedMain` once a minute | midnight, daylight saving, sunrise |
| Settings, `settings.c` | some hundred values, in FRAM and in part in RAM | `SettingsInit`, getters and setters | found by order and width alone |
| Values logger, `board/values.c` | start time, count and records in FRAM; the upload under way | `ValuesInit`, `ValuesMain`, the TFTP client's `nextByteOfWriteStream` | power failure between the writes of a sample, samples appended during an upload, failed uploads; `main.c` does not call it |
| Web pages, `wiz/web`, `web-this` | none | queries call the parts above | index clamping |

How they interact: TCP hands a segment to `TlsRequest`; a ClientKeyExchange starts
a slot of the RSA engine through `pri-key.c`; `CryptoMain` runs `RsaMain` and then
`TlsRequestMain`, which collects a finished slot; TCP polls `TlsResponse`, which
polls HTTP once the handshake is done. HTTP queries switch lights and edit the
list; the schedule switches rooms; UDP answers come back to the list.

What makes each part correct:

* RSA engine: a slot ends with the decryption of its own message, whatever the
  other slots do; a started slot finishes.
* TLS server: a client that keeps to the protocol is served and never sees a
  record that fails its checks; a session resumes only under the secret its
  client knows; one connection's decryption does not reach another.
* Light list: a light is told what was asked of it last, and nothing else; a
  request outlives lost datagrams.
* Schedule: each event happens once a day, at its minute.
* Record protection: a client that follows RFC 5246 can open every record, and
  the payloads are the page, whole and in order, whatever windows TCP offers.
* Hashes, ciphers, numbers, key files: what the standards (or the integers) say,
  however the input is cut and whatever its length.
* Settings: a setting keeps its value, whatever else is written.
* Values logger: samples are handed over once each, in order, and in the end.

## The modules

### DecryptSlots: what the RSA engine promises

The abstract service of `rsa.h`: each slot is free, busy with a message or done
with its plain text. `RsaSlots` implements it and `TlsServer` is built on it, so
what TLC shows of the TLS server rests on a promise that is itself checked.

### RsaSlots: the RSA engine

`slots`, `hbis` and `h` are the static variables of `rsa.c`; `rsaAsked` is a history
variable (the message a slot was started with). One action per function and per
`case` of `iterate`; `RsaMain` chooses the slot with `IsChosen`. Numbers are
integers: what a multiplication, a remainder or a shift of `bn-arithmetic.c`
returns is taken as its mathematical result, except at the one place where 512
bits may not be enough (`Difference`, rsa.c line 85), which is modelled modulo
`Base` = 2^512. A failed `RsaStart` changes nothing and is no step.

`MCRsaSlots` gives it the key p = 13, q = 11, d = 103 and `Base` = 16: like the
primes of a real key, these fill their width, so `m1 + p` does overflow (message
21: m1 = 5, m2 = 10).

The engine is one side of the run **tls**: `MCTlsRsa` puts both sides of
`DecryptSlots` into one run, and in every behaviour `side` says whether the TLS
server works, on the slots as promised, or the engine that keeps the promise, while
the other stays as it began. Only the side that works is fair. What the properties
relate lies on one side. For the engine (3 slots, messages 21 and 95):

* `OneCalculation`: at most one slot is past STARTED. This is why shared scratch
  numbers are sound, and it follows from the order of the status values.
* `ResultIsOwn`: a finished result was put together from the slot's own parts.
* `ImplementsService`: `RsaSlots` refines `DecryptSlots`. The reference is
  `Decryption`: the two powers, one multiplication at a time (`Powers`), put
  together by Garner's formula with numbers of any width. This checks square and
  multiply, the overflow and the interleaving together. That `Decryption` is c^d
  modulo n for this key is `DecryptionIsPower` of `MCRsaSlots`, which TLC evaluates
  for all 143 messages.
* `BegunFinishes`, `AllFinishWhenQuiet`: what has begun is finished; what is
  merely started finishes if callers stop starting. The condition is needed: the
  first of equals is served, so a slot restarted for ever starves those above it.

Three slots are enough for two to wait while one is at work; the messages cover
the subtraction with and without the added p. Fairness: `RsaMain` is called on
every pass of the main loop, so weak fairness of `RsaMain` and of nothing else.

### TlsServer and TlsClients: the TLS server and its clients

`TlsServer` has the two tables, the handlers of `tls-request.c`, the responses of
`tls-response.c` and `TlsRequestMain`; `TlsClients` adds the clients and TCP.
Correspondence:

| Model | Code |
|---|---|
| `conns`, `connUsed`, `next` | `connections[]`, their `lastUsed`, the static pointer of `TlsConnectionGetNext` |
| `sessions`, `sessUsed` | `sessions[]` and their `lastUsed` |
| `job` | the slots of the RSA engine, as `DecryptSlots` |
| `running` | the call of `TlsRequest` or `handleContent` in progress |
| `TlsRequest`, `HandleContent` (`ClientHello` ...) | `TlsRequest` and one handler per record |
| `TlsRequestMain`, `TlsResponse`, `TlsReset` | the functions of those names |

Choices:

* *One call, several steps.* A call of `TlsRequest` handles all the records of a
  segment. It is one step per record, and while `running` is not empty nothing of
  the server runs; only a client's own steps come between.
* *Symbolic cryptography.* A master secret is the pair of the premaster secret
  and the connection whose randoms it was derived with; keys are the pair of the
  master secret and the connection. The handshake hash is the sequence of
  messages hashed. A record made with other keys decrypts to something that is no
  known handshake message and no request.
* *Time.* `lastUsed` is only compared, so it is kept as ranks; `Ticks` says
  whether two uses may fall in the same millisecond.
* *Out of bounds.* `slots[-1]` (see the findings) may look finished or not and
  holds `Garbage`. That clearing it overwrites other memory is left out.
* *Alerts* are in clear, as `addAlert` writes them whether or not the server has
  changed its cipher.
* *Left out.* `serverEncrypted` (set and never read), `clientSequence`,
  `clientHandshakeHash` (nothing depends on them: the server does not compare the
  client's verify value or MAC), alerts from the client (only logged), a record
  cut in two, and retransmission: `TlsResponse` is polled once per window.
  `deferredContent` holds one record: a Finished takes 69 of its 100 bytes and
  only the first record is handled.

Clients (external) do a full handshake or resume a completed session, check what
TLS makes them check, and reject what fails. A client that has read the server's
Finished takes nothing in clear: an alert it cannot open leaves it in phase
`unread`, one it can in `alerted` (`IsReadable`). `Cuts` says after which records a
segment may end, `Careless` which clients may send malformed records, `Impatient`
which may vanish at any time. Two history variables qualify properties: `late`
(a client's record came after its decryption was collected) and `short` (a key
exchange found no free RSA slot).

Run **tls** (2 clients, room for both, one careless, segments cut after the key
exchange and after the change of cipher): `TypeOK`; `NoClientRejects` (the
server's Finished is over the messages the client saw and under its keys, record
numbers are as the client counts them, and no established connection gets an alert
in clear while its session is in the table); `ValidSessionIsFixed` (a session's secret
is set once); `Served` (every client that behaves gets its response, unless its
Finished was late); `RefusedIsTold` (a malformed key exchange is answered with an
alert).

Run **tls_overload** (3 interchangeable clients, each of which may make mistakes
and give up, 2 connections, 1 session, 2 RSA slots, uses in the same millisecond
or not): entries are evicted while in use, slots are orphaned and run out.
`NoClientRejects` still holds, and as long as slots have not run out
`SessionHasItsMaster` and `WaitsForOwnSlot`. As many slots as connections are not
enough, because an evicted or reset connection leaves its slot occupied; this is
the proportion of the code (4 and 4), and it is why those two are stated with
`short`.

Fairness in **tls**: the main loop runs every part on each pass and TCP delivers
what was sent, so the server's steps, the polls, the deliveries and the clients'
reads are weakly fair. Connecting and giving up are not.

### WizList and WizLights: the light list, the network and the lights

`WizList` has the code, `WizLights` the world: users, UDP and the lights.

| Model | Code |
|---|---|
| `items[k]` | `mac`, `todo` and, as `lately`, whether `requestMadeTai` lies less than half a second back |
| `looked` | the static `i` of `WizListMain` |
| `packet` | `todo` and `_mac` of `wiz-send.c` |
| `WizListTurnIndex`, `WizListTurn`, `WizListTurnAll` | switching one entry (`lswi`), a room (the schedule), or all |
| `Move`, `Delete`, `WizListInit` | `lmov`, `ldel`; a restart |
| `MoveCutShort` | a power failure between the two FRAM writes of a MAC in `WizListMoveUp` or `WizListMoveDown`, and the restart |
| `Registration`, `Look` | the two things a call of `WizListMain` may do |
| `PollForPacketToSend`, `WizListStatusAdd`, `WizListReceivedSuccess` | UDP polling for a packet; a status; an answer to setPilot |

Choices:

* *Labels.* Names and rooms only select lights, so switching a room is switching
  any set of listed lights. `on`, signal, dimming and status time are only shown.
* *Time.* `IsDue` treats a request that was never made and one made half a second
  ago alike, so one Boolean stands for `requestMadeTai`. `Elapse` may happen at
  any time; the registration may come at any time too.
* *Datagrams* are lost when they are sent, or arrive once or more, in any order;
  `MaxFlying` bounds how many kinds are under way. What sends one that exceeds it
  loses one: loss is always allowed, so the bound hides no order of two.
* *History.* `asked` and `heard` are what a light was asked last and what it has
  heard since. `asked` is `Mixed`, and nothing is claimed, in exactly these cases:
  a request is made while a packet, command or answer of an earlier one is still
  under way (the code cannot tell to which request an answer belongs, so the new
  one may end unheard); a move or a new entry leaves the light with another's
  request, since `WizListMoveUp` and `ldel` do not touch `todo`; a light that gets
  its entry after a broadcast, which is not repeated to it.
* *Moves cut short.* A power failure between the two writes of a move leaves one
  light in two entries and another in none. `torn` records that it has happened.
  The code does not repair such a list, so from then on the properties below claim
  nothing but `TypeOK`: the second entry's request, for one, has no answer.
  `CutShort` says at which entries a run lets this happen.

Run **wiz** (2 lights, 2 entries, on and off, 2 datagrams under way, moves cut
short, lights and switches interchangeable):

* `TodoIsAsked`: what is sent again and what waits as the packet is never an
  earlier request's. `OnlyAskedIsHeard`: nor is what was under way and is heard.
* `AnsweredIsHeard`: the code stops asking only when the light has heard.
* `DistinctMacs`: no light has two entries, unless a move was cut short.
  `WizListReceivedSuccess` ends the
  request of the first one only, the second would be sent for ever.
* `TypeOK`: no packet is made for an empty entry.

Two lights are enough for one to be answered, moved or deleted while the other is
asked; two entries for the list to be full, and for `looked` to go round; two
datagrams for a command and an answer, or two opposite commands, to overtake.

Run **wiz_live** (no move is cut short): `m2` is in the list but no datagram reaches it. `RequestIsMet`:
`m1` hears each request in the end, and is then left alone, unless it is asked
something else. The premise that reordering stops is needed: a user who moves a
light away each time before its turn keeps it waiting. Fairness: `WizListMain`
looks again and again (strong, since now and then a registration comes first);
the library polls and the clock runs (weak); the network does not lose every
datagram to `m1`, nor every answer of it (strong); none arrives for ever.

### WizRecv: what is made of a light's datagram

`fields` are the variables of `decodePacket` that outlive the packet (`method`,
`rssi`, `success` ...), `passed` the call it makes: `WizListStatusAdd`,
`WizListReceivedSuccess` or none. `WizListStatusAdd` is, in `WizLights`, a status;
there a datagram stands for one answer of one light, and this module is why it
may. A packet is a sequence of brackets, colons, commas and texts; the code has no
stack, so the module has none either. `Rendered` is the light (external): an
object in another, in either order, with unknown names, and with fields left out.
Texts are shorter than the 20 characters of the code's arrays, whose end the code
does not check.

### WizSched and WizDays: the schedule and the days

`WizSched` has the items, the edits and the scan; `WizDays` the clock, the sun,
daylight saving, the user and restarts. `items` and `scanned` are the static
variables of `wiz-sched.c` (`minutesLastScan` is `scanned`); `clock` and `isSet`
stand for the clock library and `wiz-sun.c`, which `WizSchedMain` reads afresh
before each scan; `turned` is what the scans asked of each room last: in the code
that is a call of `WizListTurnRoom` or `WizListTurnAll`, in `WizList` the actions
`WizListTurn` and `WizListTurnAll`. Minutes are integers; a minute with an offset
may lie outside the day, as in the code. Edits take effect between two scans.

The limits of `subtractMinutes` are kept as three quarters and one quarter of
`Day`, so the run can use a day of eight parts with a summer time one ahead: every
order of on, off, midnight, sunrise and sunset still occurs, and all the durations
from the shortest to the longest.

Run **wiz_sched** (2 items, one room, a local event at midnight, events after
sunrise and sunset, two kinds of day):

* `ScanFollowsClock`: a scan turns a room as the clocks say. The reference reads
  the clock of each event (local, sunrise, sunset) where the code converts events
  to UTC and compares; and it takes the last item that has an event, where the
  code goes through all.
* `OnEnds`: each item turns off within eighteen hours what it turned on, over
  midnight and whatever the other items do. `onFor` counts, for each room and item,
  the minutes since the item turned the room on, until the room is off. This is
  what the duration test of `doSchedule` is for.
* `TypeOK`.

What `OnEnds` does not say:

* How long a *room* stays on. Items that take turns keep it on for longer: one from
  local midnight to an hour after sunrise and one from then to two hours after
  sunset, in the run, for 21 of the 24 hours. Each of them ends; when the second is
  on in the very minute in which the first is off, the room is the second's from
  there (`IsOverruled`).
* Items that are edited or moved while they are on, and restarts, forget what was
  turned on.
* When daylight saving changes, or the sun at midnight, which it does nearly every
  day, the events of items shift (`IsShifted`). An item that by the new clock is
  still on (`IsStillOn`) counts from its on event by that clock. One that is not,
  because its off event has been jumped over or because it now lasts eighteen hours
  or more and `doSchedule` skips it, leaves the room on until something else turns
  it off: that is what the code does, and `OnEnds` says nothing of it.
* Items with an event outside the day (`IsInDay`): the code never reaches that
  minute. `ScanFollowsClock` leaves these out too.

One room is enough since items do not relate rooms; two items interact in every way
a longer list does pairwise. The main loop is taken to come round within a minute
(`Tick`).

The web page limits the index of an edit to the list of lights (15 entries) and not
to the schedule (5). `MaxLights` of the run is one more than `MaxItems`: moving the
entry behind the last up, or the last down (see the findings), exchanges the last
item with `Behind`, one arbitrary item. What edits with these indices do to the
memory and the FRAM behind the schedule is left out.

### SampleLog and ValuesLog: the values logger

`SampleLog` is what a reader of the files relies on: a sample taken waits with
those before it, and all that wait are handed over together, once, in order.
`ValuesLog` is `values.c`: `start`, `count` and `data` are the FRAM, `tftp`,
`writeIndex`, `fileStart` and `file` the upload. `ValuesMain`, `ReadValues`,
`WriteValues` and `NextByteOfWriteStream` are the functions of those names.

* A sample is known by the time it was taken; its record (8 bytes in the code) by
  `RecordBytes` bytes that say which sample and which byte they are.
* `PowerFailure(k)` strikes after `k` of the three writes of a sample, in the
  code's order (start time, record, count), and `ValuesInit` follows.
* The TFTP client is external: it asks for bytes until there are no more, then
  closes; it may give up before. The settings may change between any two steps.

### FramSettings: the settings

`Allocated` is the list of `SettingsInit`, in its order, with the width that is
allocated, the bytes the setter writes and those that get a default; `Address`
adds the widths up as the allocator does (external, never full here). A byte of
the FRAM is who wrote it and at which call. The texts have 3 and 2 characters
instead of 63 and 12, and there are two lights and two events: the widths are
written with these constants, as in the code.

### Octets, Sha256, Sha1, Hmac, Hashes: the hashes

`Sha256` and `Sha1` are the buffering, padding and lengths of `sha256.c` and
`sha1.c`; `Hmac` is `hmac.c`, once for both. The compression function is a free
symbol: a digest names the blocks it was made of, and every byte of a block is a
term (`Octets`), so a byte too many, too few or in another place is another
digest. `Hashes` gives them a message in pieces, and reads the digest off a copy
now and then, as the TLS handshake hash is read. The reference is FIPS 180-4 and
RFC 2104. sha1.c line 124 shifts a 32 bit number by up to 56 places, which C
leaves undefined; the model has what the Cortex-M3's shift instructions do (zero).

### Aes128Cbc: the cipher

`aes128cbc.c` byte for byte, key schedule, rounds and chaining, forwards and
backwards, against the examples of FIPS 197 and SP 800-38A. Examples are all there
is to compare with: the cipher has no shorter definition than itself.

### TlsPrf and TlsRecords: the bytes of TLS

`TlsServer` treats a record as a message; `TlsRecords` is the bytes of it: the
hello, the certificate's flight, the change of cipher, Finished, and the content
records with their MAC, padding and length, for windows of several sizes. HMAC and
AES are free symbols. A client that follows RFC 5246 is the reference: it derives
its own keys (`KeyBlock`), numbers records from the change of cipher, and opens
each. `HttpAdd`, external, gives the bytes of the page from a position on;
`serverPositionInStreamOffset` turns TCP's position into that. Windows have at
least 57 bytes (`RecordsAssumption`): below that `payloadSize` of the code is
negative. How TCP sizes windows is not in the repository.

### PemFiles: the key and the certificate

`base64.c`, `pri-key.c` and the reader of `ser-cer.c`, one function each, on
the characters of a file that `PemOf` writes as OpenSSL does (external). `reader`
is the static state of `base64.c`. Only well-formed files are given: the files are
compiled into the program. The loops that skip characters are the place where they
stop (`Kept`, `LineEnd`).

### BigNumbers and RsaSlow

`BigNumbers` is `bn-arithmetic.c` and `bn-asm.s`, word by word. TLC has two words of
eight bits for the sixteen or thirty-two of thirty-two; the proofs have any number
of words of any number of hexadecimal digits. It is why `RsaSlots` and `RsaSlow` may
calculate with integers. `RsaSlow` is `rsa-slow.c`, one bit of the
exponent per pass, and implements `DecryptSlots` as `RsaSlots` does. Its
only caller is commented out (`web-system-html.c`), so it stands for itself.

### Run parts

The modules of this second half work by themselves, and are checked in one run:
in every behaviour `part` names one of them, which does its steps while the others
stay as they began. What their properties relate lies within one part, so nothing
is lost by that. The parts `cbc`, `hashes`, `records`, `pem` and `numbers` come to
an end, so deadlock is not an error here.

| Property | What it shows | Bounds, and why they do |
|---|---|---|
| `ValuesInv` | every counted record is whole and in order, the first at `start`, also after a torn sample | 3 samples, backups of 1 and 2 or off, 2 troubles (power failures or failed uploads): a full log, one with more behind it, a failure and another after it |
| `FileIsTheLog` | an upload is the log from its first byte, although samples are added meanwhile | the same |
| `ImplementsSampleLog` | `ValuesLog` refines `SampleLog`: no sample is lost or handed over twice | the same |
| `FullLogIsHandedOver` | a full log does not stay full while there is somewhere to send it | fairness: the main loop calls `ValuesMain`, a client that was asked goes on; troubles are finite |
| `SettingsAreKept` | no setter touches another's bytes; reset finds every value | any setting, then any other, a reset anywhere: damage is done by one write to one neighbour |
| `DigestIsOfMessage` | both hashes, pieces cut anywhere, copies finished meanwhile | pieces of 8, 55 and 65 up to 130 bytes: padding that fits a block and not, one and two blocks, pieces that span blocks |
| `MacIsHmac` | both HMACs | keys of 20, 48, 64 and 65 bytes: MAC key, master secret, a block, more than a block |
| `CbcIsAes` | the cipher on the published examples, and back | two blocks for the chaining |
| `RecordsOpen` | a client of RFC 5246 opens every record, full or resumed | windows 57, 68, 69 and 80: no payload, just before and just on a padding boundary, more |
| `PageArrives` | the payloads are the page, once and in order | a page of 24 bytes over those windows in any order: up to 6 records |
| `RecordsFit` | a content record never overfills its window | the same |
| `RequestsAreRead` | the server reads what the client sent | requests of 0, 11 and 12 bytes, paddings of 0, 11, 15, 16 and 255 where they make whole blocks |
| `FilesAreRead` | key and certificate are what is in the file | two keys with top bits set and not, numbers as long as their arrays and shorter, the three forms of a length (numbers of at most 70 bytes: TLC's stack; the proof has all), certificates of 5 to 7 bytes (the three paddings of base64), two line lengths, both line ends |
| `BnIsArithmetic`, `ModExpIsPower` | products, remainders, texts and powers are those of the integers; the power also as an invariant of each pass | operands at 0, 1, around a word, at the top bit |
| `SlowImplementsDecryptSlots` | each slot keeps to its own call | 2 slots, four calls, one without an exponent |
| `OnlyWhatIsSaidIsPassed` | a light's answer is passed on as it is, nothing of an earlier one with it | four reports, three methods, both orders: each datagram after any other |

### Findings

Each is a run that TLC must refute:

* **tls_no_slot**, `SlotIsChecked`: "Returns the slot or -1 on failure - you must
  check!" (rsa.c line 133). `handleClientKeyExchange` does not check.
* **tls_orphan**, `ResultsAreNeeded`: "This is for security - call it as soon as
  you no longer need the result." (rsa.c line 118). `zeroConnection` forgets the
  slot without clearing it.
* **tls_late**, `HandshakeCompletes`: the full handshake of `explanation.txt`. If
  the client's Finished arrives after the decryption has been collected it is
  deferred and nothing ever handles it, because the session is already valid.
* **tls_alert**, `AfterChangeAllIsEncrypted`: "Record that all outgoing messages are
  now encrypted" (tls-response.c line 136). `addAlert` does not look at it: when the
  session of an established connection has been evicted by other clients' hellos,
  `TlsResponse` ends the connection with an alert in clear, which a client that
  keeps to TLS cannot open. Two clients and one session are enough.
* **wiz_eighteen**, `EighteenHoursIsOk`: "Positive durations upto and including 18
  hours are ok" (wiz-sched.c line 89). Exactly eighteen is not: the item is
  ignored.
* **wiz_move_down**, `LastStaysLast`: "Cannot move further down" (line 198). The
  test uses the length of the list of lights, so the last item is exchanged with
  the memory behind the schedule.

## Proofs

Each theorem holds for every value of the constants that the named assumptions
admit. An assumption stands in the module that declares the constants, so TLC
evaluates it on the instances too. They say only what the code fixes: a list has
an entry, a prime fits its numbers, an id that stands for nothing is no client's.

| Theorem | States | Inductive invariant |
|---|---|---|
| `RsaProofs!TypeCorrect` | `RsaTypeOK` | itself |
| `OneAtATime`, `NoMixedResult` | `OneCalculation`, `ResultIsOwn` | `IInv` |
| `KeepsService` | `ImplementsService` | `ServiceInv` |
| `SlowKeepsPromise` | `SlowImplementsDecryptSlots` | `SlowInv` |
| `TlsClientsProofs!TypeCorrect` | `TypeOK` | `TlsInv` |
| `ServerKeepsToTls` | `NoClientRejects` | `TlsInv` and `AlertInv` |
| `SessionsHaveTheirMasters`, `SlotsAreNotMixedUp` | `SessionHasItsMaster`, `WaitsForOwnSlot` | `TlsInv` |
| `ValidSessionsAreFixed` | `ValidSessionIsFixed`, of every step | `TlsInv` |
| `WizLightsProofs!TypeCorrect`, `NoLightTwice` | `TypeOK`, `DistinctMacs` | themselves |
| `NothingElseIsSent`, `NothingElseIsHeard`, `AskedUntilHeard` | `TodoIsAsked`, `OnlyAskedIsHeard`, `AnsweredIsHeard` | `RequestInv` |
| `OnlyWhatIsSaidIsPassedAlways` | `OnlyWhatIsSaidIsPassed` | none: see below |
| `ValuesLogProofs!LogStaysWhole`, `TheLogIsSent` | `ValuesInv`, `FileIsTheLog` | `ValuesIInv` |
| `KeepsPromise` | `ImplementsSampleLog` | `ValuesIInv` |
| `SettingsAreKeptAlways` | `SettingsAreKept` | `SettingsInv` |
| `WizDaysProofs!TypeCorrect`, `WhatIsTurnedOnEnds` | `TypeOK`, `OnEnds` | `DaysInv` |
| `ScanByTheClock` | `ScanFollowsClock`, of every step | `DaysInv` |
| `TlsRecordsProofs!RecordsAlwaysOpen`, `PageAlwaysArrives`, `RequestsAreAlwaysRead`, `RecordsAlwaysFit` | `RecordsOpen`, `PageArrives`, `RequestsAreRead`, `RecordsFit` | `RecordsInv` |
| `FilesAreReadAlways` | `FilesAreRead` | `PemInv` |
| `CryptoProofs!DigestsAreOfMessages`, `MacsAreHmacs` | `DigestIsOfMessage`, `MacIsHmac` | `HashInv` |
| `NumbersAreIntegers`, `ModExpsArePowers` | `BnIsArithmetic`, `ModExpIsPower` | `BnInv` |

Where a strengthening was needed TLC checked it first, as an invariant, on the
instances of the runs (`TlsInv` on four: with and without clients that blunder or
give up, with one session or slot too few, with one connection). `RecordsInv` and
`HashInv` speak of sequences over infinite sets of bytes, which TLC cannot
enumerate, `BnInv` of sums for which it would have to guess, and `PemInv` of lines
of any length; there it checked the properties only.

### The RSA engines

`RsaAssumption`: positive primes that fit the width, natural numbers elsewhere.
`IInv` is the types, `OneCalculation`, `ScratchIsOwn` (the scratch numbers are
those of the slot that is about to use them) and `ResultIsOwn`. A slot only leaves
STARTED if none is past it, because `IsChosen` takes the highest status; so between
CALCULATE_HBIS and CALCULATE_R no other slot writes `hbis` or `h`; starts and
clears never touch a slot at work.

`ServiceInv` adds `Carries`: what each slot has of its halves. A half on its way
has `r` times the power of `m` to what is left of `e`; one pass of square and
multiply keeps that (`SquareAndMultiply`), and with no `e` left it is `r`. At the
end `DifferenceIsRight` shows that the lost carry of m1 + p is paid back by the
borrow of the subtraction. `KeepsService` supposes Q <= P + 1: p is added at most
once (rsa.c line 85), which suffices only if m2 - p does not exceed m1; OpenSSL
writes the larger prime first. `ChineseRemainder` says what `Decryption` is: below
P * Q, c^DP modulo P and c^DQ modulo Q, for every key whose QInv is the inverse of
Q. That this number is c^d modulo n is Fermat's theorem, not proved here; TLC
compares it for the key of the run.

For `rsa-slow.c` it is the same argument for one exponent (`SlowInv`,
`RsaSlowAssumption`).

Powers are a recursive function. What it computes is proved in `BasicProofs` for
all numbers although no theorem with an operator parameter can be used: `Least`
(a set of natural numbers that is not empty has a least one) follows from the
library's well-foundedness of the order, `Induction` from it in terms of a set,
and from that that the recursion has one solution (`PowersExist`, `PowersUnique`)
and satisfies its equation (`PowerModRecursion`).

### The TLS server

`TlsAssumption`: there is a connection, a session, a slot and a content, None is no
client, and time goes on or not. Nothing is supposed of `Cuts`, `Careless` and
`Impatient`, nor of how many clients there are.

That no client rejects anything relates the client's view to a table entry that may
have been given away and come back, to a session table that is smaller than the
number of clients, to slots that are not released, and to records in three places:
not yet sent on, in the segment under way, put by. `TlsInv` orders this as follows.

* The records of a client are numbered by their place in the longest exchange (1
  hello, 2 key exchange, 3 change cipher, 4 Finished, 5 application). `Received`
  and `Handled` say how far they have come; `RecordsOf` and `RunningInOrder` that
  what is still to come is the rest, in order.
* `EntryIsRight`: an entry whose client is still heard is in one of eleven
  situations, each of which fixes what has been handled, `toDo`, the session, the
  hash, the encryption, what is put by and what is on its way to the client.
  From `Fresh` over `NewDue`, `NewAnswered`, `Waits`, `ChangeDue`, `ChangeAnswered`
  to `Opened` it is the full handshake; `ResumeDue` and `ResumeAnswered` are the
  short one; `Astray` and `Refused` are the refusals. A client without an entry
  has nothing new coming.
* `FlightsOf`: what is on its way to a client it will accept when it reads it.
* `SessionsAreRight`: a session some client trusts, has been sent a Finished for,
  or has keys of in an entry holds that client's master secret.
* `WaitsForOwnSlot` and `SessionHasItsMaster`, which hold as long as slots suffice.
  After that a session may hold another's secret; `NoClientRejects` still holds,
  since the Finished put by then does not decrypt and the server never answers.
  That is why the situations do not rest on the slots.

* `AlertInv`, proved from `TlsInv`: a client that has an alert coming, or has read
  one it could not open, once its connection was established, has lost its session.

There is one lemma per action, under it one per situation the action can meet.
`OwnStep`, `EntryStep`, `HandlingStep` and `AnswerStep` collect what is common to
steps of a client, of an entry, of a handler and of a response.

`ValidSessionIsFixed` follows: `Collect` only takes a session that is not valid, and
a hello that makes a session is handled in `Fresh`, when its client has none
(`NoSessionOf`).

### The light list

`WizListAssumption`: the list has an entry; no MAC and nothing to do are no light
and no switch. `WizLightsAssumption`: `Mixed` is no switch.

`TypeOK` is inductive; the point is `Looking`, where `IsDue` has to exclude empty
entries that kept something to do. `DistinctMacs` is inductive with it: requests,
looks, answers and restarts leave the MACs where they are, a move swaps two, a
status adds one that was in no entry (`NewEntry`). A move that is cut short breaks
it, and `torn` stays true from then on (`TornStays`).

`OnlyAskedIsHeard` and `AnsweredIsHeard` are not: what a light hears next depends
on what is under way. `RequestInv` says of each light whose history is not mixed
that the list, if no move was cut short, has outstanding for it what it was asked
last, or nothing and then it has heard it (`ListIsCurrent`); and that each command, packet and answer under way
is of that request (`NetIsCurrent`). Whether a request is recorded as `Mixed` is
decided by exactly what is under way, which is why this is preserved.

### The lights' datagrams

`WizRecvAssumption`: a report tells each thing once and names no method in its
inside, and a method is a text and no punctuation. `OnlyWhatIsSaidIsPassed` needs
no invariant of the fields, and that is the point of it: what is decoded starts
from `Clear`, whatever an earlier datagram left. The work is the reader without a
stack. A datagram has one of two forms, the method before the object or behind it,
and for each the place of every text and character is known (`IsMethodFirst`,
`IsMethodLast`). `DecodeToken` goes over them as a recursive function (`Decoding`);
`PairRead` and `ObjectRead` are the steps that read a pair or begin an object, `MembersRead` goes over the members by induction, and `DatagramRead`
puts the two forms together. Then `PassedIs` compares what was read with what the
light meant.

### The values logger

`RecordBytesAssumption`, `WriteSizesAssumption`, `BoundsAssumption`: sizes are
natural numbers, a record is not empty. `ValuesInv` is inductive; the three writes
of a sample are taken one at a time, and since the count is the last a failure
leaves whole records only (`WritesKeepWhole`). `FileIsTheLog` also needs
`SentIsCurrent`: during an upload the log is not empty and its start is the one the
file is named by, because only an empty log is given another. `KeepsPromise` maps
each step to one of `SampleLog`, or to a stutter, with the waiting samples the
records counted.

### The settings

`FramAssumption`: a label has a character, the other widths are natural numbers.
`Fits` says of each allocation that what its setter writes and what its default
fills lie within its width, and `FitAllocated` shows it for all of them at once; the
addresses add up (`UsedGrows`), so the bytes of two settings are apart
(`BytesAreOwn`). `SettingsInv` says whose call each byte is of: a setter's new bytes
are its own, another's stay, and a reset gives a default only to what was never set.
The layout of `SettingsInit` is a list of some hundred widths, so this is what a
mistake in one of them would break.

### The schedule

`WizSchedAssumption`, `WizDaysAssumption`: a day of a multiple of four minutes,
offsets within it. `OnEnds` bounds a history variable. `DaysInv` says where that
bound comes from: as long as `onFor` counts for a room and an item, that item
`WillEnd` it: its on event was that many minutes ago, its off event comes less than
eighteen hours after, and when that minute is now it has not been scanned. A scan of
the off event leaves the room off or to a later item (`OffComes`); a minute that goes
by brings it nearer (`MinuteNearer`), and after a shift of the clock what is counted
is what `IsStillOn` says (`StillOnWillEnd`). `ScanByTheClock` shows that the
last item with an event, by the clock of each event, is what the code's pass over
all items leaves: `Least` for the last, `EventInDay` for the conversion to UTC.

### The records of TLS

`RecordsAssumption`: windows have at least 57 bytes; a certificate fits the two
bytes of a message's size; a padding is a byte; pages and requests have any length.

`KeysAreThoseOfTheRfc` unfolds both key blocks. `EncryptOpens` is about any payload:
what `encrypt` adds (`PaddingMakesBlocks`) a client can take away again, and it
finds the MAC of the number it counts. `HeaderIs`, `GoesOn` and
`HelloCertificateDone` find the messages in the server's first flight by their
sizes alone, as a client does. `RecordsInv` then says of the records sent: the
first three are the handshake's (`HandshakeSent`); each later one is the page
between two places that follow one another (`ArePage`, `PageGoesOn`), the last being
where TCP's window stands; and of each request that the server read it.

### The files

`PemAssumption`: the numbers of a key fit their arrays and have no zeros on top, a
certificate has 1 to 1024 bytes (`SerCerData`), lines have at least a character and
end with LF or CR LF. The proof takes the two formats apart. `PemIs` and
`LinesAre` say which character stands where in the text, so that for each character
of the base64 there is a place, and what lies between two of them is skipped
(`IsFile`; `FileIs`). The reader after k bytes is therefore one value, `ReaderAt`:
`ByteIsRead` goes from it to the next for each of the three positions in a group,
`ReadEndIs` finds the end whether it has no, one or two characters of padding.
`DerLengthIs` and `readLengthIs` do the three forms of a length; `KeyStands` says at
which `Offset` each number of the key begins, whatever the sizes before it, and
`NumberRead` that `readData` there gives the number, turned round, without the zero
that kept it positive. `PemInv` says that the reader is where what has been read ends.

### The hashes

`HashesAssumption`: what is hashed, with the block a key fills, has fewer than 2^31
bits. The lemmas are about messages over any set of bytes. `AreHeld` relates a
running hash to a message: q blocks of it have been compressed and the r bytes behind
them are in the buffer. Once round the loop of `Sha256Add` or `Sha1Add` keeps
that (`Sha256TakenIs`, `Sha1BufferedIs`); `Loop` turns the recursive function into
an induction, and the loop goes round often enough (`Sha256AddIs`, `Sha1AddIs`).
The padding is that of the standard whether it fits the block or takes another
(`PaddedMessageIs`, `LastBlockIs`; SHA-1 adds it a byte at a time), so that
`Sha256FinishIs` and `Sha1FinishIs`: what is finished is the digest of the message.
`HashInv` says this of both running hashes, and of those in the MACs for the text
that begins with the padded key. A long key is hashed first, and that hash is a digest by the same
lemmas, as is the outer one.

### The big numbers

`BnAssumption`: there is a word, of some hexadecimal digits; the integers of the
calls fit, a modulus is not zero. `IsNumber` relates the words to the integer: they
are in range and the integer is the last of the sums of the words times their
places (`IsSum`). For sums: there is one for all digits (`SumsExist`), it determines
the integer (`SumsAgree`), it is less than the power of the base (`SumsBound`), and
the integer determines the digits (`RemaindersOfDigits`).

Each function is then one fact about digits. In an addition or a subtraction the
carries cancel all along (`Carried`), so only the last one is lost, and in
`Bn1024Mul2048` that is none since a product fits (`ProductFits`, `AddedIs`). The
highest word that differs decides (`HighestDecides`), so `BnCmp` compares the
integers. `BnRem` is long division: the remainder so far is that of the bits so far
(`RemainderTakenIs`); when a bit comes out, the subtraction borrows it back. Bits of
words are bits of the number, and hexadecimal digits of words those of the number,
since digits may be taken in blocks (`SumsOfBlocks`, `DigitsOfNumber`). `BnInv` says
of each call what integer the words are; for an exponentiation the message, the
exponent and the result so far, and that `SquareAndMultiply` still leads to the power.
With these, `RsaProofs` may speak of integers.

### What is shared

`BasicProofs` has what several proofs need: induction for a set, remainders, powers,
recursive functions over numbers with any values (`Recursion`, `RecursionUpTo`, by
which the definitions above are unfolded once and for all), and sequences of a known
length: `IsText`, what putting two together makes (`ConcatIs`), a part
(`SubText`), and equality.

### What is not proved

Liveness under fairness (`BegunFinishes`, `AllFinishWhenQuiet`, `Served`,
`RefusedIsTold`, `RequestIsMet`, `FullLogIsHandedOver`) is beyond the provers and
stays with TLC. So does `CbcIsAes` of `Aes128Cbc`, which needs `Bitwise`: the
provers cannot read it, and it compares published examples, of which there are
only those.

## Plan

Done: the RSA engines, the TLS server and its records, the light list and its
datagrams, the schedule, the values logger, the settings, the algorithms; the proofs
of all of these but AES. Left:

1. *Light list*: names and rooms, of which a move copies too little.
2. *Schedule*: the interpolation of `wiz-sun.c`, and the switch buttons (`sswi`),
   which take their room from the list of lights.

## Not modelled

* Page formatting, logging and the makefile: text, with no state of their own. The
  queries that change something are actions of the modules they change.
* The compression functions of SHA-1 and SHA-256: like AES they have no shorter
  definition than themselves, and the repository has no examples for them.
* AES-GCM (`crypto/aes-gcm`): third-party code that nothing calls.
* `TlsPrfClientFinished` and the MAC of a received record: computed and not used.
* `BnOrr`, `BnIne`, `TlsSessionReset`: nothing calls them.
* A record cut between two TCP segments, and retransmission of a window: what the
  TCP library does then is not in the repository.
* The shared library (TCP, UDP, HTTP, TFTP, clock, FRAM) beyond how this code uses
  it.
