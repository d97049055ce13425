-------------------------- MODULE TlsClientsProofs --------------------------
(***************************************************************************)
(* For any number of clients, connections, sessions, slots and contents:   *)
(* nothing the server sends fails at a client that keeps to TLS, but the   *)
(* alert in clear of an open connection whose session is lost.             *)
(***************************************************************************)
EXTENDS TlsClients, BasicProofs, FiniteSetTheorems, SequenceTheorems

-----------------------------------------------------------------------------
(***************************************************************************)
(* The types of all the variables                                          *)
(***************************************************************************)
Masters == {<<>>} \cup ((Clients \cup {Garbage}) \X Clients)
AllKeys == {NoKeys} \cup (Masters \X Clients)

Records ==
  {Hello(s) : s \in Clients \cup {None}} \cup {KeyExchange(c) : c \in Clients}
    \cup {Finished(k) : k \in AllKeys} \cup {Application(k) : k \in AllKeys}
    \cup {ChangeCipher, ShortHello, ShortKeyExchange, Heartbeat, NoRecord}

PutByRecords == {NoRecord} \cup {Finished(k) : k \in AllKeys}

MessageNames == HandshakeTypes \cup {ServerHello, ServerFinished}

Connection ==
  [id : Clients \cup {None}, toDo : ToDos, sessionId : Clients \cup {None},
   resume : BOOLEAN, handshakeSha : Seq(MessageNames), clientEncrypted : BOOLEAN,
   deferred : PutByRecords, serverSequence : Nat, slot : Rsa!Slot \cup {NoSlot},
   keys : AllKeys]

Session == [id : Clients \cup {None}, valid : BOOLEAN, master : Masters]

Call == [index : ConnIndex, records : Seq(Records), deferring : BOOLEAN]

Flights ==
  {HelloNew, Alert}
    \cup [kind : {"helloResume", "change"}, keys : AllKeys, sequence : Nat, sha : Seq(MessageNames)]
    \cup [kind : {"content"}, keys : AllKeys, sequence : Nat, last : BOOLEAN]

Phases == {"new", "hello", "astray", "keyed", "careless", "open", "done", "alerted", "unread", "gone"}

Peer == [phase : Phases, session : Clients \cup {None}, contents : Nat]

ServerTypes ==
  /\ conns \in [ConnIndex -> Connection]
  /\ connUsed \in [ConnIndex -> Nat]
  /\ next \in ConnIndex
  /\ sessions \in [SessIndex -> Session]
  /\ sessUsed \in [SessIndex -> Nat]
  /\ job \in [Rsa!Slot -> Rsa!Jobs]
  /\ ~ Idle => running \in Call /\ running.records # <<>>
  /\ http \subseteq Clients /\ over \subseteq Clients
  /\ out \in [Clients -> Seq(Flights)]

ClientTypes ==
  /\ peer \in [Clients -> Peer]
  /\ sent \in [Clients -> Seq(Records)]
  /\ begun \subseteq Clients
  /\ short \in BOOLEAN

(***************************************************************************)
(* The records of a client are numbered by their place in the longest      *)
(* exchange: 1 hello, 2 key exchange, 3 change cipher, 4 finished,         *)
(* 5 application.  A client that resumes a session sends no number 2.      *)
(***************************************************************************)
SentAt(c, q, r) ==
  LET keys == Keys(peer[c].session, c) IN
  \/ q = 1 /\ Phase(c) = "hello" /\ r = Hello(peer[c].session)
  \/ q = 1 /\ Phase(c) = "astray" /\ r \in {ShortHello, Heartbeat}
  \/ q = 2 /\ Phase(c) = "keyed" /\ r = KeyExchange(c)
  \/ q = 2 /\ Phase(c) = "careless" /\ r = ShortKeyExchange
  \/ q = 3 /\ Phase(c) \in {"keyed", "careless", "open"} /\ r = ChangeCipher
  \/ q = 4 /\ Phase(c) \in {"keyed", "careless", "open"} /\ r = Finished(keys)
  \/ q = 5 /\ Phase(c) = "open" /\ r = Application(keys)

\* The number of the last record a client in this phase has sent.
LastPlace(phase) ==
  IF phase \in {"hello", "astray"} THEN 1
  ELSE IF phase \in {"keyed", "careless"} THEN 4
  ELSE 5

\* Clients the server still hears.
Live(c) == Phase(c) \in {"hello", "astray", "keyed", "careless", "open"} /\ c \notin over

\* The numbers of the records the server has received, and has handled.
Received(c) == LastPlace(Phase(c)) - Len(sent[c])
LeftOf(i) == IF ~ Idle /\ running.index = i /\ running.deferring THEN Len(running.records) ELSE 0
Handled(i) == Received(conns[i].id) - LeftOf(i)

RecordsOf(c) ==
  Live(c) => \A j \in 1 .. Len(sent[c]) : SentAt(c, Received(c) + j, sent[c][j])

RunningInOrder ==
  ~ Idle =>
    LET c == conns[running.index].id IN
    /\ c \in Clients /\ Live(c)
    /\ running.deferring =>
         \A j \in 1 .. Len(running.records) :
           SentAt(c, Handled(running.index) + j, running.records[j])

-----------------------------------------------------------------------------
(***************************************************************************)
(* What is on its way to a client                                          *)
(***************************************************************************)
AfterHello == <<"hello", ServerHello>>
AfterKeyExchange == <<"hello", ServerHello, "keyExchange">>
AfterFinished == <<"hello", ServerHello, "keyExchange", "finished">>

ResumeFlight(c) == FinishedFlight("helloResume", Keys(peer[c].session, c), 0, AfterHello)
ChangeFlight(c) == FinishedFlight("change", Keys(c, c), 0, AfterFinished)

FlightIsRight(c, j) ==
  LET f == out[c][j] IN
  \/ f = Alert /\ j = Len(out[c]) /\ c \in over
  \/ f = HelloNew /\ j = 1 /\ Phase(c) = "hello" /\ sent[c] = <<>>
  \/ /\ f = ResumeFlight(c) /\ j = 1 /\ Phase(c) = "hello" /\ sent[c] = <<>>
     /\ peer[c].session # None
  \/ f = ChangeFlight(c) /\ j = 1 /\ Phase(c) = "keyed" /\ sent[c] = <<>>
  \/ /\ Phase(c) = "open"
     /\ \E last \in BOOLEAN :
          /\ f = Content(Keys(peer[c].session, c), peer[c].contents + j, last)
          /\ last => j = Len(out[c]) /\ c \in over

FlightsOf(c) == \A j \in 1 .. Len(out[c]) : FlightIsRight(c, j)

-----------------------------------------------------------------------------
(***************************************************************************)
(* The entry of a client, with what it has handled                         *)
(***************************************************************************)
NoSessionOf(c) == \A k \in SessIndex : sessions[k].id # c

\* The first segment has come, none of it has been handled.
Fresh(c, p, q) ==
  /\ Phase(c) \in {"hello", "astray"} /\ q = 0 /\ out[c] = <<>>
  /\ p.toDo = "WAIT_CLIENT_HELLO" /\ p.sessionId = None /\ ~ p.clientEncrypted
  /\ p.handshakeSha = <<>> /\ p.keys # Keys(c, c) /\ p.deferred = NoRecord
  /\ p.serverSequence = 0
  /\ NoSessionOf(c)

Astray(c, p, q) ==
  /\ Phase(c) = "astray" /\ q = 1 /\ out[c] = <<>>
  /\ p.sessionId = None /\ p.toDo # "WAIT_DECRYPT_MASTER_SECRET"

\* A new session: its hello is to be answered, or has been.
NewDue(c, p, q) ==
  /\ Phase(c) = "hello" /\ q = 1 /\ out[c] = <<>>
  /\ p.toDo = "SEND_SERVER_HELLO_NEW" /\ p.sessionId = c /\ ~ p.resume
  /\ p.handshakeSha = <<"hello">> /\ ~ p.clientEncrypted /\ p.keys # Keys(c, c)
  /\ p.deferred = NoRecord

NewAnswered(c, p, q) ==
  /\ \/ Phase(c) = "hello" /\ out[c] = <<HelloNew>>
     \/ Phase(c) \in {"keyed", "careless"} /\ out[c] = <<>>
  /\ q = 1
  /\ p.toDo = "WAIT_CLIENT_CHANGE" /\ p.sessionId = c /\ ~ p.resume
  /\ p.handshakeSha = AfterHello /\ ~ p.clientEncrypted /\ p.keys # Keys(c, c)
  /\ p.deferred = NoRecord

\* An old session, likewise.
ResumeDue(c, p, q) ==
  /\ Phase(c) = "hello" /\ q = 1 /\ out[c] = <<>>
  /\ peer[c].session \notin {None, c}
  /\ p.toDo = "SEND_SERVER_HELLO_RESUME" /\ p.sessionId = peer[c].session /\ p.resume
  /\ p.handshakeSha = <<"hello">>

ResumeAnswered(c, p, q) ==
  /\ Phase(c) = "hello" /\ q = 1 /\ out[c] = <<ResumeFlight(c)>>
  /\ peer[c].session \notin {None, c}
  /\ p.toDo = "WAIT_CLIENT_CHANGE" /\ p.sessionId = peer[c].session /\ p.resume
  /\ p.keys = Keys(peer[c].session, c) /\ p.serverSequence = 1

\* The premaster secret is being decrypted, or has been and the Finished was not
\* there in time, or it made other keys: the last two are never left.
NoneIsWaiting(c) == \A k \in SessIndex : sessions[k].id = c => sessions[k].valid

Waits(c, p, q) ==
  /\ Phase(c) = "keyed" /\ q \in 2 .. 4 /\ out[c] = <<>>
  /\ p.toDo = "WAIT_DECRYPT_MASTER_SECRET" /\ p.sessionId = c /\ ~ p.resume
  /\ (p.clientEncrypted <=> q >= 3)
  /\ p.deferred = IF q = 4 THEN Finished(Keys(c, c)) ELSE NoRecord
  /\ p.handshakeSha = AfterKeyExchange \/ (q = 4 /\ NoneIsWaiting(c))

\* The key exchange was refused.
Refused(c, p, q) ==
  /\ Phase(c) \in {"keyed", "careless"} /\ q \in 2 .. 4 /\ out[c] = <<>>
  /\ p.toDo = "SEND_ALERT_ILLEGAL_PARAMETER" /\ p.sessionId = c /\ ~ p.resume
  /\ (p.clientEncrypted <=> q >= 3)
  /\ Phase(c) = "careless" => p.keys # Keys(c, c)
  /\ Phase(c) = "keyed" /\ q < 4 => p.handshakeSha = AfterKeyExchange

\* The Finished has been found right, and is to be answered, or has been.
ChangeDue(c, p, q) ==
  /\ Phase(c) = "keyed" /\ q = 4 /\ out[c] = <<>>
  /\ p.toDo = "SEND_SERVER_CHANGE" /\ p.sessionId = c
  /\ p.handshakeSha = AfterFinished /\ p.keys = Keys(c, c)

ChangeAnswered(c, p, q) ==
  /\ Phase(c) = "keyed" /\ q = 4 /\ out[c] = <<ChangeFlight(c)>>
  /\ p.toDo = "APPLICATION" /\ p.sessionId = c
  /\ p.keys = Keys(c, c) /\ p.serverSequence = 1

Opened(c, p, q) ==
  /\ Phase(c) = "open" /\ q \in 2 .. 5
  /\ p.sessionId = peer[c].session /\ p.keys = Keys(peer[c].session, c)
  /\ p.serverSequence = peer[c].contents + Len(out[c]) + 1
  /\ IF q < 4 THEN p.toDo = "WAIT_CLIENT_CHANGE" /\ p.resume
     ELSE p.toDo \in {"APPLICATION", "SEND_ALERT_ILLEGAL_PARAMETER"}

EntryIsRight(c, p, q) ==
  \/ Fresh(c, p, q) \/ Astray(c, p, q)
  \/ NewDue(c, p, q) \/ NewAnswered(c, p, q)
  \/ ResumeDue(c, p, q) \/ ResumeAnswered(c, p, q)
  \/ Waits(c, p, q) \/ Refused(c, p, q)
  \/ ChangeDue(c, p, q) \/ ChangeAnswered(c, p, q) \/ Opened(c, p, q)

EntryOf(i) ==
  conns[i].id # None =>
    /\ conns[i].id \in begun
    /\ Phase(conns[i].id) # "new"
    /\ IF Live(conns[i].id)
       THEN EntryIsRight(conns[i].id, conns[i], Handled(i))
       ELSE conns[i].id \in over /\ conns[i].toDo = "WAIT_CLIENT_HELLO"

\* The content put by is handled at once when its keys have come.
PutByIsHandled ==
  ~ Idle /\ ~ running.deferring =>
    LET p == conns[running.index] IN
    /\ running.records = <<p.deferred>>
    /\ p.toDo = "WAIT_DECRYPT_MASTER_SECRET"
    /\ p.handshakeSha = AfterKeyExchange
    /\ NoneIsWaiting(p.id)

ClientIsRight(c) ==
  /\ Phase(c) \in {"done", "alerted", "unread", "gone"} => c \in over
  /\ Phase(c) \in {"done", "alerted", "unread", "gone", "new", "astray"} => out[c] = <<>>
  /\ c \notin begun =>
       Phase(c) \in {"new", "hello", "astray", "gone"} /\ out[c] = <<>> /\ NoSessionOf(c)
  /\ Phase(c) \in {"keyed", "careless"} => peer[c].session = c
  /\ Phase(c) \in {"new", "hello", "keyed"} => peer[c].contents = 0
  /\ Phase(c) = "hello" => peer[c].session # c
  /\ Phase(c) = "open" => peer[c].session # None
  /\ c \in http => Phase(c) \in {"open", "done", "alerted", "unread", "gone"}

-----------------------------------------------------------------------------
(***************************************************************************)
(* Sessions, keys and slots                                                *)
(***************************************************************************)
NoneTwice ==
  /\ \A i, j \in ConnIndex : conns[i].id # None /\ conns[i].id = conns[j].id => i = j
  /\ \A k, l \in SessIndex : sessions[k].id # None /\ sessions[k].id = sessions[l].id => k = l

EmptyAreIdle == \A i \in ConnIndex : conns[i].id = None => conns[i].toDo = "WAIT_CLIENT_HELLO"

\* Sessions whose master secret a client has found right.
Trusted == {peer[c].session : c \in {d \in Clients : Phase(d) \in {"hello", "open", "done"}}} \ {None}

HasMaster(s) ==
  \A k \in SessIndex : sessions[k].id = s => sessions[k].valid /\ sessions[k].master = Master(s)

TrustedAreRight ==
  \A s \in Trusted : HasMaster(s) /\ Phase(s) \in {"open", "done", "alerted", "unread", "gone"}

ChangedAreRight ==
  \A c \in Clients :
    Phase(c) = "keyed" /\ Len(out[c]) > 0 /\ out[c][1] = ChangeFlight(c) => HasMaster(c)

KeysAreRight ==
  \A i \in ConnIndex : \A c \in Clients :
    conns[i].keys = Keys(c, c) => c \in begun /\ (conns[i].id = c => HasMaster(c))

SessionsAreRight == TrustedAreRight /\ ChangedAreRight /\ KeysAreRight

TlsInv ==
  /\ ServerTypes /\ ClientTypes /\ NoneTwice /\ EmptyAreIdle
  /\ \A c \in Clients : RecordsOf(c) /\ FlightsOf(c) /\ ClientIsRight(c)
  /\ \A i \in ConnIndex : EntryOf(i)
  /\ RunningInOrder /\ PutByIsHandled /\ SessionsAreRight
  /\ WaitsForOwnSlot /\ SessionHasItsMaster

-----------------------------------------------------------------------------
(***************************************************************************)
(* Entries and ranks                                                       *)
(***************************************************************************)
LEMMA FirstIsIn ==
  ASSUME NEW S, S \subseteq Nat, S # {}
  PROVE  First(S) \in S /\ \A j \in S : First(S) <= j
<1>1. PICK m \in S : \A j \in S : m <= j
  BY Least
<1> QED
  BY <1>1 DEF First

\* There is always an entry used longest ago.
LEMMA OldestIsIn ==
  ASSUME NEW n \in Nat \ {0}, NEW used \in [0 .. n - 1 -> Nat]
  PROVE  Oldest(used) \in 0 .. n - 1
<1> DEFINE V == {used[j] : j \in 0 .. n - 1}
<1>1. V \subseteq Nat /\ used[0] \in V
  OBVIOUS
<1>2. PICK m \in V : \A v \in V : m <= v
  <2> HIDE DEF V
  <2> QED
    BY <1>1, Least
<1> DEFINE W == {w \in 0 .. n - 1 : used[(n - 1) - w] = m}
<1>3. PICK j \in 0 .. n - 1 : used[j] = m
  OBVIOUS
<1>4. W \subseteq Nat /\ (n - 1) - j \in W
  BY <1>3
<1>5. PICK w \in W : \A x \in W : w <= x
  <2> HIDE DEF W
  <2> QED
    BY <1>4, Least
<1>6. \A k \in 0 .. n - 1 : used[k] = m => k <= (n - 1) - w
  <2> SUFFICES ASSUME NEW k \in 0 .. n - 1, used[k] = m PROVE k <= (n - 1) - w
    OBVIOUS
  <2>1. (n - 1) - ((n - 1) - k) = k /\ (n - 1) - k \in 0 .. n - 1
    OBVIOUS
  <2>2. (n - 1) - k \in W
    BY <2>1
  <2>3. w <= (n - 1) - k
    <3> HIDE DEF W
    <3> QED
      BY <1>5, <2>2, Zenon
  <2>4. w \in 0 .. n - 1
    OBVIOUS
  <2> HIDE DEF W
  <2> QED
    BY <2>3, <2>4
<1>7. DOMAIN used = 0 .. n - 1
  OBVIOUS
<1>8. PICK i \in 0 .. n - 1 : i = (n - 1) - w /\ used[i] = m
  BY <1>5
<1>9. \A k \in 0 .. n - 1 : m <= used[k] /\ used[k] \in Nat /\ m \in Nat
  BY <1>1, <1>2
<1>10. \A k \in DOMAIN used : used[i] < used[k] \/ (used[i] = used[k] /\ k <= i)
  <2> HIDE DEF V, W
  <2> QED
    BY <1>6, <1>7, <1>8, <1>9
<1> QED
  BY <1>7, <1>8, <1>10 DEF Oldest

LEMMA UseIsTyped ==
  ASSUME NEW n \in Nat \ {0}, NEW used \in [0 .. n - 1 -> Nat], NEW i, NEW tick
  PROVE  Use(used, i, tick) \in [0 .. n - 1 -> Nat]
<1> DEFINE newest == CHOOSE v \in {used[j] : j \in DOMAIN used} :
                       \A j \in DOMAIN used : used[j] <= v
           now == [used EXCEPT ![i] = newest + tick]
           Before(j) == {now[k] : k \in {k \in DOMAIN now : now[k] < now[j]}}
<1>1. DOMAIN now = 0 .. n - 1 /\ DOMAIN used = 0 .. n - 1
  OBVIOUS
<1> HIDE DEF newest, now
<1>2. ASSUME NEW j \in 0 .. n - 1 PROVE Cardinality(Before(j)) \in Nat
  <2> DEFINE S == {k \in DOMAIN now : now[k] < now[j]}
             f == [k \in S |-> now[k]]
  <2>1. IsFiniteSet(0 .. n - 1)
    BY FS_Interval
  <2>2. S \in SUBSET (0 .. n - 1)
    BY <1>1
  <2>3. IsFiniteSet(S)
    <3> HIDE DEF S
    <3> QED
      BY <2>1, <2>2, FS_Subset
  <2>4. f \in Surjection(S, Before(j))
    <3>1. f \in [S -> Before(j)]
      OBVIOUS
    <3>2. \A v \in Before(j) : \E k \in S : f[k] = v
      OBVIOUS
    <3> QED
      BY <3>1, <3>2 DEF Surjection
  <2>5. IsFiniteSet(Before(j))
    <3> HIDE DEF f, S, Before
    <3> QED
      BY <2>3, <2>4, FS_Surjection
  <2> QED
    <3> HIDE DEF Before
    <3> QED
      BY <2>5, FS_CardinalityType
<1>3. Use(used, i, tick) = [j \in DOMAIN used |-> Cardinality(Before(j))]
  BY DEF Use, now, newest
<1> HIDE DEF Before
<1> QED
  BY <1>1, <1>2, <1>3

-----------------------------------------------------------------------------
(***************************************************************************)
(* A step of one client leaves the others as they are                      *)
(***************************************************************************)
Stands(d) ==
  /\ peer'[d] = peer[d] /\ sent'[d] = sent[d] /\ out'[d] = out[d]
  /\ (d \in over') = (d \in over) /\ (d \in begun') = (d \in begun)
  /\ d \in http' => d \in http
  /\ NoSessionOf(d) => NoSessionOf(d)'

LEMMA ClientStands ==
  ASSUME NEW d, Stands(d)
  PROVE  /\ RecordsOf(d) => RecordsOf(d)'
         /\ FlightsOf(d) => FlightsOf(d)'
         /\ ClientIsRight(d) => ClientIsRight(d)'
<1>1. RecordsOf(d) => RecordsOf(d)'
  BY DEF Stands, RecordsOf, Live, Phase, Received, SentAt
<1>2. FlightsOf(d) => FlightsOf(d)'
  BY DEF Stands, FlightsOf, FlightIsRight, ResumeFlight, ChangeFlight, Phase
<1>3. ClientIsRight(d) => ClientIsRight(d)'
  BY DEF Stands, ClientIsRight, Phase
<1> QED
  BY <1>1, <1>2, <1>3

LEMMA EntryStands ==
  ASSUME NEW i, NEW d, conns[i].id = d, Stands(d), conns'[i] = conns[i],
         LeftOf(i)' = LeftOf(i), NoneIsWaiting(d) => NoneIsWaiting(d)'
  PROVE  EntryOf(i) => EntryOf(i)'
<1>1. Handled(i)' = Handled(i)
  BY DEF Handled, Received, Phase, Stands
<1>2. ASSUME NEW p, NEW q, EntryIsRight(d, p, q) PROVE EntryIsRight(d, p, q)'
  <2>1. peer'[d] = peer[d] /\ out'[d] = out[d]
    BY DEF Stands
  <2> QED
    BY <1>2, <2>1 DEF Stands, EntryIsRight, Fresh, Astray, NewDue, NewAnswered, ResumeDue,
       ResumeAnswered, Waits, Refused, ChangeDue, ChangeAnswered, Opened, Phase, ResumeFlight,
       ChangeFlight
<1>3. Live(d)' = Live(d)
  BY DEF Live, Stands, Phase
<1> QED
  BY <1>1, <1>2, <1>3 DEF EntryOf, Stands, Phase

LEMMA Sizes ==
  /\ MaxConnections \in Nat \ {0} /\ MaxSessions \in Nat \ {0} /\ MaxCount \in Nat \ {0}
  /\ ConnIndex = 0 .. MaxConnections - 1 /\ SessIndex = 0 .. MaxSessions - 1
  /\ Rsa!Slot = 0 .. MaxCount - 1 /\ NoSlot \notin Rsa!Slot
  /\ ConnIndex \subseteq Nat /\ SessIndex \subseteq Nat /\ Rsa!Slot \subseteq Nat
  /\ None \notin Clients
  BY TlsAssumption DEF ConnIndex, SessIndex, Rsa!Slot, NoSlot

-----------------------------------------------------------------------------
(***************************************************************************)
(* Steps a client takes by itself                                          *)
(***************************************************************************)
LEMMA OwnStep ==
  ASSUME TlsInv, NEW c \in Clients, NEW y \in Peer, NEW r \in Seq(Records), NEW o \in Seq(Flights),
         peer' = [peer EXCEPT ![c] = y], sent' = [sent EXCEPT ![c] = r],
         out' = [out EXCEPT ![c] = o],
         UNCHANGED <<conns, connUsed, next, sessions, sessUsed, job, running, http, over, begun, short>>,
         RecordsOf(c)', FlightsOf(c)', ClientIsRight(c)', SessionsAreRight',
         \A i \in ConnIndex : conns[i].id = c => EntryOf(i)',
         ~ Idle /\ conns[running.index].id = c =>
           y.phase = peer[c].phase /\ y.session = peer[c].session /\ r = sent[c]
  PROVE  TlsInv'
<1>1. /\ peer \in [Clients -> Peer] /\ sent \in [Clients -> Seq(Records)]
      /\ out \in [Clients -> Seq(Flights)]
  BY DEF TlsInv, ClientTypes, ServerTypes
<1>2. peer'[c] = y /\ sent'[c] = r /\ out'[c] = o
  BY <1>1
<1>3. \A d \in Clients \ {c} : Stands(d)
  BY <1>1 DEF Stands, NoSessionOf
<1>4. ServerTypes' /\ ClientTypes'
  <2>1. out' \in [Clients -> Seq(Flights)]
    BY <1>1
  <2>2. ServerTypes'
    BY <2>1 DEF TlsInv, ServerTypes, Idle
  <2>3. ClientTypes'
    BY <1>1 DEF TlsInv, ClientTypes
  <2> QED
    BY <2>2, <2>3
<1>5. \A d \in Clients : RecordsOf(d)' /\ FlightsOf(d)' /\ ClientIsRight(d)'
  BY <1>3, ClientStands DEF TlsInv
<1>6. \A i \in ConnIndex : EntryOf(i)'
  <2> SUFFICES ASSUME NEW i \in ConnIndex, conns[i].id # c PROVE EntryOf(i)'
    OBVIOUS
  <2>1. CASE conns[i].id = None
    BY <2>1 DEF EntryOf
  <2>2. CASE conns[i].id # None
    <3>1. conns[i].id \in Clients \ {c}
      BY <2>2 DEF TlsInv, ServerTypes, Connection
    <3>2. LeftOf(i)' = LeftOf(i) /\ (NoneIsWaiting(conns[i].id) => NoneIsWaiting(conns[i].id)')
      BY DEF LeftOf, Idle, NoneIsWaiting
    <3> QED
      BY <1>3, <3>1, <3>2, EntryStands DEF TlsInv
  <2> QED
    BY <2>1, <2>2
<1>7. RunningInOrder'
  <2> SUFFICES ASSUME ~ Idle PROVE RunningInOrder'
    BY DEF RunningInOrder, Idle
  <2> DEFINE d == conns[running.index].id
  <2>1. /\ d \in Clients /\ Live(d)
        /\ running.deferring =>
             \A j \in 1 .. Len(running.records) :
               SentAt(d, Handled(running.index) + j, running.records[j])
    BY DEF TlsInv, RunningInOrder
  <2>2. peer'[d].phase = peer[d].phase /\ peer'[d].session = peer[d].session /\ sent'[d] = sent[d]
    <3>1. CASE d = c
      BY <1>2, <3>1
    <3>2. CASE d # c
      BY <1>1, <2>1, <3>2
    <3> QED
      BY <3>1, <3>2
  <2>3. Live(d)' /\ Handled(running.index)' = Handled(running.index)
    BY <2>1, <2>2 DEF Live, Phase, Handled, Received, LeftOf, Idle
  <2>4. \A q, x : SentAt(d, q, x)' = SentAt(d, q, x)
    BY <2>2 DEF SentAt, Phase
  <2> QED
    BY <2>1, <2>3, <2>4 DEF RunningInOrder
<1>8. NoneTwice' /\ EmptyAreIdle' /\ PutByIsHandled' /\ WaitsForOwnSlot' /\ SessionHasItsMaster'
  BY DEF TlsInv, NoneTwice, EmptyAreIdle, PutByIsHandled, NoneIsWaiting, WaitsForOwnSlot, SessionHasItsMaster,
         Idle, Waiting, SessionsOf, EntriesOf
<1> QED
  BY <1>4, <1>5, <1>6, <1>7, <1>8 DEF TlsInv

LEMMA EntryIsConnected ==
  ASSUME TlsInv, NEW i \in ConnIndex, conns[i].id # None
  PROVE  conns[i].id \in Clients /\ Phase(conns[i].id) # "new" /\ conns[i].id \in begun
  BY DEF TlsInv, ServerTypes, Connection, EntryOf

LEMMA KeysStay ==
  ASSUME KeysAreRight, UNCHANGED <<conns, sessions, begun>>
  PROVE  KeysAreRight'
  BY DEF KeysAreRight, HasMaster, Keys, Master

\* The sessions stay right when a client's part in them changes.
LEMMA SessionsStay ==
  ASSUME TlsInv, NEW c \in Clients, NEW y \in Peer, peer' = [peer EXCEPT ![c] = y],
         UNCHANGED <<sessions, begun>>, ChangedAreRight', KeysAreRight',
         y.phase \in {"hello", "open", "done"} =>
           y.session \in Trusted \cup {None} \/ (y.session = c /\ HasMaster(c)),
         c \in Trusted \/ (y.phase \in {"hello", "open", "done"} /\ y.session = c) =>
           y.phase \in {"open", "done", "alerted", "unread", "gone"}
  PROVE  SessionsAreRight'
<1>1. peer \in [Clients -> Peer]
  BY DEF TlsInv, ClientTypes
<1>2. peer'[c] = y /\ \A d \in Clients \ {c} : peer'[d] = peer[d]
  BY <1>1
<1>3. ASSUME NEW t \in Trusted'
      PROVE  HasMaster(t) /\ Phase(t)' \in {"open", "done", "alerted", "unread", "gone"}
  <2>1. PICK d \in Clients : t = peer'[d].session /\ Phase(d)' \in {"hello", "open", "done"} /\ t # None
    BY <1>3 DEF Trusted
  <2>2. t \in Trusted \/ (d = c /\ t = c /\ t = y.session /\ HasMaster(c))
    <3>1. CASE d = c
      BY <1>2, <2>1, <3>1 DEF Phase
    <3>2. CASE d # c
      BY <1>2, <2>1, <3>2 DEF Trusted, Phase
    <3> QED
      BY <3>1, <3>2
  <2>3. CASE t \in Trusted
    <3>1. HasMaster(t) /\ Phase(t) \in {"open", "done", "alerted", "unread", "gone"} /\ t \in Clients
      BY <1>1, <2>3, Sizes DEF TlsInv, SessionsAreRight, TrustedAreRight, Trusted, Peer
    <3> QED
      BY <1>2, <2>3, <3>1 DEF Phase
  <2>4. CASE d = c /\ t = c /\ t = y.session /\ HasMaster(c)
    BY <1>2, <2>1, <2>4 DEF Phase
  <2> QED
    BY <2>2, <2>3, <2>4
<1>4. TrustedAreRight'
  BY <1>3 DEF TrustedAreRight, HasMaster
<1> QED
  BY <1>4 DEF SessionsAreRight

\* A client that begins: nothing of it has reached the server.
LEMMA BeginStep ==
  ASSUME TlsInv, NEW c \in Clients, Phase(c) = "new", NEW s \in Clients \cup {None},
         NEW phase \in {"hello", "astray"}, NEW r,
         phase = "hello" => r = Hello(s) /\ s \in Trusted \cup {None},
         phase = "astray" => r \in {ShortHello, Heartbeat},
         peer' = [peer EXCEPT ![c].phase = phase, ![c].session = s], sent' = [sent EXCEPT ![c] = <<r>>],
         UNCHANGED <<serverVars, begun, short>>
  PROVE  TlsInv'
<1> DEFINE y == [peer[c] EXCEPT !.phase = phase, !.session = s]
<1>1. peer \in [Clients -> Peer] /\ peer[c] \in Peer /\ sent \in [Clients -> Seq(Records)]
  BY DEF TlsInv, ClientTypes
<1>3. y \in Peer
  BY <1>1 DEF Peer, Phases
<1>4. /\ y.phase = phase /\ y.session = s /\ y.contents = 0
  BY <1>1 DEF Peer, TlsInv, ClientIsRight, Phase
<1>5. r \in Records
  BY DEF Records
<1>6. peer' = [peer EXCEPT ![c] = y] /\ sent' = [sent EXCEPT ![c] = <<r>>]
  BY <1>1
<1> HIDE DEF y
<1>7. peer'[c] = y /\ sent'[c] = <<r>>
  BY <1>1, <1>6
<1>8. out[c] = <<>> /\ out' = [out EXCEPT ![c] = <<>>] /\ out \in [Clients -> Seq(Flights)]
  BY DEF TlsInv, ClientIsRight, ServerTypes, serverVars
<1>9. c \notin Trusted
  BY DEF TlsInv, SessionsAreRight, TrustedAreRight
<1>10. RecordsOf(c)'
  <2>1. Phase(c)' = phase /\ Len(sent'[c]) = 1 /\ sent'[c][1] = r
    BY <1>4, <1>7 DEF Phase
  <2>2. Received(c)' = 0
    BY <2>1 DEF Received, LastPlace
  <2>3. SentAt(c, 0 + 1, r)'
    BY <1>4, <1>7, <2>1 DEF SentAt, Phase
  <2> QED
    BY <2>1, <2>2, <2>3 DEF RecordsOf
<1>11. FlightsOf(c)'
  BY <1>8 DEF FlightsOf, serverVars
<1>12. ClientIsRight(c)'
  BY <1>4, <1>7, <1>8, <1>9, Sizes DEF ClientIsRight, Phase, TlsInv, serverVars, NoSessionOf
<1>13. \A i \in ConnIndex : conns[i].id # c
  BY EntryIsConnected, Sizes
<1>14. SessionsAreRight'
  <2>1. ChangedAreRight'
    BY <1>1, <1>4, <1>6, <1>7 DEF TlsInv, SessionsAreRight, ChangedAreRight, Phase, ChangeFlight, HasMaster, serverVars
  <2>2. KeysAreRight'
    BY KeysStay DEF TlsInv, SessionsAreRight, serverVars
  <2> QED
    BY <1>3, <1>4, <1>6, <1>9, <2>1, <2>2, SessionsStay, Sizes DEF serverVars
<1>15. ~ Idle => conns[running.index].id # c
  BY DEF TlsInv, RunningInOrder, Live
<1>16. <<r>> \in Seq(Records) /\ <<>> \in Seq(Flights)
  BY <1>5
<1>17. UNCHANGED <<conns, connUsed, next, sessions, sessUsed, job, running, http, over, begun, short>>
  BY DEF serverVars
<1> QED
  BY <1>3, <1>6, <1>8, <1>10, <1>11, <1>12, <1>13, <1>14, <1>15, <1>16, <1>17, OwnStep

LEMMA ConnectStep ==
  ASSUME TlsInv, NEW c \in Clients, NEW s, Connect(c, s)
  PROVE  TlsInv'
<1>1. s \in Trusted \cup {None} /\ s \in Clients \cup {None}
  BY Sizes DEF Connect, Remembered, Trusted
<1> QED
  BY <1>1, BeginStep DEF Connect

LEMMA ConnectBadlyStep ==
  ASSUME TlsInv, NEW c \in Clients, ConnectBadly(c)
  PROVE  TlsInv'
<1>1. PICK r \in {ShortHello, Heartbeat} : sent' = [sent EXCEPT ![c] = <<r>>]
  BY DEF ConnectBadly
<1>2. peer \in [Clients -> Peer] /\ peer[c].session \in Clients \cup {None}
  BY DEF TlsInv, ClientTypes, Peer
<1>3. peer' = [peer EXCEPT ![c].phase = "astray", ![c].session = peer[c].session]
  BY <1>2 DEF ConnectBadly, Peer
<1> QED
  BY <1>1, <1>2, <1>3, BeginStep DEF ConnectBadly

\* What is read is the first flight, and is right.
LEMMA FirstFlight ==
  ASSUME TlsInv, NEW c \in Clients, out[c] # <<>>
  PROVE  /\ out[c] \in Seq(Flights) /\ Len(out[c]) \in Nat \ {0}
         /\ Tail(out[c]) \in Seq(Flights) /\ Len(Tail(out[c])) = Len(out[c]) - 1
         /\ \A j \in 1 .. Len(Tail(out[c])) : Tail(out[c])[j] = out[c][j + 1]
         /\ Head(out[c]) = out[c][1] /\ FlightIsRight(c, 1)
         /\ Phase(c) \in {"hello", "keyed", "careless", "open"} /\ c \in begun
<1>1. out[c] \in Seq(Flights)
  BY DEF TlsInv, ServerTypes
<1>2. Len(out[c]) \in Nat \ {0}
  BY <1>1
<1>3. \A j \in 1 .. Len(out[c]) : FlightIsRight(c, j)
  BY DEF TlsInv, FlightsOf
<1>4. Phase(c) \in {"hello", "keyed", "careless", "open"} /\ c \in begun
  BY DEF TlsInv, ClientTypes, Peer, Phases, Phase, ClientIsRight
<1> QED
  BY <1>1, <1>2, <1>3, <1>4

\* What the first flight says is what the client waits for.
LEMMA FlightKinds ==
  ASSUME TlsInv, NEW c \in Clients, out[c] # <<>>
  PROVE  LET f == Head(out[c]) IN
         /\ f = out[c][1]
         /\ f.kind = "helloNew" => f = HelloNew /\ Phase(c) = "hello" /\ sent[c] = <<>>
         /\ f.kind = "helloResume" =>
              /\ f = ResumeFlight(c) /\ Phase(c) = "hello" /\ sent[c] = <<>>
              /\ peer[c].session # None
         /\ f.kind = "change" => f = ChangeFlight(c) /\ Phase(c) = "keyed" /\ sent[c] = <<>>
         /\ f.kind = "content" =>
              /\ Phase(c) = "open"
              /\ \E last \in BOOLEAN :
                   /\ f = Content(Keys(peer[c].session, c), peer[c].contents + 1, last)
                   /\ last => Len(out[c]) = 1 /\ c \in over
         /\ f.kind = "alert" => f = Alert /\ Len(out[c]) = 1 /\ c \in over
<1> DEFINE f == Head(out[c])
<1>1. f = out[c][1] /\ FlightIsRight(c, 1)
  BY FirstFlight
<1>2. Alert.kind = "alert" /\ HelloNew.kind = "helloNew" /\ ResumeFlight(c).kind = "helloResume"
      /\ ChangeFlight(c).kind = "change"
      /\ \A keys, n, last : Content(keys, n, last).kind = "content"
  BY DEF Alert, HelloNew, ResumeFlight, ChangeFlight, FinishedFlight, Content
<1> HIDE DEF f
<1>3. \/ f = Alert /\ Len(out[c]) = 1 /\ c \in over
      \/ f = HelloNew /\ Phase(c) = "hello" /\ sent[c] = <<>>
      \/ /\ f = ResumeFlight(c) /\ Phase(c) = "hello" /\ sent[c] = <<>>
         /\ peer[c].session # None
      \/ f = ChangeFlight(c) /\ Phase(c) = "keyed" /\ sent[c] = <<>>
      \/ /\ Phase(c) = "open"
         /\ \E last \in BOOLEAN :
              /\ f = Content(Keys(peer[c].session, c), peer[c].contents + 1, last)
              /\ last => Len(out[c]) = 1 /\ c \in over
  BY <1>1 DEF FlightIsRight
<1> QED
  BY <1>1, <1>2, <1>3 DEF f

\* Only of an open client are records handled while it has something to read.
LEMMA RunningAndReading ==
  ASSUME TlsInv, NEW c \in Clients, out[c] # <<>>, ~ Idle, conns[running.index].id = c
  PROVE  Phase(c) = "open" /\ c \notin over
<1> DEFINE i == running.index
           p == conns[i]
           q == Handled(i)
<1>1. i \in ConnIndex /\ running.records \in Seq(Records) /\ running.records # <<>>
  BY DEF TlsInv, ServerTypes, Call
<1>2. c # None
  BY Sizes
<1>3. Live(c)
  BY DEF TlsInv, RunningInOrder
<1>4. EntryIsRight(c, p, q)
  BY <1>1, <1>2, <1>3 DEF TlsInv, EntryOf
<1> HIDE DEF q
<1>5. \/ Phase(c) = "open"
      \/ Phase(c) = "hello" /\ q = 1 /\ p.toDo = "WAIT_CLIENT_CHANGE"
      \/ Phase(c) = "keyed" /\ q = 4 /\ p.toDo = "APPLICATION"
  BY <1>4 DEF EntryIsRight, Fresh, Astray, NewDue, NewAnswered, ResumeDue, ResumeAnswered, Waits,
     Refused, ChangeDue, ChangeAnswered, Opened
<1>6. CASE running.deferring
  <2>1. 1 \in 1 .. Len(running.records)
    BY <1>1
  <2>2. SentAt(c, q + 1, running.records[1])
    BY <1>6, <2>1 DEF TlsInv, RunningInOrder, q
  <2> QED
    BY <1>3, <1>5, <2>2 DEF SentAt, Live
<1>7. CASE ~ running.deferring
  BY <1>3, <1>5, <1>7 DEF TlsInv, PutByIsHandled, Live
<1> QED
  BY <1>6, <1>7

LEMMA ReadingStep ==
  ASSUME TlsInv, NEW c \in Clients, out[c] # <<>>, NEW y \in Peer, NEW r \in Seq(Records),
         peer' = [peer EXCEPT ![c] = y], sent' = [sent EXCEPT ![c] = r],
         out' = [out EXCEPT ![c] = Tail(@)],
         UNCHANGED <<conns, connUsed, next, sessions, sessUsed, job, running, http, over, begun, short>>,
         RecordsOf(c)', FlightsOf(c)', ClientIsRight(c)',
         \A i \in ConnIndex : conns[i].id = c => EntryOf(i)',
         Phase(c) = "open" /\ c \notin over =>
           y.phase = "open" /\ y.session = peer[c].session /\ r = sent[c],
         y.phase = "keyed" => \A j \in 1 .. Len(Tail(out[c])) : Tail(out[c])[j] # ChangeFlight(c),
         y.phase \in {"hello", "open", "done"} =>
           y.session \in Trusted \cup {None} \/ (y.session = c /\ HasMaster(c)),
         c \in Trusted \/ (y.phase \in {"hello", "open", "done"} /\ y.session = c) =>
           y.phase \in {"open", "done", "alerted", "unread", "gone"}
  PROVE  TlsInv'
<1> DEFINE o == Tail(out[c])
<1>1. o \in Seq(Flights) /\ out \in [Clients -> Seq(Flights)] /\ peer \in [Clients -> Peer]
  BY FirstFlight DEF TlsInv, ServerTypes, ClientTypes
<1>2. out' = [out EXCEPT ![c] = o]
  OBVIOUS
<1>3. ~ Idle /\ conns[running.index].id = c =>
           y.phase = peer[c].phase /\ y.session = peer[c].session /\ r = sent[c]
  BY RunningAndReading DEF Phase
<1>4. y.phase = "keyed" => \A j \in 1 .. Len(o) : o[j] # ChangeFlight(c)
  OBVIOUS
<1> HIDE DEF o
<1>5. ChangedAreRight'
  <2> SUFFICES ASSUME NEW d \in Clients, Phase(d)' = "keyed", Len(out'[d]) > 0,
                      out'[d][1] = ChangeFlight(d)
               PROVE  HasMaster(d)'
    BY DEF ChangedAreRight, ChangeFlight
  <2>1. d # c
    <3> SUFFICES ASSUME d = c PROVE FALSE
      OBVIOUS
    <3>1. y.phase = "keyed"
      BY <1>1 DEF Phase
    <3>2. Len(o) > 0 /\ o[1] = ChangeFlight(c)
      BY <1>1, <1>2
    <3> QED
      BY <1>1, <1>4, <3>1, <3>2
  <2>2. peer'[d] = peer[d] /\ out'[d] = out[d]
    BY <1>1, <1>2, <2>1
  <2>3. HasMaster(d)
    BY <2>2 DEF TlsInv, SessionsAreRight, ChangedAreRight, Phase
  <2> QED
    BY <2>3 DEF HasMaster
<1>6. KeysAreRight'
  BY KeysStay DEF TlsInv, SessionsAreRight
<1>7. SessionsAreRight'
  BY <1>5, <1>6, SessionsStay
<1> QED
  BY <1>1, <1>2, <1>3, <1>7, OwnStep

\* A client that goes on with a handshake has got the last flight but an alert.
LEMMA AlertsOnly ==
  ASSUME TlsInv, NEW c \in Clients, out[c] # <<>>, Phase(c) \in {"hello", "keyed"},
         NEW j \in 1 .. Len(Tail(out[c]))
  PROVE  Tail(out[c])[j] = Alert /\ j = Len(Tail(out[c])) /\ c \in over
<1>1. /\ Len(out[c]) \in Nat \ {0} /\ Len(Tail(out[c])) = Len(out[c]) - 1
      /\ Tail(out[c])[j] = out[c][j + 1]
  BY FirstFlight
<1>2. j + 1 \in 1 .. Len(out[c]) /\ j + 1 # 1
  BY <1>1
<1>3. FlightIsRight(c, j + 1)
  BY <1>2 DEF TlsInv, FlightsOf
<1>4. out[c][j + 1] = Alert /\ j + 1 = Len(out[c]) /\ c \in over
  BY <1>2, <1>3 DEF FlightIsRight
<1> QED
  BY <1>1, <1>4

LEMMA AlertIsNoChange ==
  \A c \in Clients : Alert # ChangeFlight(c)
<1>1. Alert.kind = "alert"
  BY DEF Alert
<1>2. \A c \in Clients : ChangeFlight(c).kind = "change"
  BY DEF ChangeFlight, FinishedFlight
<1> QED
  BY <1>1, <1>2

LEMMA NewPeer ==
  ASSUME TlsInv, NEW c \in Clients, NEW phase \in Phases, NEW session \in Clients \cup {None},
         NEW records \in Seq(Records), Becomes(c, phase, session, records)
  PROVE  \E y \in Peer, r \in Seq(Records) :
           /\ peer' = [peer EXCEPT ![c] = y] /\ sent' = [sent EXCEPT ![c] = r]
           /\ peer'[c] = y /\ sent'[c] = r
           /\ y.phase = phase /\ y.session = session /\ y.contents = peer[c].contents
           /\ sent[c] = <<>> => r = records
           /\ records = <<>> => r = sent[c]
<1> DEFINE y == [peer[c] EXCEPT !.phase = phase, !.session = session]
           r == sent[c] \o records
<1>1. peer \in [Clients -> Peer] /\ peer[c] \in Peer /\ sent \in [Clients -> Seq(Records)]
  BY DEF TlsInv, ClientTypes
<1>2. y \in Peer /\ r \in Seq(Records)
  <2>1. y \in Peer
    BY <1>1 DEF Peer
  <2>2. sent[c] \in Seq(Records)
    BY <1>1
  <2> HIDE DEF y
  <2> QED
    BY <2>1, <2>2
<1>3. y.phase = phase /\ y.session = session /\ y.contents = peer[c].contents
  BY <1>1 DEF Peer
<1>4. (sent[c] = <<>> => r = records) /\ (records = <<>> => r = sent[c])
  BY <1>1
<1>5. peer' = [peer EXCEPT ![c] = y] /\ sent' = [sent EXCEPT ![c] = r]
  BY <1>1 DEF Becomes
<1> HIDE DEF y, r
<1>6. peer'[c] = y /\ sent'[c] = r
  BY <1>1, <1>5
<1> QED
  BY <1>2, <1>3, <1>4, <1>5, <1>6

\* What all the reads leave alone.
ReadLeaves ==
  UNCHANGED <<conns, connUsed, next, sessions, sessUsed, job, running, http, over, begun, short>>

LEMMA ReadHelloNewStep ==
  ASSUME TlsInv, NEW c \in Clients, out[c] # <<>>, ReadHelloNew(c, Head(out[c])),
         out' = [out EXCEPT ![c] = Tail(@)], ReadLeaves
  PROVE  TlsInv'
<1> DEFINE o == Tail(out[c])
<1>1. /\ Phase(c) = "hello" /\ out[c][1] = HelloNew /\ sent[c] = <<>>
  BY FlightKinds DEF ReadHelloNew
<1>2. PICK phase \in {"keyed", "careless"}, first \in Records :
        /\ first = IF phase = "keyed" THEN KeyExchange(c) ELSE ShortKeyExchange
        /\ Becomes(c, phase, c, <<first, ChangeCipher, Finished(Keys(c, c))>>)
  BY <1>1 DEF ReadHelloNew, Records
<1>3. Keys(c, c) \in AllKeys
  BY DEF Keys, Master, AllKeys, Masters
<1>4. <<first, ChangeCipher, Finished(Keys(c, c))>> \in Seq(Records)
  BY <1>3 DEF Records
<1>5. PICK y \in Peer, r \in Seq(Records) :
           /\ peer' = [peer EXCEPT ![c] = y] /\ sent' = [sent EXCEPT ![c] = r]
           /\ peer'[c] = y /\ sent'[c] = r
           /\ y.phase = phase /\ y.session = c /\ y.contents = peer[c].contents
           /\ r = <<first, ChangeCipher, Finished(Keys(c, c))>>
  <2>1. phase \in Phases
    BY DEF Phases
  <2>2. PICK batch \in Seq(Records) : batch = <<first, ChangeCipher, Finished(Keys(c, c))>>
    BY <1>4
  <2>3. Becomes(c, phase, c, batch)
    BY <1>2, <2>2
  <2>4. PICK y \in Peer, r \in Seq(Records) :
           /\ peer' = [peer EXCEPT ![c] = y] /\ sent' = [sent EXCEPT ![c] = r]
           /\ peer'[c] = y /\ sent'[c] = r
           /\ y.phase = phase /\ y.session = c /\ y.contents = peer[c].contents
           /\ sent[c] = <<>> => r = batch
           /\ batch = <<>> => r = sent[c]
    BY <2>1, <2>3, NewPeer
  <2>5. r = batch
    BY <1>1, <2>4
  <2> QED
    BY <2>2, <2>4, <2>5
<1>6. Len(r) = 3 /\ r[1] = first /\ r[2] = ChangeCipher /\ r[3] = Finished(Keys(c, c))
  BY <1>5
<1>7. out'[c] = o
  BY DEF TlsInv, ServerTypes
<1>8. Received(c)' = 1 /\ Phase(c)' = phase
  <2>1. Phase(c)' = phase
    BY <1>5 DEF Phase
  <2>2. LastPlace(phase) = 4 /\ Len(sent'[c]) = 3
    BY <1>5, <1>6 DEF LastPlace
  <2>3. Received(c)' = LastPlace(Phase(c)') - Len(sent'[c])
    BY DEF Received, LastPlace
  <2> QED
    BY <2>1, <2>2, <2>3
<1>9. RecordsOf(c)'
  <2>1. \A j \in 1 .. 3 : SentAt(c, 1 + j, r[j])'
    BY <1>2, <1>5, <1>6, <1>8 DEF SentAt, Phase
  <2> QED
    BY <1>5, <1>6, <1>8, <2>1 DEF RecordsOf
<1>10. FlightsOf(c)'
  BY <1>1, <1>7, AlertsOnly DEF FlightsOf, FlightIsRight, ReadLeaves
<1>11. ClientIsRight(c)'
  BY <1>1, <1>5, <1>8, FirstFlight DEF TlsInv, ClientIsRight, ReadLeaves, Phase, NoSessionOf
<1>12. ASSUME NEW i \in ConnIndex, conns[i].id = c PROVE EntryOf(i)'
  <2>1. c # None
    BY Sizes
  <2>2. CASE Live(c)
    <3>1. EntryIsRight(c, conns[i], Handled(i))
      BY <1>12, <2>1, <2>2 DEF TlsInv, EntryOf
    <3>2. NewAnswered(c, conns[i], Handled(i)) /\ out[c] = <<HelloNew>>
      BY <1>1, <3>1 DEF EntryIsRight, Fresh, Astray, NewDue, NewAnswered, ResumeDue, ResumeAnswered,
         Waits, Refused, ChangeDue, ChangeAnswered, Opened, HelloNew, ResumeFlight, FinishedFlight
    <3>3. o = <<>>
      BY <3>2
    <3>4. Handled(i) = 1 /\ Received(c) = 1
      BY <1>1, <3>2 DEF NewAnswered, Received, LastPlace
    <3>5. LeftOf(i) = 0
      <4>1. LeftOf(i) \in Nat
        BY DEF LeftOf, TlsInv, ServerTypes, Call
      <4> QED
        BY <1>12, <3>4, <4>1 DEF Handled
    <3>6. Handled(i)' = 1
      BY <1>8, <1>12, <3>5 DEF Handled, LeftOf, Idle, ReadLeaves
    <3>7. NewAnswered(c, conns[i], 1)'
      BY <1>7, <1>8, <3>2, <3>3 DEF NewAnswered, ReadLeaves
    <3>8. Live(c)'
      BY <1>8, <2>2 DEF Live, ReadLeaves
    <3> QED
      BY <1>8, <1>12, <3>6, <3>7, <3>8, FirstFlight DEF EntryOf, EntryIsRight, ReadLeaves
  <2>3. CASE ~ Live(c)
    BY <1>8, <1>12, <2>1, <2>3 DEF TlsInv, EntryOf, Live, ReadLeaves, Phase
  <2> QED
    BY <2>2, <2>3
<1>13. c \notin Trusted
  BY <1>1 DEF TlsInv, SessionsAreRight, TrustedAreRight
<1>14. \A j \in 1 .. Len(o) : o[j] # ChangeFlight(c)
  BY <1>1, AlertsOnly, AlertIsNoChange
<1> HIDE DEF o
<1> QED
  BY <1>1, <1>5, <1>9, <1>10, <1>11, <1>12, <1>13, <1>14, ReadingStep DEF o, ReadLeaves

\* An entry that has handled what it has received has none left.
LEMMA AllHandled ==
  ASSUME TlsInv, NEW i \in ConnIndex, NEW c \in Clients, conns[i].id = c,
         Received(c) \in Int, Received(c)' \in Int, Handled(i) = Received(c),
         UNCHANGED <<running, conns>>
  PROVE  Handled(i)' = Received(c)'
<1>1. LeftOf(i) \in Nat
  BY DEF LeftOf, TlsInv, ServerTypes, Call
<1>2. LeftOf(i) = 0
  BY <1>1 DEF Handled
<1>3. LeftOf(i)' = 0
  BY <1>2 DEF LeftOf, Idle
<1>4. Handled(i)' = Received(conns[i].id)' - LeftOf(i)'
  BY DEF Handled
<1> QED
  BY <1>3, <1>4

\* A client that opens its connection, in answer to the server's Finished.
LEMMA OpenStep ==
  ASSUME TlsInv, NEW c \in Clients, out[c] # <<>>, Phase(c) \in {"hello", "keyed"}, sent[c] = <<>>,
         NEW s \in Clients, peer[c].session = s, peer[c].contents = 0,
         NEW n \in {2, 4}, NEW r \in Seq(Records), Len(r) = 5 - n,
         NEW y \in Peer, y.phase = "open", y.session = s, y.contents = 0,
         peer' = [peer EXCEPT ![c] = y], sent' = [sent EXCEPT ![c] = r],
         peer'[c] = y, sent'[c] = r,
         \A j \in 1 .. Len(r) : SentAt(c, n + j, r[j])',
         s \in Trusted \/ (s = c /\ HasMaster(c)),
         \A i \in ConnIndex : conns[i].id = c /\ Live(c) =>
           /\ Handled(i) = Received(c)
           /\ out[c] = <<out[c][1]>>
           /\ conns[i].sessionId = s /\ conns[i].keys = Keys(s, c) /\ conns[i].serverSequence = 1
           /\ n = 2 => conns[i].toDo = "WAIT_CLIENT_CHANGE" /\ conns[i].resume
           /\ n = 4 => conns[i].toDo = "APPLICATION",
         out' = [out EXCEPT ![c] = Tail(@)], ReadLeaves
  PROVE  TlsInv'
<1> DEFINE o == Tail(out[c])
<1>1. Phase(c)' = "open"
  BY DEF Phase
<1>2. Received(c)' = n /\ Received(c)' \in Int
  <2>1. Received(c)' = LastPlace(Phase(c)') - Len(sent'[c])
    BY DEF Received, LastPlace
  <2> QED
    BY <1>1, <2>1 DEF LastPlace
<1>3. RecordsOf(c)'
  BY <1>2 DEF RecordsOf
<1>4. out'[c] = o
  BY DEF TlsInv, ServerTypes
<1>5. FlightsOf(c)'
  BY <1>4, AlertsOnly DEF FlightsOf, FlightIsRight, ReadLeaves
<1>6. s # None /\ c # None
  BY Sizes
<1>7. ClientIsRight(c)'
  BY <1>1, <1>6, FirstFlight DEF ClientIsRight, ReadLeaves, NoSessionOf
<1>8. ASSUME NEW i \in ConnIndex, conns[i].id = c PROVE EntryOf(i)'
  <2>1. CASE Live(c)
    <3>1. Received(c) \in Int
      BY DEF Received, LastPlace
    <3>2. Handled(i)' = n
      BY <1>2, <1>8, <2>1, <3>1, AllHandled, Zenon DEF ReadLeaves
    <3>3. o = <<>>
      <4>1. out[c] = <<out[c][1]>>
        BY <1>8, <2>1
      <4>2. Len(out[c]) = 1 /\ Len(o) = Len(out[c]) - 1 /\ o \in Seq(Flights)
        BY <4>1, FirstFlight
      <4> HIDE DEF o
      <4> QED
        BY <4>2
    <3>4. Opened(c, conns[i], n)'
      <4>1. /\ conns'[i] = conns[i] /\ out'[c] = <<>> /\ Len(<<>>) = 0
        BY <1>4, <3>3 DEF ReadLeaves
      <4>2. /\ conns[i].sessionId = s /\ conns[i].keys = Keys(s, c) /\ conns[i].serverSequence = 1
            /\ n = 2 => conns[i].toDo = "WAIT_CLIENT_CHANGE" /\ conns[i].resume
            /\ n = 4 => conns[i].toDo = "APPLICATION"
        BY <1>8, <2>1
      <4> QED
        BY <1>1, <4>1, <4>2 DEF Opened
    <3>5. Live(c)'
      BY <1>1, <2>1 DEF Live, ReadLeaves
    <3> QED
      BY <1>1, <1>8, <3>2, <3>4, <3>5, FirstFlight DEF EntryOf, EntryIsRight, ReadLeaves
  <2>2. CASE ~ Live(c)
    BY <1>1, <1>6, <1>8, <2>2 DEF TlsInv, EntryOf, Live, ReadLeaves, Phase
  <2> QED
    BY <2>1, <2>2
<1>9. \A j \in 1 .. Len(o) : o[j] # ChangeFlight(c)
  BY AlertsOnly, AlertIsNoChange
<1> HIDE DEF o
<1> QED
  BY <1>3, <1>5, <1>7, <1>8, <1>9, ReadingStep DEF o, ReadLeaves

LEMMA ReadHelloResumeStep ==
  ASSUME TlsInv, NEW c \in Clients, out[c] # <<>>, ReadHelloResume(c, Head(out[c])),
         out' = [out EXCEPT ![c] = Tail(@)], ReadLeaves
  PROVE  TlsInv'
<1> DEFINE s == peer[c].session
<1>1. /\ Head(out[c]) = ResumeFlight(c) /\ out[c][1] = ResumeFlight(c)
      /\ Phase(c) = "hello" /\ sent[c] = <<>> /\ s # None
  BY FlightKinds DEF ReadHelloResume
<1>2. s \in Clients /\ peer[c].contents = 0 /\ s \in Trusted
  BY <1>1 DEF TlsInv, ClientTypes, Peer, Trusted, ClientIsRight
<1>3. PICK batch \in Seq(Records) :
        batch = <<ChangeCipher, Finished(Keys(s, c)), Application(Keys(s, c))>>
  <2>1. Keys(s, c) \in AllKeys
    BY <1>2 DEF Keys, Master, AllKeys, Masters
  <2>2. <<ChangeCipher, Finished(Keys(s, c)), Application(Keys(s, c))>> \in Seq(Records)
    BY <2>1 DEF Records
  <2> QED
    BY <2>2
<1>4. Becomes(c, "open", s, batch)
  <2>1. Verifies(ResumeFlight(c), Keys(s, c), <<"hello", ServerHello>>)
    BY DEF Verifies, ResumeFlight, FinishedFlight, AfterHello
  <2> QED
    BY <1>1, <1>3, <2>1 DEF ReadHelloResume
<1>5. PICK y \in Peer, r \in Seq(Records) :
           /\ peer' = [peer EXCEPT ![c] = y] /\ sent' = [sent EXCEPT ![c] = r]
           /\ peer'[c] = y /\ sent'[c] = r
           /\ y.phase = "open" /\ y.session = s /\ y.contents = peer[c].contents
           /\ sent[c] = <<>> => r = batch
           /\ batch = <<>> => r = sent[c]
  <2>1. "open" \in Phases /\ s \in Clients \cup {None}
    BY <1>2 DEF Phases
  <2> HIDE DEF s
  <2> QED
    BY <1>4, <2>1, NewPeer
<1>6. /\ r = batch /\ Len(r) = 5 - 2
      /\ r[1] = ChangeCipher /\ r[2] = Finished(Keys(s, c)) /\ r[3] = Application(Keys(s, c))
  <2>1. r = batch
    BY <1>1, <1>5
  <2> HIDE DEF s
  <2> QED
    BY <1>3, <2>1
<1> HIDE DEF s
<1>7. \A j \in 1 .. Len(r) : SentAt(c, 2 + j, r[j])'
  <2>1. \A j \in 1 .. 3 : SentAt(c, 2 + j, r[j])'
    BY <1>5, <1>6 DEF SentAt, Phase
  <2> QED
    BY <1>6, <2>1
<1>8. ASSUME NEW i \in ConnIndex, conns[i].id = c, Live(c)
      PROVE  /\ Handled(i) = Received(c)
             /\ out[c] = <<out[c][1]>>
             /\ conns[i].sessionId = s /\ conns[i].keys = Keys(s, c) /\ conns[i].serverSequence = 1
             /\ conns[i].toDo = "WAIT_CLIENT_CHANGE" /\ conns[i].resume
  <2>1. c # None
    BY Sizes
  <2>2. EntryIsRight(c, conns[i], Handled(i))
    BY <1>8, <2>1 DEF TlsInv, EntryOf
  <2>3. ResumeAnswered(c, conns[i], Handled(i))
    BY <1>1, <2>2 DEF EntryIsRight, Fresh, Astray, NewDue, NewAnswered, ResumeDue, ResumeAnswered,
       Waits, Refused, ChangeDue, ChangeAnswered, Opened, HelloNew, ResumeFlight, FinishedFlight
  <2>4. Received(c) = 1
    BY <1>1 DEF Received, LastPlace
  <2> QED
    BY <2>3, <2>4 DEF ResumeAnswered, s
<1>9. peer[c].session = s
  BY DEF s
<1>10. y.contents = 0 /\ Phase(c) \in {"hello", "keyed"}
  BY <1>1, <1>2, <1>5
<1>11. PICK n \in {2, 4} : n = 2
  OBVIOUS
<1>12. Len(r) = 5 - n
  BY <1>6, <1>11
<1>13. \A j \in 1 .. Len(r) : SentAt(c, n + j, r[j])'
  BY <1>7, <1>11
<1>14. \A i \in ConnIndex : conns[i].id = c /\ Live(c) =>
         /\ Handled(i) = Received(c)
         /\ out[c] = <<out[c][1]>>
         /\ conns[i].sessionId = s /\ conns[i].keys = Keys(s, c) /\ conns[i].serverSequence = 1
         /\ n = 2 => conns[i].toDo = "WAIT_CLIENT_CHANGE" /\ conns[i].resume
         /\ n = 4 => conns[i].toDo = "APPLICATION"
  BY <1>8, <1>11
<1> QED
  BY <1>1, <1>2, <1>5, <1>9, <1>10, <1>12, <1>13, <1>14, OpenStep, Zenon

LEMMA ReadChangeStep ==
  ASSUME TlsInv, NEW c \in Clients, out[c] # <<>>, ReadChange(c, Head(out[c])),
         out' = [out EXCEPT ![c] = Tail(@)], ReadLeaves
  PROVE  TlsInv'
<1>1. /\ Head(out[c]) = ChangeFlight(c) /\ out[c][1] = ChangeFlight(c)
      /\ Phase(c) = "keyed" /\ sent[c] = <<>>
  BY FlightKinds DEF ReadChange
<1>2. peer[c].session = c /\ peer[c].contents = 0 /\ HasMaster(c)
  BY <1>1, FirstFlight DEF TlsInv, ClientIsRight, SessionsAreRight, ChangedAreRight
<1>3. PICK batch \in Seq(Records) : batch = <<Application(Keys(c, c))>>
  <2>1. Keys(c, c) \in AllKeys
    BY DEF Keys, Master, AllKeys, Masters
  <2>2. <<Application(Keys(c, c))>> \in Seq(Records)
    BY <2>1 DEF Records
  <2> QED
    BY <2>2
<1>4. Becomes(c, "open", c, batch)
  <2>1. Verifies(ChangeFlight(c), Keys(c, c), <<"hello", ServerHello, "keyExchange", "finished">>)
    BY DEF Verifies, ChangeFlight, FinishedFlight, AfterFinished
  <2> QED
    BY <1>1, <1>3, <2>1 DEF ReadChange
<1>5. PICK y \in Peer, r \in Seq(Records) :
           /\ peer' = [peer EXCEPT ![c] = y] /\ sent' = [sent EXCEPT ![c] = r]
           /\ peer'[c] = y /\ sent'[c] = r
           /\ y.phase = "open" /\ y.session = c /\ y.contents = peer[c].contents
           /\ sent[c] = <<>> => r = batch
           /\ batch = <<>> => r = sent[c]
  <2>1. "open" \in Phases /\ c \in Clients \cup {None}
    BY DEF Phases
  <2> QED
    BY <1>4, <2>1, NewPeer
<1>6. r = batch /\ Len(r) = 5 - 4 /\ r[1] = Application(Keys(c, c))
  <2>1. r = batch
    BY <1>1, <1>5
  <2> QED
    BY <1>3, <2>1
<1>7. \A j \in 1 .. Len(r) : SentAt(c, 4 + j, r[j])'
  <2>1. \A j \in 1 .. 1 : SentAt(c, 4 + j, r[j])'
    BY <1>5, <1>6 DEF SentAt, Phase
  <2> QED
    BY <1>6, <2>1
<1>8. ASSUME NEW i \in ConnIndex, conns[i].id = c, Live(c)
      PROVE  /\ Handled(i) = Received(c)
             /\ out[c] = <<out[c][1]>>
             /\ conns[i].sessionId = c /\ conns[i].keys = Keys(c, c) /\ conns[i].serverSequence = 1
             /\ conns[i].toDo = "APPLICATION"
  <2>1. c # None
    BY Sizes
  <2>2. EntryIsRight(c, conns[i], Handled(i))
    BY <1>8, <2>1 DEF TlsInv, EntryOf
  <2>3. ChangeAnswered(c, conns[i], Handled(i))
    BY <1>1, <2>2 DEF EntryIsRight, Fresh, Astray, NewDue, NewAnswered, ResumeDue, ResumeAnswered,
       Waits, Refused, ChangeDue, ChangeAnswered, Opened, HelloNew, ChangeFlight, FinishedFlight
  <2>4. Received(c) = 4
    BY <1>1 DEF Received, LastPlace
  <2> QED
    BY <2>3, <2>4 DEF ChangeAnswered
<1>9. y.contents = 0 /\ Phase(c) \in {"hello", "keyed"}
  BY <1>1, <1>2, <1>5
<1>10. PICK n \in {2, 4} : n = 4
  OBVIOUS
<1>11. Len(r) = 5 - n
  BY <1>6, <1>10
<1>12. \A j \in 1 .. Len(r) : SentAt(c, n + j, r[j])'
  BY <1>7, <1>10
<1>13. \A i \in ConnIndex : conns[i].id = c /\ Live(c) =>
         /\ Handled(i) = Received(c)
         /\ out[c] = <<out[c][1]>>
         /\ conns[i].sessionId = c /\ conns[i].keys = Keys(c, c) /\ conns[i].serverSequence = 1
         /\ n = 2 => conns[i].toDo = "WAIT_CLIENT_CHANGE" /\ conns[i].resume
         /\ n = 4 => conns[i].toDo = "APPLICATION"
  BY <1>8, <1>10
<1>14. c \in Trusted \/ (c = c /\ HasMaster(c))
  BY <1>2
<1> QED
  BY <1>1, <1>2, <1>5, <1>9, <1>11, <1>12, <1>13, <1>14, OpenStep, ZenonT(90)

\* A client that has read the last there is.
LEMMA ReadLastStep ==
  ASSUME TlsInv, NEW c \in Clients, out[c] # <<>>, Len(out[c]) = 1, c \in over,
         NEW y \in Peer, y.phase \in {"done", "alerted", "unread"}, y.session = peer[c].session,
         y.phase = "done" => Phase(c) = "open",
         peer' = [peer EXCEPT ![c] = y], peer'[c] = y, sent' = [sent EXCEPT ![c] = sent[c]],
         out' = [out EXCEPT ![c] = Tail(@)], ReadLeaves
  PROVE  TlsInv'
<1> DEFINE o == Tail(out[c])
<1>1. sent[c] \in Seq(Records) /\ c # None
  BY Sizes DEF TlsInv, ClientTypes
<1>2. o \in Seq(Flights) /\ Len(o) = 0
  BY FirstFlight
<1>3. o = <<>>
  <2> HIDE DEF o
  <2> QED
    BY <1>2
<1>4. out'[c] = o
  BY DEF TlsInv, ServerTypes
<1>5. Phase(c)' = y.phase /\ ~ Live(c) /\ ~ Live(c)'
  BY DEF Phase, Live, ReadLeaves
<1>6. RecordsOf(c)' /\ FlightsOf(c)'
  <2>1. Len(out'[c]) = 0
    BY <1>2, <1>4
  <2>2. RecordsOf(c)'
    BY <1>5 DEF RecordsOf
  <2>3. FlightsOf(c)'
    <3>1. ASSUME NEW n, n = 0 PROVE 1 .. n = {}
      BY <3>1
    <3>2. 1 .. Len(out'[c]) = {}
      BY <2>1, <3>1, Zenon
    <3> QED
      BY <3>2, Zenon DEF FlightsOf
  <2> QED
    BY <2>2, <2>3
<1>7. ClientIsRight(c)'
  BY <1>3, <1>4, <1>5, FirstFlight DEF ClientIsRight, ReadLeaves, NoSessionOf, TlsInv
<1>8. ASSUME NEW i \in ConnIndex, conns[i].id = c PROVE EntryOf(i)'
  BY <1>1, <1>5, <1>8 DEF TlsInv, EntryOf, ReadLeaves
<1>9. \A j \in 1 .. Len(o) : o[j] # ChangeFlight(c)
  BY <1>2
<1>10. y.phase = "done" => y.session \in Trusted \cup {None}
  BY DEF Trusted
<1> HIDE DEF o
<1> QED
  BY <1>1, <1>6, <1>7, <1>8, <1>9, <1>10, ReadingStep DEF o, ReadLeaves

LEMMA ReadAlertStep ==
  ASSUME TlsInv, NEW c \in Clients, out[c] # <<>>, ReadAlert(c, Head(out[c])),
         out' = [out EXCEPT ![c] = Tail(@)], ReadLeaves
  PROVE  TlsInv'
<1>1. Len(out[c]) = 1 /\ c \in over
  BY FlightKinds DEF ReadAlert
<1>2. PICK none \in Seq(Records) : none = <<>>
  <2>1. <<>> \in Seq(Records)
    OBVIOUS
  <2> QED
    BY <2>1
<1>3. PICK s \in Clients \cup {None} : s = peer[c].session
  BY DEF TlsInv, ClientTypes, Peer
<1>9. PICK phase \in Phases : phase \in {"alerted", "unread"} /\ Becomes(c, phase, s, none)
  BY <1>2, <1>3 DEF ReadAlert, Phases
<1>4. PICK y \in Peer, r \in Seq(Records) :
           /\ peer' = [peer EXCEPT ![c] = y] /\ sent' = [sent EXCEPT ![c] = r]
           /\ peer'[c] = y /\ sent'[c] = r
           /\ y.phase = phase /\ y.session = s /\ y.contents = peer[c].contents
           /\ sent[c] = <<>> => r = none
           /\ none = <<>> => r = sent[c]
  BY <1>9, NewPeer
<1>5. sent' = [sent EXCEPT ![c] = sent[c]]
  BY <1>2, <1>4
<1> QED
  BY <1>1, <1>3, <1>4, <1>5, <1>9, ReadLastStep

LEMMA ReadContentStep ==
  ASSUME TlsInv, NEW c \in Clients, out[c] # <<>>, ReadContent(c, Head(out[c])),
         out' = [out EXCEPT ![c] = Tail(@)], ReadLeaves
  PROVE  TlsInv'
<1> DEFINE o == Tail(out[c])
           s == peer[c].session
           n == peer[c].contents
<1>1. /\ Phase(c) = "open"
      /\ \E last \in BOOLEAN : /\ Head(out[c]) = Content(Keys(s, c), n + 1, last)
                               /\ last => Len(out[c]) = 1 /\ c \in over
  BY FlightKinds DEF ReadContent
<1>2. PICK last \in BOOLEAN : /\ Head(out[c]) = Content(Keys(s, c), n + 1, last)
                              /\ last => Len(out[c]) = 1 /\ c \in over
  BY <1>1
<1>3. /\ Head(out[c]).keys = Keys(s, c) /\ Head(out[c]).sequence = n + 1
      /\ Head(out[c]).last = last
  BY <1>2 DEF Content
<1> DEFINE y == [peer[c] EXCEPT !.phase = IF last THEN "done" ELSE @, !.contents = @ + 1]
<1>4. peer \in [Clients -> Peer] /\ peer[c] \in Peer /\ n \in Nat /\ sent \in [Clients -> Seq(Records)]
  BY DEF TlsInv, ClientTypes, Peer
<1>5. peer' = [peer EXCEPT ![c] = y] /\ sent' = sent
  BY <1>1, <1>3, <1>4 DEF ReadContent
<1>6. /\ y \in Peer /\ y.phase = (IF last THEN "done" ELSE "open") /\ y.session = s
      /\ y.contents = n + 1
  <2>1. peer[c].phase = "open" /\ peer[c] \in Peer /\ n + 1 \in Nat
    BY <1>1, <1>4 DEF Phase
  <2>2. y = [peer[c] EXCEPT !.phase = IF last THEN "done" ELSE "open", !.contents = n + 1]
    BY <2>1
  <2>3. y.phase \in {"done", "open"} /\ y.phase = (IF last THEN "done" ELSE "open")
    BY <2>1, <2>2 DEF Peer
  <2>4. y.session = s /\ y.contents = n + 1
    BY <2>1, <2>2 DEF Peer
  <2>5. y \in Peer
    BY <2>1, <2>2 DEF Peer, Phases
  <2> QED
    BY <2>3, <2>4, <2>5
<1> HIDE DEF y
<1>7. peer'[c] = y /\ sent' = [sent EXCEPT ![c] = sent[c]]
  BY <1>4, <1>5
<1>8. CASE last
  <2>1. Len(out[c]) = 1 /\ c \in over
    BY <1>2, <1>8
  <2> QED
    BY <1>1, <1>5, <1>6, <1>7, <1>8, <2>1, ReadLastStep
<1>9. CASE ~ last
  <2>1. Phase(c)' = "open" /\ c # None
    BY <1>6, <1>7, <1>9, Sizes DEF Phase
  <2>2. out'[c] = o
    BY DEF TlsInv, ServerTypes
  <2>3. Received(c)' = Received(c)
    BY <1>1, <1>5, <2>1 DEF Received, LastPlace
  <2>4. Live(c)' = Live(c)
    BY <1>1, <2>1 DEF Live, ReadLeaves
  <2>5. RecordsOf(c)'
    <3>1. peer'[c].session = peer[c].session /\ Phase(c)' = Phase(c) /\ sent'[c] = sent[c]
      BY <1>1, <1>5, <1>6, <1>7, <2>1
    <3>2. \A q, x : SentAt(c, q, x)' = SentAt(c, q, x)
      BY <3>1 DEF SentAt, Phase
    <3> QED
      BY <2>3, <2>4, <3>1, <3>2 DEF TlsInv, RecordsOf
  <2>6. /\ o \in Seq(Flights) /\ Len(o) = Len(out[c]) - 1 /\ Len(out[c]) \in Nat \ {0}
        /\ \A j \in 1 .. Len(o) : o[j] = out[c][j + 1]
    BY FirstFlight
  <2> HIDE DEF o, s, n
  <2>7. FlightsOf(c)'
    <3> SUFFICES ASSUME NEW j \in 1 .. Len(out'[c]) PROVE FlightIsRight(c, j)'
      BY DEF FlightsOf
    <3>1. j \in 1 .. Len(o) /\ j + 1 \in 1 .. Len(out[c]) /\ o[j] = out[c][j + 1] /\ j + 1 # 1
      BY <2>2, <2>6
    <3>2. FlightIsRight(c, j + 1)
      BY <3>1 DEF TlsInv, FlightsOf
    <3>3. CASE out[c][j + 1] = Alert /\ j + 1 = Len(out[c]) /\ c \in over
      BY <2>2, <2>6, <3>1, <3>3 DEF FlightIsRight, ReadLeaves
    <3>4. CASE \E l \in BOOLEAN : /\ out[c][j + 1] = Content(Keys(s, c), n + (j + 1), l)
                                  /\ l => j + 1 = Len(out[c]) /\ c \in over
      <4>1. PICK l \in BOOLEAN : /\ out[c][j + 1] = Content(Keys(s, c), n + (j + 1), l)
                                 /\ l => j + 1 = Len(out[c]) /\ c \in over
        BY <3>4
      <4>2. n + (j + 1) = (n + 1) + j
        BY <1>4, <3>1
      <4>3. out'[c][j] = Content(Keys(s, c), (n + 1) + j, l)
        BY <2>2, <3>1, <4>1, <4>2
      <4>4. l => j = Len(out'[c]) /\ c \in over'
        BY <2>2, <2>6, <3>1, <4>1 DEF ReadLeaves
      <4> QED
        BY <1>6, <1>7, <2>1, <4>3, <4>4 DEF FlightIsRight
    <3> QED
      BY <1>1, <3>1, <3>2, <3>3, <3>4 DEF FlightIsRight, s, n
  <2>8. ClientIsRight(c)'
    <3>1. s # None
      BY <1>1 DEF TlsInv, ClientIsRight, s
    <3> QED
      BY <1>6, <1>7, <2>1, <3>1, FirstFlight DEF ClientIsRight, ReadLeaves, NoSessionOf
  <2>9. ASSUME NEW i \in ConnIndex, conns[i].id = c PROVE EntryOf(i)'
    <3>1. CASE Live(c)
      <4>1. EntryIsRight(c, conns[i], Handled(i))
        BY <2>1, <2>9, <3>1 DEF TlsInv, EntryOf
      <4>2. Opened(c, conns[i], Handled(i))
        BY <1>1, <4>1 DEF EntryIsRight, Fresh, Astray, NewDue, NewAnswered, ResumeDue,
           ResumeAnswered, Waits, Refused, ChangeDue, ChangeAnswered, Opened
      <4>3. Handled(i)' = Handled(i)
        BY <2>3, <2>9 DEF Handled, LeftOf, Idle, ReadLeaves
      <4>4. n + Len(out[c]) + 1 = (n + 1) + Len(o) + 1
        <5>1. PICK m \in Nat : m = Len(out[c])
          BY <2>6
        <5>2. PICK k \in Nat : k = n
          BY <1>4 DEF n
        <5>3. PICK l \in Int : l = Len(o) /\ l = m - 1
          BY <2>6, <5>1
        <5>4. k + m + 1 = (k + 1) + l + 1
          BY <5>3
        <5> QED
          BY <5>1, <5>2, <5>3, <5>4
      <4>5. Opened(c, conns[i], Handled(i))'
        BY <1>6, <1>7, <2>1, <2>2, <4>2, <4>3, <4>4 DEF Opened, ReadLeaves, n, s
      <4> QED
        BY <2>1, <2>4, <2>9, <3>1, <4>5, FirstFlight DEF EntryOf, EntryIsRight, ReadLeaves
    <3>2. CASE ~ Live(c)
      BY <2>1, <2>4, <2>9, <3>2 DEF TlsInv, EntryOf, ReadLeaves
    <3> QED
      BY <3>1, <3>2
  <2>10. s \in Trusted \cup {None}
    BY <1>1 DEF Trusted, s
  <2>11. sent[c] \in Seq(Records)
    BY <1>4
  <2>12. y.phase = "open"
    BY <1>6, <1>9
  <2> QED
    BY <1>5, <1>6, <1>7, <2>5, <2>7, <2>8, <2>9, <2>10, <2>11, <2>12, ReadingStep DEF s, ReadLeaves
<1> QED
  BY <1>8, <1>9

LEMMA ReadStep ==
  ASSUME TlsInv, NEW c \in Clients, Read(c)
  PROVE  TlsInv'
BY ReadHelloNewStep, ReadHelloResumeStep, ReadChangeStep, ReadContentStep, ReadAlertStep
   DEF Read, ReadLeaves

-----------------------------------------------------------------------------
(***************************************************************************)
(* Steps of the server that change the entry of one client                 *)
(***************************************************************************)
SessionIdsDiffer ==
  \A k, l \in SessIndex : sessions[k].id # None /\ sessions[k].id = sessions[l].id => k = l

LEMMA EntryStep ==
  ASSUME TlsInv, NEW c \in Clients, NEW i \in ConnIndex, conns[i].id = c,
         NEW p \in Connection, p.id = c, conns' = [conns EXCEPT ![i] = p], UNCHANGED <<peer, begun>>,
         \A d \in Clients \ {c} : Stands(d) /\ (NoneIsWaiting(d) => NoneIsWaiting(d)'),
         \A j \in ConnIndex \ {i} : LeftOf(j)' = LeftOf(j),
         ServerTypes', ClientTypes', SessionIdsDiffer',
         RecordsOf(c)', FlightsOf(c)', ClientIsRight(c)', EntryOf(i)',
         RunningInOrder', PutByIsHandled', SessionsAreRight', WaitsForOwnSlot', SessionHasItsMaster'
  PROVE  TlsInv'
<1>1. conns \in [ConnIndex -> Connection] /\ c # None
  BY Sizes DEF TlsInv, ServerTypes
<1>2. conns'[i] = p /\ \A j \in ConnIndex \ {i} : conns'[j] = conns[j] /\ conns[j].id # c
  BY <1>1 DEF TlsInv, NoneTwice
<1>3. \A d \in Clients : RecordsOf(d)' /\ FlightsOf(d)' /\ ClientIsRight(d)'
  BY ClientStands DEF TlsInv
<1>4. \A j \in ConnIndex : EntryOf(j)'
  <2> SUFFICES ASSUME NEW j \in ConnIndex \ {i} PROVE EntryOf(j)'
    OBVIOUS
  <2>1. conns'[j] = conns[j] /\ conns[j].id # c
    BY <1>2
  <2>2. CASE conns[j].id = None
    BY <2>1, <2>2 DEF EntryOf
  <2>3. CASE conns[j].id # None
    <3>1. conns[j].id \in Clients \ {c}
      BY <2>1, <2>3, EntryIsConnected
    <3> QED
      BY <2>1, <3>1, EntryStands DEF TlsInv
  <2> QED
    BY <2>2, <2>3
<1>5. NoneTwice'
  BY <1>1, <1>2 DEF TlsInv, NoneTwice, SessionIdsDiffer
<1>6. EmptyAreIdle'
  BY <1>1, <1>2 DEF TlsInv, EmptyAreIdle
<1> QED
  BY <1>3, <1>4, <1>5, <1>6 DEF TlsInv

\* A session that stands for others: what they need of the table is as before.
LEMMA SessionsFor ==
  ASSUME UNCHANGED sessions, NEW d
  PROVE  /\ NoSessionOf(d) => NoSessionOf(d)'
         /\ NoneIsWaiting(d) => NoneIsWaiting(d)'
         /\ HasMaster(d) => HasMaster(d)'
         /\ SessionIdsDiffer => SessionIdsDiffer'
BY DEF NoSessionOf, NoneIsWaiting, HasMaster, SessionIdsDiffer

LEMMA TrustStays ==
  ASSUME TrustedAreRight, UNCHANGED <<peer, sessions>>
  PROVE  TrustedAreRight'
BY DEF TrustedAreRight, Trusted, HasMaster, Phase

LEMMA ChangedStay ==
  ASSUME ChangedAreRight, UNCHANGED <<peer, out, sessions>>
  PROVE  ChangedAreRight'
BY DEF ChangedAreRight, HasMaster, Phase, ChangeFlight

\* Keys stay right where no entry gets new ones.
LEMMA OldKeysStay ==
  ASSUME KeysAreRight, UNCHANGED sessions, begun \subseteq begun',
         \A i \in ConnIndex : conns'[i].keys = conns[i].keys /\ conns'[i].id \in {conns[i].id, None}
  PROVE  KeysAreRight'
<1> SUFFICES ASSUME NEW i \in ConnIndex, NEW c \in Clients, conns'[i].keys = Keys(c, c)
             PROVE  c \in begun' /\ (conns'[i].id = c => HasMaster(c)')
  BY DEF KeysAreRight, Keys, Master
<1>1. conns[i].keys = Keys(c, c) /\ (conns'[i].id = c => conns[i].id = c)
  BY Sizes
<1>2. c \in begun /\ (conns[i].id = c => HasMaster(c))
  BY <1>1 DEF KeysAreRight
<1> QED
  BY <1>1, <1>2, SessionsFor

\* A connection waits for its slot as before, or not at all.
LEMMA SlotsStay ==
  ASSUME WaitsForOwnSlot, UNCHANGED <<job, sessions>>, short => short',
         \A i \in ConnIndex :
           \/ conns'[i].toDo # "WAIT_DECRYPT_MASTER_SECRET"
           \/ /\ conns'[i].toDo = conns[i].toDo /\ conns'[i].sessionId = conns[i].sessionId
              /\ conns'[i].slot = conns[i].slot /\ conns'[i].id = conns[i].id
  PROVE  WaitsForOwnSlot'
BY DEF WaitsForOwnSlot, Waiting, SessionsOf, EntriesOf

LEMMA MastersStay ==
  ASSUME SessionHasItsMaster, UNCHANGED sessions, short => short'
  PROVE  SessionHasItsMaster'
BY DEF SessionHasItsMaster

-----------------------------------------------------------------------------
(***************************************************************************)
(* The handlers                                                            *)
(***************************************************************************)
\* The record that is handled, and the entry it is for.
LEMMA WhatIsHandled ==
  ASSUME TlsInv, ~ Idle
  PROVE  LET i == running.index
             c == conns[i].id
             q == Handled(i)
         IN
         /\ i \in ConnIndex /\ c \in Clients /\ Live(c) /\ c \in begun
         /\ running.records \in Seq(Records) /\ Len(running.records) \in Nat \ {0}
         /\ Record \in Records /\ Record = running.records[1] /\ running.deferring \in BOOLEAN
         /\ q \in Int /\ conns[i] \in Connection
         /\ EntryIsRight(c, conns[i], q)
         /\ running.deferring => SentAt(c, q + 1, Record)
         /\ ~ running.deferring =>
              /\ Waits(c, conns[i], q) /\ conns[i].handshakeSha = AfterKeyExchange
              /\ Len(running.records) = 1
              /\ NoneIsWaiting(c)
              /\ Record = IF q = 4 THEN Finished(Keys(c, c)) ELSE NoRecord
<1> DEFINE i == running.index
           c == conns[i].id
           q == Handled(i)
<1>1. /\ i \in ConnIndex /\ running.records \in Seq(Records) /\ running.records # <<>>
      /\ running.deferring \in BOOLEAN
  BY DEF TlsInv, ServerTypes, Call
<1>2. Len(running.records) \in Nat \ {0} /\ Record = running.records[1] /\ Record \in Records
  BY <1>1 DEF Record
<1>3. c \in Clients /\ Live(c) /\ c # None
  BY Sizes DEF TlsInv, RunningInOrder
<1>4. EntryIsRight(c, conns[i], q) /\ c \in begun /\ conns[i] \in Connection
  BY <1>1, <1>3 DEF TlsInv, EntryOf, ServerTypes
<1>5. q \in Int
  <2>1. sent[c] \in Seq(Records)
    BY <1>3 DEF TlsInv, ClientTypes
  <2>2. Len(sent[c]) \in Nat
    BY <2>1
  <2>3. LeftOf(i) \in Nat
    BY <1>1 DEF LeftOf
  <2>4. LastPlace(Phase(c)) \in Nat
    BY DEF LastPlace
  <2> QED
    BY <2>2, <2>3, <2>4 DEF Handled, Received
<1>6. running.deferring => SentAt(c, q + 1, Record)
  <2>1. 1 \in 1 .. Len(running.records)
    BY <1>2
  <2> QED
    BY <1>2, <2>1 DEF TlsInv, RunningInOrder
<1>7. ASSUME ~ running.deferring
      PROVE  /\ Waits(c, conns[i], q) /\ conns[i].handshakeSha = AfterKeyExchange
             /\ Len(running.records) = 1
             /\ NoneIsWaiting(c)
             /\ Record = IF q = 4 THEN Finished(Keys(c, c)) ELSE NoRecord
  <2>1. /\ running.records = <<conns[i].deferred>>
        /\ conns[i].toDo = "WAIT_DECRYPT_MASTER_SECRET"
        /\ conns[i].handshakeSha = AfterKeyExchange
        /\ NoneIsWaiting(c)
    BY <1>7 DEF TlsInv, PutByIsHandled
  <2> HIDE DEF q, c, i
  <2>2. Waits(c, conns[i], q)
    BY <1>4, <2>1 DEF EntryIsRight, Fresh, Astray, NewDue, NewAnswered, ResumeDue,
           ResumeAnswered, Waits, Refused, ChangeDue, ChangeAnswered, Opened
  <2>3. Record = conns[i].deferred /\ Len(running.records) = 1
    BY <2>1 DEF Record
  <2> QED
    BY <2>1, <2>2, <2>3 DEF Waits
<1> QED
  BY <1>1, <1>2, <1>3, <1>4, <1>5, <1>6, <1>7

\* A record is handled: the entry is right with it, and so are the records left.
LEMMA HandlingStep ==
  ASSUME TlsInv, ~ Idle, NEW i \in ConnIndex, running.index = i, NEW c \in Clients, conns[i].id = c,
         NEW p \in Connection, p.id = c, conns' = [conns EXCEPT ![i] = p],
         running' = IF Len(running.records) = 1 THEN <<>>
                    ELSE [running EXCEPT !.records = Tail(@)],
         UNCHANGED <<connUsed, next, out, over, peer, sent, begun>>,
         short' \in BOOLEAN,
         sessions' \in [SessIndex -> Session], sessUsed' \in [SessIndex -> Nat],
         job' \in [Rsa!Slot -> Rsa!Jobs],
         http' \subseteq Clients, http' \subseteq http \cup {c},
         c \in http' => c \in http \/ Phase(c) = "open",
         \A d \in Clients \ {c} : /\ NoSessionOf(d) => NoSessionOf(d)'
                                  /\ NoneIsWaiting(d) => NoneIsWaiting(d)',
         NEW q, q = (IF running.deferring THEN Handled(i) + 1 ELSE Handled(i)),
         EntryIsRight(c, p, q)',
         SessionIdsDiffer', SessionsAreRight', WaitsForOwnSlot', SessionHasItsMaster'
  PROVE  TlsInv'
<1> DEFINE n == Len(running.records)
<1>1. /\ running \in Call /\ running.records \in Seq(Records) /\ n \in Nat \ {0}
      /\ Live(c) /\ c \in begun /\ Handled(i) \in Int /\ c # None
      /\ ~ running.deferring => n = 1
  BY WhatIsHandled, Sizes DEF TlsInv, ServerTypes
<1>2. /\ ~ Idle' => n # 1
      /\ n # 1 => /\ ~ Idle' /\ running' \in Call /\ running'.index = i /\ running'.deferring
                  /\ running.deferring
                  /\ running'.records = Tail(running.records) /\ Len(running'.records) = n - 1
                  /\ running'.records # <<>>
  <2>1. CASE n = 1
    BY <2>1 DEF Idle
  <2>2. CASE n # 1
    <3>1. running' = [running EXCEPT !.records = Tail(@)]
      BY <2>2
    <3>2. Tail(running.records) \in Seq(Records) /\ Len(Tail(running.records)) = n - 1
      BY <1>1
    <3>3. Tail(running.records) # <<>>
      <4>1. Len(Tail(running.records)) # 0 /\ Len(<<>>) = 0
        BY <1>1, <2>2, <3>2
      <4> QED
        BY <4>1
    <3>4. running.deferring
      BY <1>1, <2>2
    <3>5. running' \in Call /\ running'.index = i /\ running'.deferring = running.deferring
          /\ running'.records = Tail(running.records)
      BY <1>1, <3>1, <3>2 DEF Call
    <3>6. running' # <<>>
      BY <3>5 DEF Call
    <3> QED
      BY <2>2, <3>2, <3>3, <3>4, <3>5, <3>6 DEF Idle
  <2> QED
    BY <2>1, <2>2
<1>3. conns \in [ConnIndex -> Connection] /\ conns'[i] = p
  BY <1>1 DEF TlsInv, ServerTypes
<1>4. ServerTypes' /\ ClientTypes'
  <2>1. ServerTypes'
    BY <1>2, <1>3 DEF TlsInv, ServerTypes
  <2>2. ClientTypes'
    BY DEF TlsInv, ClientTypes
  <2> QED
    BY <2>1, <2>2
<1>5. \A d \in Clients \ {c} : Stands(d) /\ (NoneIsWaiting(d) => NoneIsWaiting(d)')
  BY DEF Stands
<1>6. /\ \A j \in ConnIndex \ {i} : LeftOf(j)' = LeftOf(j)
      /\ LeftOf(i) = IF running.deferring THEN n ELSE 0
      /\ LeftOf(i)' = IF running.deferring THEN n - 1 ELSE 0
  <2>1. \A j \in ConnIndex \ {i} : LeftOf(j)' = 0 /\ LeftOf(j) = 0
    BY <1>2 DEF LeftOf
  <2>2. LeftOf(i) = IF running.deferring THEN n ELSE 0
    BY DEF LeftOf
  <2>3. LeftOf(i)' = IF running.deferring THEN n - 1 ELSE 0
    <3>1. CASE n = 1
      <4>1. Idle'
        BY <1>2, <3>1
      <4>2. LeftOf(i)' = 0
        BY <4>1 DEF LeftOf
      <4> QED
        BY <3>1, <4>2
    <3>2. CASE n # 1
      <4> HIDE DEF n
      <4> QED
        BY <1>2, <3>2 DEF LeftOf
    <3> QED
      BY <3>1, <3>2
  <2> QED
    BY <2>1, <2>2, <2>3
<1>7. Received(c) \in Int /\ Received(c)' = Received(c)
  <2>1. sent[c] \in Seq(Records)
    BY DEF TlsInv, ClientTypes
  <2>2. Len(sent[c]) \in Nat
    BY <2>1
  <2>3. LastPlace(Phase(c)) \in Nat
    BY DEF LastPlace
  <2> QED
    BY <2>2, <2>3 DEF Received, Phase
<1>8. Handled(i)' = q
  <2>1. Handled(i)' = Received(c) - LeftOf(i)'
    BY <1>3, <1>7 DEF Handled
  <2>2. Handled(i) = Received(c) - LeftOf(i)
    BY DEF Handled
  <2> HIDE DEF n
  <2> QED
    BY <1>1, <1>6, <1>7, <2>1, <2>2
<1>9. Live(c)' /\ Phase(c)' = Phase(c) /\ Phase(c) # "new"
  BY <1>1 DEF Live, Phase
<1>10. EntryOf(i)'
  BY <1>1, <1>3, <1>8, <1>9 DEF EntryOf
<1>11. RecordsOf(c)' /\ FlightsOf(c)'
  <2>1. RecordsOf(c)'
    BY <1>1, <1>7, <1>9 DEF TlsInv, RecordsOf, SentAt, Phase
  <2>2. FlightsOf(c)'
    BY DEF TlsInv, FlightsOf, FlightIsRight, Phase, ChangeFlight, ResumeFlight
  <2> QED
    BY <2>1, <2>2
<1>12. ClientIsRight(c)'
  BY <1>1, <1>9 DEF TlsInv, ClientIsRight
<1>13. RunningInOrder'
  <2> SUFFICES ASSUME ~ Idle'
               PROVE  /\ conns'[running'.index].id \in Clients /\ Live(conns[running.index].id)'
                      /\ \A j \in 1 .. Len(running'.records) :
                           SentAt(conns[running.index].id, Handled(running.index) + j, running.records[j])'
    BY DEF RunningInOrder
  <2>1. /\ n # 1 /\ running'.index = i /\ running.deferring
        /\ running'.records = Tail(running.records) /\ Len(running'.records) = n - 1
    BY <1>2
  <2>2. conns'[running'.index].id = c
    BY <1>3, <2>1
  <2>3. ASSUME NEW j \in 1 .. Len(running'.records)
        PROVE  SentAt(conns[running.index].id, Handled(running.index) + j, running.records[j])'
    <3>1. j + 1 \in 1 .. n /\ running'.records[j] = running.records[j + 1]
      BY <1>1, <2>1, <2>3
    <3>2. SentAt(c, Handled(i) + (j + 1), running.records[j + 1])
      BY <2>1, <3>1 DEF TlsInv, RunningInOrder
    <3>3. Handled(i)' + j = Handled(i) + (j + 1)
      BY <1>1, <1>8, <2>1, <2>3
    <3>4. SentAt(c, Handled(i) + (j + 1), running.records[j + 1])
          <=> SentAt(c, Handled(i)' + j, running'.records[j])
      BY <3>1, <3>3
    <3>5. \A x, y : SentAt(c, x, y) => SentAt(c, x, y)'
      BY DEF SentAt, Phase
    <3>6. SentAt(c, Handled(i)' + j, running'.records[j])
      BY <3>2, <3>4
    <3>7. SentAt(c, Handled(i) + j, running.records[j])'
      BY <3>5, <3>6, <2>1, <2>2
    <3> QED
      BY <3>7, <2>1, <2>2
  <2> QED
    BY <1>9, <2>2, <2>3
<1>14. PutByIsHandled'
  BY <1>2 DEF PutByIsHandled
<1> QED
  BY <1>1, <1>3, <1>4, <1>5, <1>6, <1>10, <1>11, <1>12, <1>13, <1>14, EntryStep

\* Which record is handled says how far its client and its entry are.
LEMMA RecordKinds ==
  ASSUME TlsInv, ~ Idle
  PROVE  LET i == running.index
             c == conns[i].id
             p == conns[i]
             q == Handled(i)
         IN
         /\ Record.type = "hello" =>
              /\ running.deferring /\ q = 0 /\ Phase(c) = "hello"
              /\ Record = Hello(peer[c].session) /\ Fresh(c, p, q)
         /\ Record.type \in {"shortHello", "heartbeat"} =>
              running.deferring /\ q = 0 /\ Phase(c) = "astray" /\ Fresh(c, p, q)
         /\ Record.type = "keyExchange" =>
              /\ running.deferring /\ q = 1 /\ Phase(c) = "keyed"
              /\ Record = KeyExchange(c) /\ NewAnswered(c, p, q)
         /\ Record.type = "shortKeyExchange" =>
              running.deferring /\ q = 1 /\ Phase(c) = "careless" /\ NewAnswered(c, p, q)
         /\ Record.type = "changeCipher" =>
              running.deferring /\ q = 2 /\ (Waits(c, p, q) \/ Refused(c, p, q) \/ Opened(c, p, q))
         /\ Record.type = "finished" =>
              /\ Record = Finished(Keys(peer[c].session, c))
              /\ \/ /\ running.deferring /\ q = 3
                    /\ Waits(c, p, q) \/ Refused(c, p, q) \/ Opened(c, p, q)
                 \/ ~ running.deferring /\ q = 4 /\ Waits(c, p, q)
         /\ Record.type = "application" =>
              /\ running.deferring /\ q = 4 /\ Phase(c) = "open" /\ Opened(c, p, q)
              /\ Record = Application(Keys(peer[c].session, c))
         /\ Record.type = "none" => ~ running.deferring /\ Record = NoRecord /\ Waits(c, p, q)
<1> DEFINE i == running.index
           c == conns[i].id
           p == conns[i]
           q == Handled(i)
<1>1. /\ c \in Clients /\ q \in Int /\ EntryIsRight(c, p, q)
      /\ running.deferring => SentAt(c, q + 1, Record)
      /\ ~ running.deferring =>
           Waits(c, p, q) /\ Record = IF q = 4 THEN Finished(Keys(c, c)) ELSE NoRecord
  BY WhatIsHandled
<1>2. Phase(c) = "keyed" => peer[c].session = c
  BY <1>1 DEF TlsInv, ClientIsRight
<1>3. /\ \A s : Hello(s).type = "hello" /\ KeyExchange(s).type = "keyExchange"
                /\ Finished(s).type = "finished" /\ Application(s).type = "application"
      /\ ChangeCipher.type = "changeCipher" /\ ShortHello.type = "shortHello"
      /\ ShortKeyExchange.type = "shortKeyExchange" /\ Heartbeat.type = "heartbeat"
      /\ NoRecord.type = "none"
  BY DEF Hello, KeyExchange, Finished, Application, ChangeCipher, ShortHello, ShortKeyExchange,
     Heartbeat, NoRecord
<1> HIDE DEF i, c, p, q
<1>4. CASE ~ running.deferring
  BY <1>1, <1>2, <1>3, <1>4 DEF Waits, i, c, p, q
<1>5. CASE running.deferring
  <2>1. q \in Int /\ SentAt(c, q + 1, Record) /\ EntryIsRight(c, p, q)
    BY <1>1, <1>5
  <2>2. \/ /\ q = 0 /\ Phase(c) = "hello" /\ Record = Hello(peer[c].session)
        \/ q = 0 /\ Phase(c) = "astray" /\ Record \in {ShortHello, Heartbeat}
        \/ q = 1 /\ Phase(c) = "keyed" /\ Record = KeyExchange(c)
        \/ q = 1 /\ Phase(c) = "careless" /\ Record = ShortKeyExchange
        \/ q = 2 /\ Phase(c) \in {"keyed", "careless", "open"} /\ Record = ChangeCipher
        \/ /\ q = 3 /\ Phase(c) \in {"keyed", "careless", "open"}
           /\ Record = Finished(Keys(peer[c].session, c))
        \/ q = 4 /\ Phase(c) = "open" /\ Record = Application(Keys(peer[c].session, c))
    BY <2>1 DEF SentAt
  <2>3. /\ Phase(c) \in {"hello", "astray"} /\ q = 0 => Fresh(c, p, q)
        /\ Phase(c) \in {"keyed", "careless"} /\ q = 1 => NewAnswered(c, p, q)
        /\ q \in {2, 3} => Waits(c, p, q) \/ Refused(c, p, q) \/ Opened(c, p, q)
        /\ Phase(c) = "open" => Opened(c, p, q)
    BY <2>1 DEF EntryIsRight, Fresh, Astray, NewDue, NewAnswered, ResumeDue, ResumeAnswered, Waits,
       Refused, ChangeDue, ChangeAnswered, Opened
  <2> QED
    BY <1>3, <1>5, <2>2, <2>3 DEF i, c, p, q
<1> QED
  BY <1>4, <1>5

\* A record that leaves sessions, slots and keys alone.
LEMMA QuietStep ==
  ASSUME TlsInv, ~ Idle, NEW i \in ConnIndex, running.index = i, NEW c \in Clients, conns[i].id = c,
         NEW p \in Connection, p.id = c, p.keys = conns[i].keys,
         p.toDo = "WAIT_DECRYPT_MASTER_SECRET" =>
           p.toDo = conns[i].toDo /\ p.sessionId = conns[i].sessionId /\ p.slot = conns[i].slot,
         conns' = [conns EXCEPT ![i] = p],
         running' = IF Len(running.records) = 1 THEN <<>>
                    ELSE [running EXCEPT !.records = Tail(@)],
         UNCHANGED <<connUsed, next, out, over, peer, sent, begun, sessions, job>>,
         sessUsed' = sessUsed \/ sessUsed' \in [SessIndex -> Nat],
         short' = short \/ short' = TRUE,
         http' = http \/ (http' = http \cup {c} /\ Phase(c) = "open"),
         NEW q, q = (IF running.deferring THEN Handled(i) + 1 ELSE Handled(i)),
         EntryIsRight(c, p, q)
  PROVE  TlsInv'
<1>1. /\ sessions \in [SessIndex -> Session] /\ sessUsed \in [SessIndex -> Nat]
      /\ job \in [Rsa!Slot -> Rsa!Jobs] /\ http \subseteq Clients
      /\ short \in BOOLEAN /\ conns \in [ConnIndex -> Connection] /\ SessionIdsDiffer
  BY DEF TlsInv, ServerTypes, ClientTypes, NoneTwice, SessionIdsDiffer
<1>2. conns'[i] = p /\ \A j \in ConnIndex \ {i} : conns'[j] = conns[j]
  BY <1>1
<1>3. EntryIsRight(c, p, q)'
  BY DEF EntryIsRight, Fresh, Astray, NewDue, NewAnswered, ResumeDue, ResumeAnswered, Waits,
       Refused, ChangeDue, ChangeAnswered, Opened, Phase, NoSessionOf, NoneIsWaiting, ResumeFlight,
       ChangeFlight
<1>4. SessionsAreRight'
  <2>1. KeysAreRight'
    BY <1>2, OldKeysStay DEF TlsInv, SessionsAreRight
  <2> QED
    BY <2>1, TrustStays, ChangedStay DEF TlsInv, SessionsAreRight
<1>5. WaitsForOwnSlot'
  BY <1>2, SlotsStay DEF TlsInv
<1>6. SessionHasItsMaster'
  BY MastersStay DEF TlsInv
<1>8. sessUsed' \in [SessIndex -> Nat] /\ short' \in BOOLEAN
  BY <1>1
<1>7. SessionIdsDiffer' /\ \A d \in Clients \ {c} : /\ NoSessionOf(d) => NoSessionOf(d)'
                                                    /\ NoneIsWaiting(d) => NoneIsWaiting(d)'
  BY <1>1, SessionsFor
<1> QED
  BY <1>1, <1>3, <1>4, <1>5, <1>6, <1>7, <1>8, HandlingStep

\* What the hash of a handshake goes through.
LEMMA AppendIs ==
  ASSUME NEW S, NEW s \in Seq(S), NEW t \in Seq(S), NEW e \in S, NEW n \in Nat, Len(s) = n,
         Len(t) = n + 1, \A j \in 1 .. n : t[j] = s[j], t[n + 1] = e
  PROVE  Append(s, e) = t
<1>1. /\ Append(s, e) \in Seq(S) /\ Len(Append(s, e)) = n + 1
      /\ \A j \in 1 .. n : Append(s, e)[j] = s[j]
      /\ Append(s, e)[n + 1] = e
  BY AppendProperties
<1>2. PICK u \in Seq(S) : u = Append(s, e)
  BY <1>1
<1>3. \A j \in 1 .. Len(u) : u[j] = t[j]
  BY <1>1, <1>2
<1>4. u = t
  BY <1>1, <1>2, <1>3, SeqEqual
<1> QED
  BY <1>2, <1>4

LEMMA HashesGrow ==
  /\ Append(<<>>, "hello") = <<"hello">>
  /\ Append(<<"hello">>, ServerHello) = AfterHello
  /\ Append(AfterHello, "keyExchange") = AfterKeyExchange
  /\ Append(AfterKeyExchange, "finished") = AfterFinished
<1> DEFINE m0 == <<>>
           m1 == <<"hello">>
<1>1. /\ "hello" \in MessageNames /\ ServerHello \in MessageNames
      /\ "keyExchange" \in MessageNames /\ "finished" \in MessageNames
  BY DEF MessageNames, HandshakeTypes
<1>2. /\ m0 \in Seq(MessageNames) /\ Len(m0) = 0
      /\ m1 \in Seq(MessageNames) /\ Len(m1) = 1 /\ m1[1] = "hello"
  BY <1>1
<1>3. /\ AfterHello \in Seq(MessageNames) /\ Len(AfterHello) = 2
      /\ AfterHello[1] = "hello" /\ AfterHello[2] = ServerHello
  BY <1>1 DEF AfterHello
<1>4. /\ AfterKeyExchange \in Seq(MessageNames) /\ Len(AfterKeyExchange) = 3
      /\ AfterKeyExchange[1] = "hello" /\ AfterKeyExchange[2] = ServerHello
      /\ AfterKeyExchange[3] = "keyExchange"
  BY <1>1 DEF AfterKeyExchange
<1>5. /\ AfterFinished \in Seq(MessageNames) /\ Len(AfterFinished) = 4
      /\ AfterFinished[1] = "hello" /\ AfterFinished[2] = ServerHello
      /\ AfterFinished[3] = "keyExchange" /\ AfterFinished[4] = "finished"
  BY <1>1 DEF AfterFinished
<1> HIDE DEF m0, m1
<1>6. Append(m0, "hello") = m1
  <2>1. PICK n \in Nat : n = 0
    OBVIOUS
  <2>2. Len(m1) = n + 1 /\ (\A j \in 1 .. n : m1[j] = m0[j]) /\ m1[n + 1] = "hello" /\ Len(m0) = n
    BY <1>2, <2>1
  <2> QED
    BY <1>1, <1>2, <2>2, AppendIs
<1>7. Append(m1, ServerHello) = AfterHello
  <2>1. PICK n \in Nat : n = 1
    OBVIOUS
  <2>2. /\ Len(AfterHello) = n + 1 /\ (\A j \in 1 .. n : AfterHello[j] = m1[j])
        /\ AfterHello[n + 1] = ServerHello /\ Len(m1) = n
    BY <1>2, <1>3, <2>1
  <2> QED
    BY <1>1, <1>2, <1>3, <2>2, AppendIs
<1>8. Append(AfterHello, "keyExchange") = AfterKeyExchange
  <2>1. PICK n \in Nat : n = 2
    OBVIOUS
  <2>2. /\ Len(AfterKeyExchange) = n + 1 /\ (\A j \in 1 .. n : AfterKeyExchange[j] = AfterHello[j])
        /\ AfterKeyExchange[n + 1] = "keyExchange" /\ Len(AfterHello) = n
    BY <1>3, <1>4, <2>1
  <2> QED
    BY <1>1, <1>3, <1>4, <2>2, AppendIs
<1>9. Append(AfterKeyExchange, "finished") = AfterFinished
  <2>1. PICK n \in Nat : n = 3
    OBVIOUS
  <2>2. /\ Len(AfterFinished) = n + 1 /\ (\A j \in 1 .. n : AfterFinished[j] = AfterKeyExchange[j])
        /\ AfterFinished[n + 1] = "finished" /\ Len(AfterKeyExchange) = n
    BY <1>4, <1>5, <2>1
  <2> QED
    BY <1>1, <1>4, <1>5, <2>2, AppendIs
<1> QED
  BY <1>6, <1>7, <1>8, <1>9 DEF m0, m1

\* The entry with the record hashed: nothing else of it changes.
LEMMA HashedIs ==
  ASSUME TlsInv, ~ Idle, Record.type \in HandshakeTypes
  PROVE  LET p == conns[running.index] IN
         /\ Hashed \in Connection
         /\ Hashed.handshakeSha = Append(p.handshakeSha, Record.type)
         /\ Hashed.id = p.id /\ Hashed.toDo = p.toDo /\ Hashed.sessionId = p.sessionId
         /\ Hashed.resume = p.resume /\ Hashed.clientEncrypted = p.clientEncrypted
         /\ Hashed.deferred = p.deferred /\ Hashed.serverSequence = p.serverSequence
         /\ Hashed.slot = p.slot /\ Hashed.keys = p.keys
<1> DEFINE p == conns[running.index]
<1>1. p \in Connection /\ Record \in Records
  BY WhatIsHandled
<1>2. Record.type \in MessageNames
  BY DEF MessageNames
<1>3. p.handshakeSha \in Seq(MessageNames)
  BY <1>1 DEF Connection
<1>4. PICK sha \in Seq(MessageNames) : sha = Append(p.handshakeSha, Record.type)
  <2>1. \A s \in Seq(MessageNames), t \in MessageNames : Append(s, t) \in Seq(MessageNames)
    OBVIOUS
  <2> QED
    BY <1>2, <1>3, <2>1
<1>5. Hashed = [p EXCEPT !.handshakeSha = sha]
  BY <1>4 DEF Hashed
<1> HIDE DEF p
<1>6. /\ Hashed \in Connection /\ Hashed.handshakeSha = sha
      /\ Hashed.id = p.id /\ Hashed.toDo = p.toDo /\ Hashed.sessionId = p.sessionId
      /\ Hashed.resume = p.resume /\ Hashed.clientEncrypted = p.clientEncrypted
      /\ Hashed.deferred = p.deferred /\ Hashed.serverSequence = p.serverSequence
      /\ Hashed.slot = p.slot /\ Hashed.keys = p.keys
  BY <1>1, <1>5 DEF Connection
<1> QED
  BY <1>4, <1>6 DEF p

LEMMA ShortStays ==
  ASSUME TlsInv, Handle, Record.type # "keyExchange"
  PROVE  UNCHANGED <<short, peer, sent, begun>>
BY DEF Handle, TlsInv, ClientTypes

LEMMA ShortHandshakeStep ==
  ASSUME TlsInv, Handle, ShortHandshake
  PROVE  TlsInv'
<1>1. /\ ~ Idle /\ Record.type \in {"shortHello", "shortKeyExchange"}
      /\ running' = IF Len(running.records) = 1 THEN <<>>
                    ELSE [running EXCEPT !.records = Tail(@)]
      /\ conns' = [conns EXCEPT ![running.index] = Refuse(Hashed)]
      /\ UNCHANGED <<connUsed, next, out, over, sessions, sessUsed, job, http>>
  BY DEF ShortHandshake, Handling, SetConn
<1>2. UNCHANGED <<short, peer, sent, begun>>
  BY <1>1, ShortStays
<1>3. PICK i \in ConnIndex : i = running.index
  BY <1>1, WhatIsHandled
<1>4. PICK c \in Clients : c = conns[i].id /\ Live(c)
  BY <1>1, <1>3, WhatIsHandled
<1>5. PICK q \in Int : q = Handled(i) + 1 /\ q = (IF running.deferring THEN Handled(i) + 1 ELSE Handled(i))
  BY <1>1, <1>3, WhatIsHandled, RecordKinds
<1>6. /\ Hashed \in Connection /\ Hashed.id = c /\ Hashed.sessionId = conns[i].sessionId
      /\ Hashed.resume = conns[i].resume /\ Hashed.clientEncrypted = conns[i].clientEncrypted
      /\ Hashed.keys = conns[i].keys /\ Hashed.deferred = conns[i].deferred
  BY <1>1, <1>3, <1>4, HashedIs DEF HandshakeTypes
<1>7. PICK p : p = Refuse(Hashed)
  OBVIOUS
<1>8. /\ p \in Connection /\ p.id = c /\ p.sessionId = conns[i].sessionId
      /\ p.resume = conns[i].resume /\ p.clientEncrypted = conns[i].clientEncrypted
      /\ p.keys = conns[i].keys /\ p.toDo = "SEND_ALERT_ILLEGAL_PARAMETER"
  <2> HIDE DEF Hashed
  <2> QED
    BY <1>6, <1>7 DEF Refuse, Connection, ToDos
<1>9. EntryIsRight(c, p, q)
  <2>1. CASE Record.type = "shortHello"
    <3>1. Fresh(c, conns[i], Handled(i)) /\ Phase(c) = "astray" /\ Handled(i) = 0
      BY <1>1, <1>3, <1>4, <2>1, RecordKinds
    <3>2. Astray(c, p, q)
      BY <1>5, <1>8, <3>1 DEF Fresh, Astray
    <3> QED
      BY <3>2 DEF EntryIsRight
  <2>2. CASE Record.type = "shortKeyExchange"
    <3>1. NewAnswered(c, conns[i], Handled(i)) /\ Phase(c) = "careless" /\ Handled(i) = 1
      BY <1>1, <1>3, <1>4, <2>2, RecordKinds
    <3>2. Refused(c, p, q)
      BY <1>5, <1>8, <3>1 DEF NewAnswered, Refused
    <3> QED
      BY <3>2 DEF EntryIsRight
  <2> QED
    BY <1>1, <2>1, <2>2
<1>10. conns' = [conns EXCEPT ![i] = p] /\ p.toDo # "WAIT_DECRYPT_MASTER_SECRET" /\ http' = http
  BY <1>1, <1>3, <1>7, <1>8
<1> QED
  BY <1>1, <1>2, <1>3, <1>4, <1>5, <1>8, <1>9, <1>10, QuietStep

LEMMA ClientChangeCipherStep ==
  ASSUME TlsInv, Handle, ClientChangeCipher
  PROVE  TlsInv'
<1>1. /\ ~ Idle /\ Record.type = "changeCipher"
      /\ running' = IF Len(running.records) = 1 THEN <<>>
                    ELSE [running EXCEPT !.records = Tail(@)]
      /\ conns' = [conns EXCEPT ![running.index] = [conns[running.index] EXCEPT !.clientEncrypted = TRUE]]
      /\ UNCHANGED <<connUsed, next, out, over, sessions, sessUsed, job, http>>
  BY DEF ClientChangeCipher, Handling, SetConn
<1>2. UNCHANGED <<short, peer, sent, begun>>
  BY <1>1, ShortStays
<1>3. PICK i \in ConnIndex : i = running.index
  BY <1>1, WhatIsHandled
<1>4. PICK c \in Clients : c = conns[i].id /\ Live(c)
  BY <1>1, <1>3, WhatIsHandled
<1>5. PICK q \in Int : q = 3 /\ q = (IF running.deferring THEN Handled(i) + 1 ELSE Handled(i))
  BY <1>1, <1>3, WhatIsHandled, RecordKinds
<1>6. \/ Waits(c, conns[i], 2) \/ Refused(c, conns[i], 2) \/ Opened(c, conns[i], 2)
  BY <1>1, <1>3, <1>4, RecordKinds
<1>7. PICK p : p = [conns[i] EXCEPT !.clientEncrypted = TRUE]
  OBVIOUS
<1>8. /\ p \in Connection /\ p.id = c /\ p.sessionId = conns[i].sessionId
      /\ p.resume = conns[i].resume /\ p.clientEncrypted = TRUE
      /\ p.keys = conns[i].keys /\ p.toDo = conns[i].toDo /\ p.slot = conns[i].slot
      /\ p.deferred = conns[i].deferred /\ p.handshakeSha = conns[i].handshakeSha
      /\ p.serverSequence = conns[i].serverSequence
  <2>1. conns[i] \in Connection
    BY DEF TlsInv, ServerTypes
  <2> QED
    BY <1>4, <1>7, <2>1 DEF Connection
<1>9. EntryIsRight(c, p, q)
  BY <1>5, <1>6, <1>8 DEF Waits, Refused, Opened, EntryIsRight
<1>10. conns' = [conns EXCEPT ![i] = p]
  BY <1>1, <1>3, <1>7
<1> QED
  BY <1>1, <1>2, <1>3, <1>4, <1>5, <1>8, <1>9, <1>10, QuietStep

LEMMA ClientApplicationStep ==
  ASSUME TlsInv, Handle, ClientApplication
  PROVE  TlsInv'
<1>1. /\ ~ Idle /\ Record.type = "application"
      /\ running' = IF Len(running.records) = 1 THEN <<>>
                    ELSE [running EXCEPT !.records = Tail(@)]
      /\ conns' = [conns EXCEPT ![running.index] = [conns[running.index] EXCEPT !.toDo = "APPLICATION"]]
      /\ http' = http \/ http' = http \cup {conns[running.index].id}
      /\ UNCHANGED <<connUsed, next, out, over, sessions, sessUsed, job>>
  BY DEF ClientApplication, Handling, SetConn
<1>2. UNCHANGED <<short, peer, sent, begun>>
  BY <1>1, ShortStays
<1>3. PICK i \in ConnIndex : i = running.index
  BY <1>1, WhatIsHandled
<1>4. PICK c \in Clients : c = conns[i].id /\ Live(c)
  BY <1>1, <1>3, WhatIsHandled
<1>5. PICK q \in Int : q = 5 /\ q = (IF running.deferring THEN Handled(i) + 1 ELSE Handled(i))
  BY <1>1, <1>3, WhatIsHandled, RecordKinds
<1>6. Opened(c, conns[i], 4) /\ Phase(c) = "open"
  BY <1>1, <1>3, <1>4, RecordKinds
<1>7. PICK p : p = [conns[i] EXCEPT !.toDo = "APPLICATION"]
  OBVIOUS
<1>8. /\ p \in Connection /\ p.id = c /\ p.sessionId = conns[i].sessionId
      /\ p.keys = conns[i].keys /\ p.toDo = "APPLICATION"
      /\ p.serverSequence = conns[i].serverSequence
  <2>1. conns[i] \in Connection
    BY DEF TlsInv, ServerTypes
  <2> QED
    BY <1>4, <1>7, <2>1 DEF Connection, ToDos
<1>9. EntryIsRight(c, p, q)
  BY <1>5, <1>6, <1>8 DEF Opened, EntryIsRight
<1>10. conns' = [conns EXCEPT ![i] = p] /\ p.toDo # "WAIT_DECRYPT_MASTER_SECRET"
  BY <1>1, <1>3, <1>7, <1>8
<1>11. http' = http \/ (http' = http \cup {c} /\ Phase(c) = "open")
  BY <1>1, <1>3, <1>4, <1>6
<1> QED
  BY <1>1, <1>2, <1>3, <1>4, <1>5, <1>8, <1>9, <1>10, <1>11, QuietStep

LEMMA ClientOtherStep ==
  ASSUME TlsInv, Handle, ClientOther
  PROVE  TlsInv'
<1>1. /\ ~ Idle /\ Record.type \in {"heartbeat", "none"}
      /\ running' = IF Len(running.records) = 1 THEN <<>>
                    ELSE [running EXCEPT !.records = Tail(@)]
      /\ conns' = [conns EXCEPT ![running.index] =
                     IF Record.type = "none" THEN conns[running.index]
                     ELSE [conns[running.index] EXCEPT !.toDo = "WAIT_CLIENT_HELLO"]]
      /\ UNCHANGED <<connUsed, next, out, over, sessions, sessUsed, job, http>>
  BY DEF ClientOther, Handling, SetConn
<1>2. UNCHANGED <<short, peer, sent, begun>>
  BY <1>1, ShortStays
<1>3. PICK i \in ConnIndex : i = running.index
  BY <1>1, WhatIsHandled
<1>4. PICK c \in Clients : c = conns[i].id /\ Live(c)
  BY <1>1, <1>3, WhatIsHandled
<1>5. PICK q \in Int : q = (IF running.deferring THEN Handled(i) + 1 ELSE Handled(i))
  BY <1>1, <1>3, WhatIsHandled
<1>6. conns[i] \in Connection
  BY DEF TlsInv, ServerTypes
<1>7. CASE Record.type = "none"
  <2>1. Waits(c, conns[i], q)
    BY <1>1, <1>3, <1>4, <1>5, <1>7, RecordKinds
  <2>2. EntryIsRight(c, conns[i], q)
    BY <2>1 DEF EntryIsRight
  <2>3. conns' = [conns EXCEPT ![i] = conns[i]] /\ http' = http
    BY <1>1, <1>3, <1>7
  <2>4. PICK p \in Connection : p = conns[i]
    BY <1>6
  <2> QED
    BY <1>1, <1>2, <1>3, <1>4, <1>5, <2>2, <2>3, <2>4, QuietStep
<1>8. CASE Record.type = "heartbeat"
  <2>1. Fresh(c, conns[i], 0) /\ q = 1 /\ Phase(c) = "astray"
    BY <1>1, <1>3, <1>4, <1>5, <1>8, RecordKinds
  <2>2. PICK p : p = [conns[i] EXCEPT !.toDo = "WAIT_CLIENT_HELLO"]
    OBVIOUS
  <2>3. /\ p \in Connection /\ p.id = c /\ p.sessionId = conns[i].sessionId
        /\ p.keys = conns[i].keys /\ p.toDo = "WAIT_CLIENT_HELLO"
    BY <1>4, <1>6, <2>2 DEF Connection, ToDos
  <2>4. EntryIsRight(c, p, q)
    BY <2>1, <2>3 DEF Fresh, Astray, EntryIsRight
  <2>5. conns' = [conns EXCEPT ![i] = p] /\ p.toDo # "WAIT_DECRYPT_MASTER_SECRET" /\ http' = http
    BY <1>1, <1>3, <1>8, <2>2, <2>3
  <2> QED
    BY <1>1, <1>2, <1>3, <1>4, <1>5, <2>3, <2>4, <2>5, QuietStep
<1> QED
  BY <1>1, <1>7, <1>8

\* The Finished of a client, in its turn or put by until its keys had come.
LEMMA ClientFinishedStep ==
  ASSUME TlsInv, Handle, ClientFinished
  PROVE  TlsInv'
<1>1. /\ ~ Idle /\ Record.type = "finished" /\ ~ IsDeferred
      /\ running' = IF Len(running.records) = 1 THEN <<>>
                    ELSE [running EXCEPT !.records = Tail(@)]
      /\ UNCHANGED <<connUsed, next, out, over, sessions, sessUsed, job, http>>
  BY DEF ClientFinished, Handling
<1>2. UNCHANGED <<short, peer, sent, begun>>
  BY <1>1, ShortStays
<1>3. PICK i \in ConnIndex : i = running.index
  BY <1>1, WhatIsHandled
<1>4. PICK c \in Clients : c = conns[i].id /\ Live(c)
  BY <1>1, <1>3, WhatIsHandled
<1>5. PICK h \in Connection :
        /\ h = Hashed /\ h.id = c /\ h.toDo = conns[i].toDo /\ h.sessionId = conns[i].sessionId
        /\ h.resume = conns[i].resume /\ h.clientEncrypted = conns[i].clientEncrypted
        /\ h.deferred = conns[i].deferred /\ h.serverSequence = conns[i].serverSequence
        /\ h.slot = conns[i].slot /\ h.keys = conns[i].keys
        /\ h.handshakeSha = Append(conns[i].handshakeSha, "finished")
  BY <1>1, <1>3, <1>4, HashedIs DEF HandshakeTypes
<1>6. PICK q \in Int : q = 4 /\ q = (IF running.deferring THEN Handled(i) + 1 ELSE Handled(i))
  BY <1>1, <1>3, WhatIsHandled, RecordKinds
<1>7. /\ Record.keys = Keys(peer[c].session, c)
      /\ \/ running.deferring /\ (Refused(c, conns[i], 3) \/ Opened(c, conns[i], 3))
         \/ Waits(c, conns[i], 4) /\ conns[i].handshakeSha = AfterKeyExchange /\ NoneIsWaiting(c)
  <2>1. Record = Finished(Keys(peer[c].session, c))
    BY <1>1, <1>3, <1>4, RecordKinds
  <2>2. CASE running.deferring
    <3>1. Waits(c, conns[i], 3) \/ Refused(c, conns[i], 3) \/ Opened(c, conns[i], 3)
      BY <1>1, <1>3, <1>4, <2>2, RecordKinds
    <3>2. ~ Waits(c, conns[i], 3)
      BY <1>1, <1>3, <2>2 DEF Waits, IsDeferred
    <3> QED
      BY <2>1, <2>2, <3>1, <3>2 DEF Finished
  <2>3. CASE ~ running.deferring
    <3>1. Waits(c, conns[i], 4)
      BY <1>1, <1>3, <1>4, <2>3, RecordKinds
    <3>2. conns[i].handshakeSha = AfterKeyExchange /\ NoneIsWaiting(c)
      BY <1>1, <1>3, <1>4, <2>3, WhatIsHandled
    <3> QED
      BY <2>1, <3>1, <3>2 DEF Finished
  <2> QED
    BY <2>2, <2>3
<1>8. Phase(c) \in {"keyed", "careless"} => peer[c].session = c
  BY DEF TlsInv, ClientIsRight
<1>9. PICK p : /\ conns' = [conns EXCEPT ![i] = p]
               /\ p = IF ~ Decrypts THEN h
                      ELSE IF SessionsOf(h.sessionId) = {}
                      THEN [h EXCEPT !.toDo = "SEND_ALERT_ILLEGAL_PARAMETER"]
                      ELSE [h EXCEPT !.toDo = IF h.resume THEN "APPLICATION" ELSE "SEND_SERVER_CHANGE"]
  BY <1>3, <1>5 DEF ClientFinished, SetConn
<1>10. Decrypts <=> (conns[i].clientEncrypted => conns[i].keys = Record.keys)
  BY <1>3 DEF Decrypts
<1>11. /\ p \in Connection /\ p.id = c /\ p.sessionId = conns[i].sessionId
       /\ p.resume = conns[i].resume /\ p.clientEncrypted = conns[i].clientEncrypted
       /\ p.keys = conns[i].keys /\ p.slot = conns[i].slot
       /\ p.deferred = conns[i].deferred /\ p.serverSequence = conns[i].serverSequence
       /\ p.handshakeSha = Append(conns[i].handshakeSha, "finished")
       /\ p.toDo = IF ~ Decrypts THEN conns[i].toDo
                   ELSE IF SessionsOf(conns[i].sessionId) = {} THEN "SEND_ALERT_ILLEGAL_PARAMETER"
                   ELSE IF conns[i].resume THEN "APPLICATION" ELSE "SEND_SERVER_CHANGE"
  <2> HIDE DEF Decrypts, SessionsOf
  <2> QED
    BY <1>5, <1>9 DEF Connection, ToDos
<1>12. Append(AfterKeyExchange, "finished") = AfterFinished
  BY HashesGrow
<1>13. EntryIsRight(c, p, q)
  <2>1. CASE Opened(c, conns[i], 3)
    <3>1. Decrypts /\ conns[i].resume
      BY <1>7, <1>10, <2>1 DEF Opened
    <3>2. Opened(c, p, q)
      BY <1>6, <1>11, <2>1, <3>1 DEF Opened
    <3> QED
      BY <3>2 DEF EntryIsRight
  <2>2. CASE Refused(c, conns[i], 3)
    <3>1. CASE ~ Decrypts
      <4>1. Refused(c, p, q)
        BY <1>6, <1>11, <2>2, <3>1 DEF Refused
      <4> QED
        BY <4>1 DEF EntryIsRight
    <3>2. CASE Decrypts
      <4>1. conns[i].keys = Keys(c, c) /\ Phase(c) = "keyed"
        BY <1>7, <1>8, <1>10, <2>2, <3>2 DEF Refused
      <4>2. conns[i].handshakeSha = AfterKeyExchange
        BY <2>2, <4>1 DEF Refused
      <4>3. Refused(c, p, q) \/ ChangeDue(c, p, q)
        BY <1>6, <1>11, <1>12, <2>2, <3>2, <4>1, <4>2 DEF Refused, ChangeDue
      <4> QED
        BY <4>3 DEF EntryIsRight
    <3> QED
      BY <3>1, <3>2
  <2>3. CASE Waits(c, conns[i], 4) /\ conns[i].handshakeSha = AfterKeyExchange /\ NoneIsWaiting(c)
    <3>1. CASE ~ Decrypts
      <4>1. Waits(c, p, q)
        BY <1>6, <1>11, <2>3, <3>1 DEF Waits
      <4> QED
        BY <4>1 DEF EntryIsRight
    <3>2. CASE Decrypts
      <4>1. conns[i].keys = Keys(c, c) /\ Phase(c) = "keyed"
        BY <1>7, <1>8, <1>10, <2>3, <3>2 DEF Waits
      <4>2. Refused(c, p, q) \/ ChangeDue(c, p, q)
        BY <1>6, <1>11, <1>12, <2>3, <3>2, <4>1 DEF Waits, Refused, ChangeDue
      <4> QED
        BY <4>2 DEF EntryIsRight
    <3> QED
      BY <3>1, <3>2
  <2> QED
    BY <1>7, <2>1, <2>2, <2>3
<1>14. /\ conns' = [conns EXCEPT ![i] = p] /\ http' = http
       /\ p.toDo = "WAIT_DECRYPT_MASTER_SECRET" =>
            p.toDo = conns[i].toDo /\ p.sessionId = conns[i].sessionId /\ p.slot = conns[i].slot
  BY <1>1, <1>9, <1>11
<1> HIDE DEF Hashed
<1> QED
  BY <1>1, <1>2, <1>3, <1>4, <1>6, <1>11, <1>13, <1>14, QuietStep

\* The Finished is put by: it is the only record left.
LEMMA DeferStep ==
  ASSUME TlsInv, Handle, Defer
  PROVE  TlsInv'
<1>1. /\ ~ Idle /\ IsDeferred /\ running' = <<>>
      /\ conns' = [conns EXCEPT ![running.index].deferred = Record]
      /\ UNCHANGED <<connUsed, next, sessions, sessUsed, job, http, out, over, peer, sent, begun, short>>
  BY DEF Defer, Handle, Record, TlsInv, ClientTypes
<1>2. PICK i \in ConnIndex : i = running.index
  BY <1>1, WhatIsHandled
<1>3. PICK c \in Clients : c = conns[i].id /\ Live(c) /\ c \in begun
  BY <1>1, <1>2, WhatIsHandled
<1>4. PICK q : q = Handled(i)
  OBVIOUS
<1>5. /\ running.deferring /\ conns[i].clientEncrypted
      /\ conns[i].toDo = "WAIT_DECRYPT_MASTER_SECRET"
  BY <1>1, <1>2 DEF IsDeferred
<1>6. q \in Int /\ EntryIsRight(c, conns[i], q) /\ SentAt(c, q + 1, Record)
  BY <1>1, <1>2, <1>3, <1>4, <1>5, WhatIsHandled
<1>7. /\ Len(running.records) \in Nat \ {0} /\ running.records \in Seq(Records)
      /\ conns[i] \in Connection
  BY <1>1, <1>2, WhatIsHandled
<1>8. Waits(c, conns[i], q)
  BY <1>5, <1>6 DEF EntryIsRight, Fresh, Astray, NewDue, NewAnswered, ResumeDue, ResumeAnswered, Waits,
     Refused, ChangeDue, ChangeAnswered, Opened
<1>9. q = 3 /\ Phase(c) = "keyed" /\ peer[c].session = c /\ Record = Finished(Keys(c, c))
  BY <1>5, <1>6, <1>8 DEF Waits, SentAt, TlsInv, ClientIsRight
<1>10. Len(running.records) = 1
  <2>1. PICK n \in Nat \ {0} : n = Len(running.records)
    BY <1>7
  <2>2. \A j \in 1 .. n : SentAt(c, q + j, running.records[j])
    BY <1>1, <1>2, <1>3, <1>4, <1>5, <2>1 DEF TlsInv, RunningInOrder
  <2>3. ~ SentAt(c, q + 2, running.records[2])
    BY <1>9 DEF SentAt
  <2>4. ~ (2 \in 1 .. n)
    BY <2>2, <2>3
  <2>5. n = 1
    BY <2>4
  <2> QED
    BY <2>1, <2>5
<1>11. PICK p : p = [conns[i] EXCEPT !.deferred = Record]
  OBVIOUS
<1>12. Keys(c, c) \in AllKeys
  BY DEF Keys, Master, AllKeys, Masters
<1>13. /\ p \in Connection /\ p.id = c /\ p.sessionId = conns[i].sessionId
       /\ p.resume = conns[i].resume /\ p.clientEncrypted = conns[i].clientEncrypted
       /\ p.keys = conns[i].keys /\ p.slot = conns[i].slot /\ p.toDo = conns[i].toDo
       /\ p.deferred = Finished(Keys(c, c)) /\ p.serverSequence = conns[i].serverSequence
       /\ p.handshakeSha = conns[i].handshakeSha
  <2>1. Record \in PutByRecords
    BY <1>9, <1>12 DEF PutByRecords
  <2> QED
    BY <1>3, <1>7, <1>9, <1>11, <2>1 DEF Connection
<1>14. conns' = [conns EXCEPT ![i] = p] /\ conns \in [ConnIndex -> Connection]
  BY <1>1, <1>2, <1>11 DEF TlsInv, ServerTypes
<1>15. conns'[i] = p /\ \A j \in ConnIndex \ {i} : conns'[j] = conns[j]
  BY <1>14
<1>16. ServerTypes' /\ ClientTypes'
  <2>1. ServerTypes'
    BY <1>1, <1>13, <1>14 DEF TlsInv, ServerTypes, Idle
  <2>2. ClientTypes'
    BY <1>1 DEF TlsInv, ClientTypes
  <2> QED
    BY <2>1, <2>2
<1>17. /\ \A d \in Clients \ {c} : Stands(d) /\ (NoneIsWaiting(d) => NoneIsWaiting(d)')
       /\ \A j \in ConnIndex \ {i} : LeftOf(j)' = LeftOf(j)
       /\ LeftOf(i)' = 0 /\ LeftOf(i) = 1
  BY <1>1, <1>2, <1>5, <1>10 DEF Stands, NoSessionOf, NoneIsWaiting, LeftOf, Idle
<1>18. Phase(c)' = Phase(c) /\ Live(c)' /\ Received(c)' = Received(c) /\ Received(c) = q + 1
  <2>1. Received(c)' = Received(c) /\ Phase(c)' = Phase(c) /\ Live(c)'
    BY <1>1, <1>3 DEF Received, Phase, Live
  <2>2. q = Received(c) - 1
    BY <1>3, <1>4, <1>17 DEF Handled
  <2>3. Received(c) \in Int
    <3>1. sent[c] \in Seq(Records)
      BY DEF TlsInv, ClientTypes
    <3>2. Len(sent[c]) \in Nat
      BY <3>1
    <3> QED
      BY <3>2 DEF Received, LastPlace
  <2> QED
    BY <2>1, <2>2, <2>3
<1>19. RecordsOf(c)' /\ FlightsOf(c)' /\ ClientIsRight(c)'
  <2>1. RecordsOf(c)'
    BY <1>1, <1>3, <1>18 DEF TlsInv, RecordsOf, SentAt, Phase
  <2>2. FlightsOf(c)'
    BY <1>1 DEF TlsInv, FlightsOf, FlightIsRight, Phase, ChangeFlight, ResumeFlight
  <2>3. ClientIsRight(c)'
    BY <1>1, <1>18 DEF TlsInv, ClientIsRight, NoSessionOf
  <2> QED
    BY <2>1, <2>2, <2>3
<1>20. EntryOf(i)'
  <2>1. Handled(i)' = 4
    BY <1>9, <1>13, <1>15, <1>17, <1>18 DEF Handled
  <2>2. Waits(c, p, 4)'
    BY <1>1, <1>8, <1>9, <1>13, <1>18 DEF Waits, NoneIsWaiting
  <2> QED
    BY <1>1, <1>3, <1>9, <1>13, <1>15, <1>18, <2>1, <2>2 DEF EntryOf, EntryIsRight
<1>21. SessionsAreRight'
  <2>1. KeysAreRight'
    BY <1>1, <1>13, <1>15, OldKeysStay DEF TlsInv, SessionsAreRight
  <2> QED
    BY <1>1, <2>1, TrustStays, ChangedStay DEF TlsInv, SessionsAreRight
<1>22. WaitsForOwnSlot'
  BY <1>1, <1>3, <1>13, <1>15, SlotsStay DEF TlsInv
<1>23. SessionHasItsMaster' /\ SessionIdsDiffer'
  BY <1>1, MastersStay, SessionsFor DEF TlsInv, NoneTwice, SessionIdsDiffer
<1>24. RunningInOrder' /\ PutByIsHandled'
  BY <1>1 DEF RunningInOrder, PutByIsHandled, Idle
<1> QED
  BY <1>1, <1>3, <1>13, <1>14, <1>16, <1>17, <1>19, <1>20, <1>21, <1>22, <1>23, <1>24, EntryStep

LEMMA EmptyOrOldestIsIn ==
  ASSUME NEW n \in Nat \ {0}, NEW table, DOMAIN table = 0 .. n - 1, NEW used \in [0 .. n - 1 -> Nat]
  PROVE  EmptyOrOldest(table, used) \in 0 .. n - 1
<1>1. EntriesOf(table, None) \subseteq 0 .. n - 1 /\ EntriesOf(table, None) \subseteq Nat
  BY DEF EntriesOf
<1> QED
  BY <1>1, FirstIsIn, OldestIsIn DEF EmptyOrOldest

\* Only a client that is being heard waits for a decryption, and for its own.
LEMMA WaitingIs ==
  ASSUME TlsInv, NEW i \in ConnIndex, conns[i].toDo = "WAIT_DECRYPT_MASTER_SECRET"
  PROVE  LET c == conns[i].id IN
         /\ c \in Clients /\ Live(c) /\ c \in begun /\ conns[i].sessionId = c
         /\ Waits(c, conns[i], Handled(i))
<1>1. conns[i].id # None
  BY DEF TlsInv, EmptyAreIdle
<1>2. conns[i].id \in Clients /\ Live(conns[i].id) /\ EntryIsRight(conns[i].id, conns[i], Handled(i))
  BY <1>1, EntryIsConnected DEF TlsInv, EntryOf
<1>3. Waits(conns[i].id, conns[i], Handled(i))
  BY <1>2 DEF EntryIsRight, Fresh, Astray, NewDue, NewAnswered, ResumeDue, ResumeAnswered, Waits,
     Refused, ChangeDue, ChangeAnswered, Opened
<1> QED
  BY <1>1, <1>2, <1>3, EntryIsConnected DEF Waits

\* One client's entry in the table of sessions is made or changed.
LEMMA SessionChanges ==
  ASSUME TlsInv, NEW c \in Clients, NEW k \in SessIndex, NEW s \in Session, s.id = c,
         sessions' = [sessions EXCEPT ![k] = s],
         sessions[k].id = c \/ NoSessionOf(c)
  PROVE  /\ sessions \in [SessIndex -> Session] /\ sessions' \in [SessIndex -> Session]
         /\ sessions'[k] = s /\ \A l \in SessIndex \ {k} : sessions'[l] = sessions[l]
         /\ \A l \in SessIndex \ {k} : sessions[l].id # c
         /\ SessionIdsDiffer'
         /\ \A d \in Clients \ {c} : /\ NoSessionOf(d) => NoSessionOf(d)'
                                     /\ NoneIsWaiting(d) => NoneIsWaiting(d)'
                                     /\ HasMaster(d) => HasMaster(d)'
<1>1. sessions \in [SessIndex -> Session] /\ sessions' \in [SessIndex -> Session] /\ c # None
  BY Sizes DEF TlsInv, ServerTypes
<1>2. sessions'[k] = s /\ \A l \in SessIndex \ {k} : sessions'[l] = sessions[l]
  BY <1>1
<1>3. \A l \in SessIndex \ {k} : sessions[l].id # c
  BY <1>1 DEF TlsInv, NoneTwice, NoSessionOf
<1>4. SessionIdsDiffer'
  BY <1>1, <1>2, <1>3 DEF SessionIdsDiffer, TlsInv, NoneTwice
<1>5. ASSUME NEW d \in Clients \ {c}
      PROVE  /\ NoSessionOf(d) => NoSessionOf(d)'
             /\ NoneIsWaiting(d) => NoneIsWaiting(d)'
             /\ HasMaster(d) => HasMaster(d)'
  BY <1>2, <1>5 DEF NoSessionOf, NoneIsWaiting, HasMaster
<1> QED
  BY <1>1, <1>2, <1>3, <1>4, <1>5

\* The hello asks for a session that is there and valid.
LEMMA HelloResumes ==
  ASSUME TlsInv, ~ Idle, NEW i \in ConnIndex, running.index = i, NEW c \in Clients, conns[i].id = c,
         Record.type = "hello", NEW s, s = peer[c].session, SessionsOf(s) # {},
         NEW p, p = [Hashed EXCEPT !.sessionId = s, !.resume = TRUE, !.toDo = "SEND_SERVER_HELLO_RESUME"],
         conns' = [conns EXCEPT ![i] = p],
         running' = IF Len(running.records) = 1 THEN <<>>
                    ELSE [running EXCEPT !.records = Tail(@)],
         UNCHANGED <<connUsed, next, out, over, peer, sent, begun, sessions, job, http, short>>,
         sessUsed' \in [SessIndex -> Nat]
  PROVE  TlsInv'
<1>1. Fresh(c, conns[i], 0) /\ Phase(c) = "hello" /\ running.deferring /\ Handled(i) = 0
  BY RecordKinds
<1>2. s \in Clients /\ s # None /\ s # c
  BY <1>1, Sizes DEF TlsInv, ClientTypes, Peer, SessionsOf, ClientIsRight
<1>3. /\ Hashed \in Connection /\ Hashed.id = c
      /\ Hashed.handshakeSha = Append(conns[i].handshakeSha, "hello")
      /\ Hashed.keys = conns[i].keys
  BY HashedIs DEF HandshakeTypes
<1> HIDE DEF Hashed
<1>4. /\ p \in Connection /\ p.id = c /\ p.sessionId = s /\ p.resume = TRUE
      /\ p.toDo = "SEND_SERVER_HELLO_RESUME" /\ p.keys = conns[i].keys
      /\ p.handshakeSha = Append(conns[i].handshakeSha, "hello")
  BY <1>2, <1>3 DEF Connection, ToDos
<1>5. p.handshakeSha = <<"hello">>
  BY <1>1, <1>4, HashesGrow DEF Fresh
<1>6. PICK q : q = 1 /\ q = (IF running.deferring THEN Handled(i) + 1 ELSE Handled(i))
  BY <1>1
<1>7. EntryIsRight(c, p, q)
  <2>1. ResumeDue(c, p, q)
    BY <1>1, <1>2, <1>4, <1>5, <1>6 DEF Fresh, ResumeDue
  <2> QED
    BY <2>1 DEF EntryIsRight
<1> QED
  BY <1>4, <1>6, <1>7, QuietStep

\* It gets a new session, in the place of another if need be.
LEMMA HelloMakesSession ==
  ASSUME TlsInv, ~ Idle, NEW i \in ConnIndex, running.index = i, NEW c \in Clients, conns[i].id = c,
         Record.type = "hello", NEW k \in SessIndex,
         NEW p, p = [Hashed EXCEPT !.sessionId = c, !.resume = FALSE, !.toDo = "SEND_SERVER_HELLO_NEW"],
         conns' = [conns EXCEPT ![i] = p],
         running' = IF Len(running.records) = 1 THEN <<>>
                    ELSE [running EXCEPT !.records = Tail(@)],
         sessions' = [sessions EXCEPT ![k] = [NoSession EXCEPT !.id = c]],
         UNCHANGED <<connUsed, next, out, over, peer, sent, begun, job, http, short>>,
         sessUsed' \in [SessIndex -> Nat]
  PROVE  TlsInv'
<1>1. Fresh(c, conns[i], 0) /\ Phase(c) = "hello" /\ running.deferring /\ Handled(i) = 0
  BY RecordKinds
<1>2. /\ Hashed \in Connection /\ Hashed.id = c
      /\ Hashed.handshakeSha = Append(conns[i].handshakeSha, "hello")
      /\ Hashed.keys = conns[i].keys /\ Hashed.deferred = conns[i].deferred
      /\ Hashed.clientEncrypted = conns[i].clientEncrypted
  BY HashedIs DEF HandshakeTypes
<1> HIDE DEF Hashed
<1>3. /\ p \in Connection /\ p.id = c /\ p.sessionId = c /\ p.resume = FALSE
      /\ p.toDo = "SEND_SERVER_HELLO_NEW" /\ p.keys = conns[i].keys
      /\ p.handshakeSha = Append(conns[i].handshakeSha, "hello")
      /\ p.deferred = conns[i].deferred /\ p.clientEncrypted = conns[i].clientEncrypted
  BY <1>2 DEF Connection, ToDos
<1>4. p.handshakeSha = <<"hello">>
  BY <1>1, <1>3, HashesGrow DEF Fresh
<1>5. PICK q : q = 1 /\ q = (IF running.deferring THEN Handled(i) + 1 ELSE Handled(i))
  BY <1>1
<1>6. PICK s \in Session : s = [NoSession EXCEPT !.id = c] /\ s.id = c /\ ~ s.valid
  <2>1. NoSession \in Session /\ ~ NoSession.valid
    BY DEF NoSession, Session, Masters
  <2>2. [NoSession EXCEPT !.id = c] \in Session
    BY <2>1 DEF Session
  <2> QED
    BY <2>1, <2>2 DEF Session
<1>7. NoSessionOf(c)
  BY <1>1 DEF Fresh
<1>8. /\ sessions \in [SessIndex -> Session] /\ sessions' \in [SessIndex -> Session]
      /\ sessions'[k] = s /\ \A l \in SessIndex \ {k} : sessions'[l] = sessions[l]
      /\ SessionIdsDiffer'
      /\ \A d \in Clients \ {c} : /\ NoSessionOf(d) => NoSessionOf(d)'
                                  /\ NoneIsWaiting(d) => NoneIsWaiting(d)'
                                  /\ HasMaster(d) => HasMaster(d)'
  <2>1. sessions' = [sessions EXCEPT ![k] = s] /\ s.id = c
    BY <1>6
  <2>2. sessions[k].id = c \/ NoSessionOf(c)
    BY <1>7
  <2> QED
    BY <2>1, <2>2, SessionChanges, Zenon
<1>9. EntryIsRight(c, p, q)'
  <2>1. NewDue(c, p, q)'
    BY <1>1, <1>3, <1>4, <1>5 DEF Fresh, NewDue, Phase
  <2> QED
    BY <2>1 DEF EntryIsRight
<1>10. conns \in [ConnIndex -> Connection]
  BY DEF TlsInv, ServerTypes
<1>11. conns'[i] = p /\ \A j \in ConnIndex \ {i} : conns'[j] = conns[j] /\ conns[j].id # c
  BY <1>10, Sizes DEF TlsInv, NoneTwice
<1>12. SessionsAreRight'
  <2>1. TrustedAreRight'
    <3> SUFFICES ASSUME NEW t \in Trusted
                 PROVE  HasMaster(t)' /\ Phase(t) \in {"open", "done", "alerted", "unread", "gone"}
      BY DEF TrustedAreRight, Trusted, Phase
    <3>1. HasMaster(t) /\ Phase(t) \in {"open", "done", "alerted", "unread", "gone"}
      BY DEF TlsInv, SessionsAreRight, TrustedAreRight
    <3>2. t \in Clients
      BY DEF TlsInv, ClientTypes, Peer, Trusted
    <3> QED
      BY <1>1, <1>8, <3>1, <3>2
  <2>2. ChangedAreRight'
    <3> SUFFICES ASSUME NEW d \in Clients, Phase(d) = "keyed", Len(out[d]) > 0,
                        out[d][1] = ChangeFlight(d)
                 PROVE  HasMaster(d)'
      BY DEF ChangedAreRight, ChangeFlight, Phase
    <3> QED
      BY <1>1, <1>8 DEF TlsInv, SessionsAreRight, ChangedAreRight
  <2>3. KeysAreRight'
    <3> SUFFICES ASSUME NEW j \in ConnIndex, NEW d \in Clients, conns'[j].keys = Keys(d, d)
                 PROVE  d \in begun /\ (conns'[j].id = d => HasMaster(d)')
      BY DEF KeysAreRight, Keys, Master
    <3>1. conns[j].keys = Keys(d, d) /\ conns'[j].id = conns[j].id
      BY <1>3, <1>11
    <3>2. d \in begun /\ (conns[j].id = d => HasMaster(d))
      BY <3>1 DEF TlsInv, SessionsAreRight, KeysAreRight
    <3>3. conns[j].id = d => d # c
      BY <1>1, <1>11, <3>1 DEF Fresh
    <3> QED
      BY <1>8, <3>1, <3>2, <3>3
  <2> QED
    BY <2>1, <2>2, <2>3 DEF SessionsAreRight
<1>13. WaitsForOwnSlot'
  <2> SUFFICES ASSUME ~ short, NEW j \in ConnIndex, Waiting(conns[j])'
               PROVE  /\ conns'[j].slot \in Rsa!Slot
                      /\ job[conns'[j].slot].state # "free"
                      /\ job[conns'[j].slot].message = conns'[j].id
    BY DEF WaitsForOwnSlot
  <2>1. j # i /\ conns'[j] = conns[j] /\ conns[j].toDo = "WAIT_DECRYPT_MASTER_SECRET"
    BY <1>3, <1>11 DEF Waiting
  <2>2. conns[j].sessionId = conns[j].id /\ conns[j].id \in Clients \ {c}
    BY <1>11, <2>1, WaitingIs
  <2>3. PICK l \in SessIndex : sessions'[l].id = conns[j].id /\ ~ sessions'[l].valid
    BY <1>8, <2>1, <2>2 DEF Waiting, SessionsOf, EntriesOf
  <2>4. sessions'[l] = sessions[l]
    BY <1>6, <1>8, <2>2, <2>3
  <2>5. Waiting(conns[j])
    BY <1>8, <2>1, <2>2, <2>3, <2>4, Sizes DEF Waiting, SessionsOf, EntriesOf
  <2> QED
    BY <2>1, <2>5 DEF TlsInv, WaitsForOwnSlot
<1>14. SessionHasItsMaster'
  BY <1>6, <1>8 DEF TlsInv, SessionHasItsMaster
<1>15. /\ job \in [Rsa!Slot -> Rsa!Jobs] /\ http \subseteq Clients /\ short \in BOOLEAN
  BY DEF TlsInv, ServerTypes, ClientTypes
<1> QED
  BY <1>3, <1>5, <1>8, <1>9, <1>12, <1>13, <1>14, <1>15, HandlingStep

LEMMA ClientHelloStep ==
  ASSUME TlsInv, Handle, NEW tick, ClientHello(tick)
  PROVE  TlsInv'
<1> DEFINE asked == SessionsOf(Record.session)
           resume == \E k \in asked : sessions[k].valid
           k == IF resume THEN First(asked) ELSE EmptyOrOldest(sessions, sessUsed)
<1>1. /\ ~ Idle /\ Record.type = "hello"
      /\ running' = IF Len(running.records) = 1 THEN <<>>
                    ELSE [running EXCEPT !.records = Tail(@)]
      /\ UNCHANGED <<connUsed, next, out, over, job, http>>
  BY DEF ClientHello, Handling
<1>2. UNCHANGED <<short, peer, sent, begun>>
  BY <1>1, ShortStays
<1>3. PICK i \in ConnIndex : i = running.index
  BY <1>1, WhatIsHandled
<1>4. PICK c \in Clients : c = conns[i].id /\ c = Hashed.id
  BY <1>1, <1>3, WhatIsHandled, HashedIs DEF HandshakeTypes
<1>5. Record.session = peer[c].session
  BY <1>1, <1>3, <1>4, RecordKinds DEF Hello
<1>6. sessions \in [SessIndex -> Session] /\ sessUsed \in [SessIndex -> Nat]
  BY DEF TlsInv, ServerTypes
<1>7. sessUsed' \in [SessIndex -> Nat]
  <2>1. sessUsed' = Use(sessUsed, k, tick)
    BY DEF ClientHello
  <2> HIDE DEF k
  <2> QED
    BY <1>6, <2>1, UseIsTyped, Sizes
<1>8. CASE resume
  <2>1. /\ sessions' = sessions /\ SessionsOf(Record.session) # {}
        /\ conns' = [conns EXCEPT ![i] = [Hashed EXCEPT !.sessionId = Record.session, !.resume = TRUE,
                                                        !.toDo = "SEND_SERVER_HELLO_RESUME"]]
    BY <1>3, <1>8 DEF ClientHello, SetConn
  <2>2. PICK s : s = peer[c].session
    OBVIOUS
  <2>3. PICK p : p = [Hashed EXCEPT !.sessionId = s, !.resume = TRUE, !.toDo = "SEND_SERVER_HELLO_RESUME"]
    OBVIOUS
  <2>4. conns' = [conns EXCEPT ![i] = p] /\ SessionsOf(s) # {}
    BY <1>5, <2>1, <2>2, <2>3
  <2> HIDE DEF asked, resume, k
  <2> QED
    BY <1>1, <1>2, <1>3, <1>4, <1>7, <2>1, <2>2, <2>3, <2>4, HelloResumes
<1>9. CASE ~ resume
  <2>1. k \in SessIndex
    <3>1. DOMAIN sessions = SessIndex
      BY <1>6
    <3> QED
      BY <1>6, <1>9, <3>1, EmptyOrOldestIsIn, Sizes
  <2>2. /\ sessions' = [sessions EXCEPT ![k] = [NoSession EXCEPT !.id = c]]
        /\ conns' = [conns EXCEPT ![i] = [Hashed EXCEPT !.sessionId = c, !.resume = FALSE,
                                                        !.toDo = "SEND_SERVER_HELLO_NEW"]]
    BY <1>3, <1>4, <1>9 DEF ClientHello, SetConn, Zeroed
  <2>3. PICK p : p = [Hashed EXCEPT !.sessionId = c, !.resume = FALSE, !.toDo = "SEND_SERVER_HELLO_NEW"]
    OBVIOUS
  <2>4. PICK l \in SessIndex : l = k
    BY <2>1
  <2>5. conns' = [conns EXCEPT ![i] = p] /\ sessions' = [sessions EXCEPT ![l] = [NoSession EXCEPT !.id = c]]
    BY <2>2, <2>3, <2>4
  <2> HIDE DEF asked, resume, k
  <2> QED
    BY <1>1, <1>2, <1>3, <1>4, <1>7, <2>3, <2>5, HelloMakesSession
<1> QED
  BY <1>8, <1>9

\* A key exchange is handed to a slot: a free one as long as there is one.
LEMMA KeyExchangeStarts ==
  ASSUME TlsInv, ~ Idle, NEW i \in ConnIndex, running.index = i, NEW c \in Clients, conns[i].id = c,
         Record.type = "keyExchange", NEW s \in Rsa!Slot \cup {NoSlot},
         NEW p, p = Decrypting(Hashed, s), conns' = [conns EXCEPT ![i] = p],
         running' = IF Len(running.records) = 1 THEN <<>>
                    ELSE [running EXCEPT !.records = Tail(@)],
         UNCHANGED <<connUsed, next, out, over, peer, sent, begun, sessions, sessUsed, http>>,
         job' \in [Rsa!Slot -> Rsa!Jobs], short' \in BOOLEAN, short => short',
         ~ short' => /\ s \in Rsa!Slot /\ job[s].state = "free"
                     /\ job' = [job EXCEPT ![s] = Rsa!Busy(c)]
  PROVE  TlsInv'
<1>1. NewAnswered(c, conns[i], 1) /\ Phase(c) = "keyed" /\ running.deferring /\ Handled(i) = 1
  BY RecordKinds
<1>2. /\ Hashed \in Connection /\ Hashed.id = c /\ Hashed.sessionId = conns[i].sessionId
      /\ Hashed.resume = conns[i].resume /\ Hashed.clientEncrypted = conns[i].clientEncrypted
      /\ Hashed.keys = conns[i].keys /\ Hashed.deferred = conns[i].deferred
      /\ Hashed.handshakeSha = Append(conns[i].handshakeSha, "keyExchange")
  BY HashedIs DEF HandshakeTypes
<1> HIDE DEF Hashed
<1>3. /\ p \in Connection /\ p.id = c /\ p.sessionId = conns[i].sessionId
      /\ p.resume = conns[i].resume /\ p.clientEncrypted = conns[i].clientEncrypted
      /\ p.keys = conns[i].keys /\ p.deferred = conns[i].deferred /\ p.slot = s
      /\ p.toDo = "WAIT_DECRYPT_MASTER_SECRET"
      /\ p.handshakeSha = Append(conns[i].handshakeSha, "keyExchange")
  BY <1>2 DEF Decrypting, Connection, ToDos
<1>4. p.handshakeSha = AfterKeyExchange
  BY <1>1, <1>3, HashesGrow DEF NewAnswered
<1>5. PICK q : q = 2 /\ q = (IF running.deferring THEN Handled(i) + 1 ELSE Handled(i))
  BY <1>1
<1>6. EntryIsRight(c, p, q)'
  <2>1. Waits(c, p, q)'
    BY <1>1, <1>3, <1>4, <1>5 DEF NewAnswered, Waits, Phase
  <2> QED
    BY <2>1 DEF EntryIsRight
<1>7. /\ sessions \in [SessIndex -> Session] /\ sessUsed \in [SessIndex -> Nat]
      /\ http \subseteq Clients /\ conns \in [ConnIndex -> Connection] /\ SessionIdsDiffer
      /\ job \in [Rsa!Slot -> Rsa!Jobs]
  BY DEF TlsInv, ServerTypes, NoneTwice, SessionIdsDiffer
<1>8. conns'[i] = p /\ \A j \in ConnIndex \ {i} : conns'[j] = conns[j]
  BY <1>7
<1>9. SessionsAreRight'
  <2>1. KeysAreRight'
    BY <1>3, <1>8, OldKeysStay DEF TlsInv, SessionsAreRight
  <2> QED
    BY <2>1, TrustStays, ChangedStay DEF TlsInv, SessionsAreRight
<1>10. WaitsForOwnSlot'
  <2> SUFFICES ASSUME ~ short', NEW j \in ConnIndex, Waiting(conns[j])'
               PROVE  /\ conns'[j].slot \in Rsa!Slot
                      /\ job'[conns'[j].slot].state # "free"
                      /\ job'[conns'[j].slot].message = conns'[j].id
    BY DEF WaitsForOwnSlot
  <2>1. s \in Rsa!Slot /\ job[s].state = "free" /\ job' = [job EXCEPT ![s] = Rsa!Busy(c)]
    OBVIOUS
  <2>2. /\ job'[s].state # "free" /\ job'[s].message = c
        /\ \A t \in Rsa!Slot \ {s} : job'[t] = job[t]
    BY <1>7, <2>1 DEF Rsa!Busy
  <2>3. CASE j = i
    BY <1>3, <1>8, <2>1, <2>2, <2>3
  <2>4. CASE j # i
    <3>1. Waiting(conns[j]) /\ conns'[j] = conns[j]
      BY <1>8, <2>4 DEF Waiting, SessionsOf, EntriesOf
    <3>2. /\ conns[j].slot \in Rsa!Slot /\ job[conns[j].slot].state # "free"
          /\ job[conns[j].slot].message = conns[j].id
      BY <3>1 DEF TlsInv, WaitsForOwnSlot
    <3> QED
      BY <2>1, <2>2, <3>1, <3>2
  <2> QED
    BY <2>3, <2>4
<1>11. SessionHasItsMaster'
  BY MastersStay DEF TlsInv
<1>12. SessionIdsDiffer' /\ \A d \in Clients \ {c} : /\ NoSessionOf(d) => NoSessionOf(d)'
                                                     /\ NoneIsWaiting(d) => NoneIsWaiting(d)'
  BY <1>7, SessionsFor
<1> QED
  BY <1>3, <1>5, <1>6, <1>7, <1>9, <1>10, <1>11, <1>12, HandlingStep

LEMMA ClientKeyExchangeStep ==
  ASSUME TlsInv, Handle, ClientKeyExchange
  PROVE  TlsInv'
<1>1. /\ ~ Idle /\ Record.type = "keyExchange" /\ ~ IsDeferred
      /\ running' = IF Len(running.records) = 1 THEN <<>>
                    ELSE [running EXCEPT !.records = Tail(@)]
      /\ UNCHANGED <<connUsed, next, out, over, sessions, sessUsed, http, peer, sent, begun>>
  BY DEF ClientKeyExchange, Handling, Handle
<1>2. PICK i \in ConnIndex : i = running.index
  BY <1>1, WhatIsHandled
<1>3. PICK c \in Clients : c = conns[i].id /\ c = Hashed.id
  BY <1>1, <1>2, WhatIsHandled, HashedIs DEF HandshakeTypes
<1>4. /\ NewAnswered(c, conns[i], 1) /\ Phase(c) = "keyed" /\ Record.premaster = c
      /\ running.deferring /\ Handled(i) = 1
  BY <1>1, <1>2, <1>3, RecordKinds DEF KeyExchange
<1>5. short \in BOOLEAN /\ job \in [Rsa!Slot -> Rsa!Jobs]
  BY DEF TlsInv, ClientTypes, ServerTypes
<1>6. /\ short' \in BOOLEAN /\ (short => short') /\ (short' = short \/ short' = TRUE)
      /\ ~ short' => Rsa!InState(job, "free") # {}
  BY <1>1, <1>5 DEF Handle
<1>7. ~ short' => \E s \in Rsa!Slot : Rsa!IsFirst(s, Rsa!InState(job, "free"))
  <2> SUFFICES ASSUME ~ short' PROVE \E s \in Rsa!Slot : Rsa!IsFirst(s, Rsa!InState(job, "free"))
    OBVIOUS
  <2>1. PICK S : S = Rsa!InState(job, "free")
    OBVIOUS
  <2>2. S # {} /\ S \subseteq Rsa!Slot /\ S \subseteq Nat
    BY <1>6, <2>1, Sizes DEF Rsa!InState
  <2>3. PICK s \in S : \A t \in S : s <= t
    BY <2>2, Least
  <2> QED
    BY <2>1, <2>2, <2>3 DEF Rsa!IsFirst
<1>8. CASE SetConn([Hashed EXCEPT !.toDo = "SEND_ALERT_ILLEGAL_PARAMETER"]) /\ job' = job
  <2>1. PICK p : p = [Hashed EXCEPT !.toDo = "SEND_ALERT_ILLEGAL_PARAMETER"]
    OBVIOUS
  <2>2. /\ Hashed \in Connection /\ Hashed.id = c /\ Hashed.sessionId = conns[i].sessionId
        /\ Hashed.resume = conns[i].resume /\ Hashed.clientEncrypted = conns[i].clientEncrypted
        /\ Hashed.keys = conns[i].keys /\ Hashed.deferred = conns[i].deferred
        /\ Hashed.handshakeSha = Append(conns[i].handshakeSha, "keyExchange")
    BY <1>1, <1>2, <1>3, HashedIs DEF HandshakeTypes
  <2>3. /\ p \in Connection /\ p.id = c /\ p.sessionId = conns[i].sessionId
        /\ p.resume = conns[i].resume /\ p.clientEncrypted = conns[i].clientEncrypted
        /\ p.keys = conns[i].keys /\ p.toDo = "SEND_ALERT_ILLEGAL_PARAMETER"
        /\ p.handshakeSha = Append(conns[i].handshakeSha, "keyExchange")
    <3> HIDE DEF Hashed
    <3> QED
      BY <2>1, <2>2 DEF Connection, ToDos
  <2>4. p.handshakeSha = AfterKeyExchange
    BY <1>4, <2>3, HashesGrow DEF NewAnswered
  <2>5. PICK q : q = 2 /\ q = (IF running.deferring THEN Handled(i) + 1 ELSE Handled(i))
    BY <1>4
  <2>6. EntryIsRight(c, p, q)
    <3>1. Refused(c, p, q)
      BY <1>4, <2>3, <2>4, <2>5 DEF NewAnswered, Refused
    <3> QED
      BY <3>1 DEF EntryIsRight
  <2>7. conns' = [conns EXCEPT ![i] = p]
    BY <1>2, <1>8, <2>1 DEF SetConn
  <2> HIDE DEF Hashed
  <2> QED
    BY <1>1, <1>2, <1>3, <1>6, <1>8, <2>3, <2>5, <2>6, <2>7, QuietStep
<1>9. ASSUME NEW s \in Rsa!Slot, Rsa!Takes(job, s), job' = [job EXCEPT ![s] = Rsa!Busy(Record.premaster)],
             SetConn(Decrypting(Hashed, s))
      PROVE  TlsInv'
  <2>1. PICK p : p = Decrypting(Hashed, s)
    OBVIOUS
  <2>2. conns' = [conns EXCEPT ![i] = p]
    BY <1>2, <1>9, <2>1 DEF SetConn
  <2>3. job' = [job EXCEPT ![s] = Rsa!Busy(c)] /\ Rsa!Busy(c) \in Rsa!Jobs
    BY <1>4, <1>9 DEF Rsa!Jobs
  <2>4. job' \in [Rsa!Slot -> Rsa!Jobs]
    BY <1>5, <2>3
  <2>5. ~ short' => job[s].state = "free"
    BY <1>6, <1>9 DEF Rsa!Takes, Rsa!IsFirst, Rsa!InState
  <2> HIDE DEF Hashed
  <2> QED
    BY <1>1, <1>2, <1>3, <1>6, <2>1, <2>2, <2>3, <2>4, <2>5, KeyExchangeStarts
<1>10. CASE /\ \A s \in Rsa!Slot : ~ Rsa!Takes(job, s)
            /\ SetConn(Decrypting(Hashed, NoSlot)) /\ job' = job
  <2>1. PICK p : p = Decrypting(Hashed, NoSlot)
    OBVIOUS
  <2>2. conns' = [conns EXCEPT ![i] = p]
    BY <1>2, <1>10, <2>1 DEF SetConn
  <2>3. short'
    BY <1>7, <1>10 DEF Rsa!Takes
  <2> HIDE DEF Hashed
  <2> QED
    BY <1>1, <1>2, <1>3, <1>5, <1>6, <1>10, <2>1, <2>2, <2>3, KeyExchangeStarts
<1> HIDE DEF Hashed
<1> QED
  BY <1>8, <1>9, <1>10 DEF ClientKeyExchange

LEMMA HandleStep ==
  ASSUME TlsInv, Handle
  PROVE  TlsInv'
<1>1. HandleContent
  BY DEF Handle
<1> QED
  BY <1>1, DeferStep, ClientHelloStep, ClientKeyExchangeStep, ShortHandshakeStep, ClientFinishedStep,
     ClientChangeCipherStep, ClientApplicationStep, ClientOtherStep DEF HandleContent

-----------------------------------------------------------------------------
(***************************************************************************)
(* The engine, and TlsRequestMain                                          *)
(***************************************************************************)
\* Slots, ranks and the place in the table change, no connection does.
LEMMA BackStep ==
  ASSUME TlsInv,
         UNCHANGED <<conns, sessions, sessUsed, running, http, out, over, peer, sent, begun, short>>,
         connUsed' \in [ConnIndex -> Nat], next' \in ConnIndex, job' \in [Rsa!Slot -> Rsa!Jobs],
         WaitsForOwnSlot'
  PROVE  TlsInv'
<1>1. ServerTypes' /\ ClientTypes'
  <2>1. ServerTypes'
    BY DEF TlsInv, ServerTypes, Idle
  <2>2. ClientTypes'
    BY DEF TlsInv, ClientTypes
  <2> QED
    BY <2>1, <2>2
<1>2. \A d \in Clients : Stands(d) /\ (NoneIsWaiting(d) => NoneIsWaiting(d)')
  BY DEF Stands, NoSessionOf, NoneIsWaiting
<1>3. \A d \in Clients : RecordsOf(d)' /\ FlightsOf(d)' /\ ClientIsRight(d)'
  BY <1>2, ClientStands DEF TlsInv
<1>4. \A i \in ConnIndex : EntryOf(i)'
  <2> SUFFICES ASSUME NEW i \in ConnIndex PROVE EntryOf(i)'
    OBVIOUS
  <2>1. CASE conns[i].id = None
    BY <2>1 DEF EntryOf
  <2>2. CASE conns[i].id # None
    <3>1. conns[i].id \in Clients
      BY <2>2, EntryIsConnected
    <3>2. LeftOf(i)' = LeftOf(i)
      BY DEF LeftOf, Idle
    <3> QED
      BY <1>2, <3>1, <3>2, EntryStands DEF TlsInv
  <2> QED
    BY <2>1, <2>2
<1>5. RunningInOrder'
  BY DEF TlsInv, RunningInOrder, Idle, Live, Phase, Handled, Received, LeftOf, SentAt
<1>6. NoneTwice' /\ EmptyAreIdle' /\ PutByIsHandled' /\ SessionHasItsMaster'
  BY DEF TlsInv, NoneTwice, EmptyAreIdle, PutByIsHandled, NoneIsWaiting, SessionHasItsMaster, Idle
<1>7. SessionsAreRight'
  <2>1. KeysAreRight'
    BY KeysStay DEF TlsInv, SessionsAreRight
  <2> QED
    BY <2>1, TrustStays, ChangedStay DEF TlsInv, SessionsAreRight
<1> QED
  BY <1>1, <1>3, <1>4, <1>5, <1>6, <1>7 DEF TlsInv

LEMMA DecryptedStep ==
  ASSUME TlsInv, Decrypted
  PROVE  TlsInv'
<1>1. PICK s \in Rsa!Slot : Rsa!Finish(s)
  BY DEF Decrypted, CryptoMain
<1>2. UNCHANGED <<conns, connUsed, next, sessions, sessUsed, running, http, out, over, peer, sent,
                  begun, short>>
  BY DEF Decrypted, CryptoMain, clientVars
<1>3. connUsed \in [ConnIndex -> Nat] /\ next \in ConnIndex /\ job \in [Rsa!Slot -> Rsa!Jobs]
  BY DEF TlsInv, ServerTypes
<1>4. PICK c \in Clients : c = job[s].message
  <2>1. job[s] \in Rsa!Jobs /\ job[s].state = "busy"
    BY <1>1, <1>3 DEF Rsa!Finish
  <2> QED
    BY <2>1 DEF Rsa!Jobs, Rsa!Free, Rsa!Busy, Rsa!Done
<1>5. job' = [job EXCEPT ![s] = Rsa!Done(c, c)]
  BY <1>1, <1>4 DEF Rsa!Finish
<1>6. Rsa!Done(c, c) \in Rsa!Jobs
  BY DEF Rsa!Jobs
<1>7. job' \in [Rsa!Slot -> Rsa!Jobs]
  BY <1>3, <1>5, <1>6
<1>8. /\ job'[s].state # "free" /\ job'[s].message = job[s].message
      /\ \A t \in Rsa!Slot \ {s} : job'[t] = job[t]
  BY <1>3, <1>4, <1>5 DEF Rsa!Done
<1>9. WaitsForOwnSlot'
  <2> SUFFICES ASSUME ~ short, NEW j \in ConnIndex, Waiting(conns[j])
               PROVE  /\ conns[j].slot \in Rsa!Slot
                      /\ job'[conns[j].slot].state # "free"
                      /\ job'[conns[j].slot].message = conns[j].id
    BY <1>2 DEF WaitsForOwnSlot, Waiting, SessionsOf, EntriesOf
  <2>1. /\ conns[j].slot \in Rsa!Slot /\ job[conns[j].slot].state # "free"
        /\ job[conns[j].slot].message = conns[j].id
    BY DEF TlsInv, WaitsForOwnSlot
  <2> QED
    BY <1>8, <2>1
<1> QED
  BY <1>2, <1>3, <1>7, <1>9, BackStep

\* The premaster secret of an entry that waits is collected.
LEMMA CollectStep ==
  ASSUME TlsInv, Idle, NEW i \in ConnIndex, NEW c \in Clients, conns[i].id = c, Waiting(conns[i]),
         NEW k \in SessIndex, sessions[k].id = c, NEW pm \in Clients \cup {Garbage},
         ~ short => pm = c,
         NEW m, m = <<pm, c>>, NEW keys, keys = <<m, c>>,
         NEW p \in Connection, p.id = c, p.toDo = conns[i].toDo, p.sessionId = conns[i].sessionId,
         p.resume = conns[i].resume, p.clientEncrypted = conns[i].clientEncrypted,
         p.deferred = conns[i].deferred, p.handshakeSha = conns[i].handshakeSha, p.keys = keys,
         NEW s \in Session, s.id = c, s.valid, s.master = m,
         conns' = [conns EXCEPT ![i] = p], sessions' = [sessions EXCEPT ![k] = s],
         running' = [index |-> i, records |-> <<conns[i].deferred>>, deferring |-> FALSE],
         job' = [t \in Rsa!Slot |-> IF t = conns[i].slot THEN Rsa!Free ELSE job[t]],
         next' \in ConnIndex,
         UNCHANGED <<connUsed, sessUsed, http, out, over, peer, sent, begun, short>>
  PROVE  TlsInv'
<1>1. /\ conns \in [ConnIndex -> Connection] /\ sessions \in [SessIndex -> Session]
      /\ job \in [Rsa!Slot -> Rsa!Jobs] /\ conns[i] \in Connection /\ sessions[k] \in Session
  BY DEF TlsInv, ServerTypes
<1>2. /\ Live(c) /\ c \in begun /\ conns[i].sessionId = c /\ c # None
      /\ Waits(c, conns[i], Handled(i)) /\ conns[i].toDo = "WAIT_DECRYPT_MASTER_SECRET"
  BY WaitingIs, Sizes DEF Waiting
<1>3. ~ sessions[k].valid
  <2>1. PICK l \in SessIndex : sessions[l].id = c /\ ~ sessions[l].valid
    BY <1>1, <1>2 DEF Waiting, SessionsOf, EntriesOf
  <2>2. l = k
    BY <1>2, <2>1 DEF TlsInv, NoneTwice
  <2> QED
    BY <2>1, <2>2
<1>4. conns[i].handshakeSha = AfterKeyExchange
  BY <1>2, <1>3 DEF Waits, NoneIsWaiting
<1>5. /\ p.id = c /\ p.toDo = conns[i].toDo /\ p.sessionId = c
      /\ p.resume = conns[i].resume /\ p.clientEncrypted = conns[i].clientEncrypted
      /\ p.deferred = conns[i].deferred /\ p.handshakeSha = conns[i].handshakeSha
      /\ p.keys = <<<<pm, c>>, c>>
  BY <1>2
<1>6. s \in Session /\ s.id = c /\ s.valid /\ s.master = <<pm, c>>
  OBVIOUS
<1>7. conns'[i] = p /\ \A j \in ConnIndex \ {i} : conns'[j] = conns[j] /\ conns[j].id # c
  BY <1>1, <1>2 DEF TlsInv, NoneTwice
<1>8. /\ sessions' \in [SessIndex -> Session] /\ sessions'[k] = s
      /\ \A l \in SessIndex \ {k} : sessions'[l] = sessions[l] /\ sessions[l].id # c
      /\ SessionIdsDiffer'
      /\ \A d \in Clients \ {c} : /\ NoSessionOf(d) => NoSessionOf(d)'
                                  /\ NoneIsWaiting(d) => NoneIsWaiting(d)'
                                  /\ HasMaster(d) => HasMaster(d)'
  <2>1. sessions[k].id = c \/ NoSessionOf(c)
    OBVIOUS
  <2>2. s.id = c /\ s \in Session
    BY <1>6
  <2>3. /\ sessions' \in [SessIndex -> Session] /\ sessions'[k] = s
        /\ \A l \in SessIndex \ {k} : sessions'[l] = sessions[l]
        /\ \A l \in SessIndex \ {k} : sessions[l].id # c
        /\ SessionIdsDiffer'
        /\ \A d \in Clients \ {c} : /\ NoSessionOf(d) => NoSessionOf(d)'
                                    /\ NoneIsWaiting(d) => NoneIsWaiting(d)'
                                    /\ HasMaster(d) => HasMaster(d)'
    BY <2>1, <2>2, SessionChanges, Zenon
  <2> QED
    BY <2>3, Zenon
<1>9. NoneIsWaiting(c)'
  BY <1>6, <1>8 DEF NoneIsWaiting
<1>10. /\ running'.index = i /\ running'.records = <<p.deferred>> /\ ~ running'.deferring
       /\ running' \in Call /\ ~ Idle' /\ running'.records # <<>>
  <2>1. <<conns[i].deferred>> \in Seq(Records) /\ <<conns[i].deferred>> # <<>>
    BY <1>1 DEF Connection, PutByRecords, Records
  <2>2. /\ running'.index = i /\ running'.records = <<conns[i].deferred>> /\ running'.deferring = FALSE
        /\ running' \in Call
    BY <2>1 DEF Call
  <2>3. running' # <<>>
    BY <2>2
  <2> QED
    BY <1>5, <2>1, <2>2, <2>3 DEF Idle
<1>11. \A j \in ConnIndex : LeftOf(j)' = LeftOf(j) /\ LeftOf(j) = 0
  BY <1>10 DEF LeftOf
<1>12. \A d \in Clients \ {c} : Stands(d) /\ (NoneIsWaiting(d) => NoneIsWaiting(d)')
  BY <1>8 DEF Stands
<1>13. ServerTypes' /\ ClientTypes'
  <2>1. job' \in [Rsa!Slot -> Rsa!Jobs]
    BY <1>1 DEF Rsa!Jobs
  <2>2. conns' \in [ConnIndex -> Connection]
    BY <1>1, <1>5
  <2>3. ServerTypes'
    BY <1>8, <1>10, <2>1, <2>2 DEF TlsInv, ServerTypes
  <2>4. ClientTypes'
    BY DEF TlsInv, ClientTypes
  <2> QED
    BY <2>3, <2>4
<1>14. Phase(c)' = Phase(c) /\ Live(c)' /\ Received(c)' = Received(c)
  BY <1>2 DEF Phase, Live, Received
<1>15. RecordsOf(c)' /\ FlightsOf(c)' /\ ClientIsRight(c)'
  <2>1. RecordsOf(c)'
    BY <1>2, <1>14 DEF TlsInv, RecordsOf, SentAt, Phase
  <2>2. FlightsOf(c)'
    BY DEF TlsInv, FlightsOf, FlightIsRight, Phase, ChangeFlight, ResumeFlight
  <2>3. ClientIsRight(c)'
    BY <1>2, <1>14 DEF TlsInv, ClientIsRight
  <2> QED
    BY <2>1, <2>2, <2>3
<1>16. EntryOf(i)'
  <2>1. Handled(i)' = Handled(i)
    BY <1>5, <1>7, <1>11, <1>14 DEF Handled
  <2>2. Waits(c, p, Handled(i))'
    BY <1>2, <1>4, <1>5, <1>14, <2>1 DEF Waits
  <2>3. Phase(c) # "new"
    BY <1>2 DEF Waits
  <2> QED
    BY <1>2, <1>5, <1>7, <1>14, <2>2, <2>3 DEF EntryOf, EntryIsRight
<1>17. RunningInOrder'
  BY <1>5, <1>7, <1>10, <1>14 DEF RunningInOrder
<1>18. PutByIsHandled'
  BY <1>2, <1>4, <1>5, <1>7, <1>9, <1>10 DEF PutByIsHandled
<1>19. SessionsAreRight'
  <2>1. TrustedAreRight'
    <3> SUFFICES ASSUME NEW t \in Trusted
                 PROVE  HasMaster(t)' /\ Phase(t) \in {"open", "done", "alerted", "unread", "gone"}
      BY DEF TrustedAreRight, Trusted, Phase
    <3>1. HasMaster(t) /\ Phase(t) \in {"open", "done", "alerted", "unread", "gone"}
      BY DEF TlsInv, SessionsAreRight, TrustedAreRight
    <3>2. t \in Clients
      BY DEF TlsInv, ClientTypes, Peer, Trusted
    <3>3. t # c
      BY <1>2, <3>1 DEF Waits
    <3> QED
      BY <1>8, <3>1, <3>2, <3>3
  <2>2. ChangedAreRight'
    <3> SUFFICES ASSUME NEW d \in Clients, Phase(d) = "keyed", Len(out[d]) > 0,
                        out[d][1] = ChangeFlight(d)
                 PROVE  HasMaster(d)'
      BY DEF ChangedAreRight, ChangeFlight, Phase
    <3>1. HasMaster(d)
      BY DEF TlsInv, SessionsAreRight, ChangedAreRight
    <3>2. d # c
      BY <1>3, <3>1 DEF HasMaster
    <3> QED
      BY <1>8, <3>1, <3>2
  <2>3. KeysAreRight'
    <3> SUFFICES ASSUME NEW j \in ConnIndex, NEW d \in Clients, conns'[j].keys = Keys(d, d)
                 PROVE  d \in begun /\ (conns'[j].id = d => HasMaster(d)')
      BY DEF KeysAreRight, Keys, Master
    <3>1. CASE j = i
      <4>1. d = c /\ pm = c
        <5>1. <<<<pm, c>>, c>> = <<<<d, d>>, d>>
          BY <1>5, <1>7, <3>1 DEF Keys, Master
        <5> QED
          BY <5>1
      <4>2. HasMaster(c)'
        BY <1>6, <1>8, <4>1 DEF HasMaster, Master
      <4> QED
        BY <1>2, <4>1, <4>2
    <3>2. CASE j # i
      <4>1. conns'[j] = conns[j] /\ conns[j].id # c
        BY <1>7, <3>2
      <4>2. d \in begun /\ (conns[j].id = d => HasMaster(d))
        BY <4>1 DEF TlsInv, SessionsAreRight, KeysAreRight
      <4> QED
        BY <1>8, <4>1, <4>2
    <3> QED
      BY <3>1, <3>2
  <2> QED
    BY <2>1, <2>2, <2>3 DEF SessionsAreRight
<1>20. WaitsForOwnSlot'
  <2> SUFFICES ASSUME ~ short, NEW j \in ConnIndex, Waiting(conns[j])'
               PROVE  /\ conns'[j].slot \in Rsa!Slot
                      /\ job'[conns'[j].slot].state # "free"
                      /\ job'[conns'[j].slot].message = conns'[j].id
    BY DEF WaitsForOwnSlot
  <2>1. j # i
    BY <1>5, <1>6, <1>7, <1>8 DEF Waiting, SessionsOf, EntriesOf
  <2>2. conns'[j] = conns[j] /\ conns[j].id # c
    BY <1>7, <2>1
  <2>3. conns[j].toDo = "WAIT_DECRYPT_MASTER_SECRET"
    BY <2>2 DEF Waiting
  <2>4. conns[j].sessionId = conns[j].id /\ conns[j].id \in Clients \ {c}
    BY <2>2, <2>3, WaitingIs
  <2>5. PICK l \in SessIndex : sessions'[l].id = conns[j].id /\ ~ sessions'[l].valid
    BY <1>8, <2>2, <2>4 DEF Waiting, SessionsOf, EntriesOf
  <2>6. sessions'[l] = sessions[l]
    BY <1>6, <1>8, <2>4, <2>5
  <2>7. Waiting(conns[j])
    BY <1>1, <2>3, <2>4, <2>5, <2>6, Sizes DEF Waiting, SessionsOf, EntriesOf
  <2>8. /\ conns[j].slot \in Rsa!Slot /\ job[conns[j].slot].state # "free"
        /\ job[conns[j].slot].message = conns[j].id /\ job[conns[i].slot].message = c
    BY <2>7 DEF TlsInv, WaitsForOwnSlot
  <2>9. job'[conns[j].slot] = job[conns[j].slot]
    BY <2>2, <2>8
  <2> QED
    BY <2>2, <2>8, <2>9
<1>21. SessionHasItsMaster'
  <2> SUFFICES ASSUME ~ short, NEW l \in SessIndex, sessions'[l].valid
               PROVE  sessions'[l].master = Master(sessions'[l].id)
    BY DEF SessionHasItsMaster, Master
  <2>1. CASE l = k
    BY <1>6, <1>8, <2>1 DEF Master
  <2>2. CASE l # k
    BY <1>8, <2>2 DEF TlsInv, SessionHasItsMaster
  <2> QED
    BY <2>1, <2>2
<1>22. \A j \in ConnIndex \ {i} : LeftOf(j)' = LeftOf(j)
  BY <1>11
<1>23. UNCHANGED <<peer, begun>> /\ p \in Connection /\ p.id = c /\ SessionIdsDiffer'
  BY <1>5, <1>8
<1> QED
  BY <1>12, <1>13, <1>15, <1>16, <1>17, <1>18, <1>19, <1>20, <1>21, <1>22, <1>23, EntryStep

LEMMA CollectingStep ==
  ASSUME TlsInv, Collecting
  PROVE  TlsInv'
<1>1. /\ Idle /\ next' = Following
      /\ UNCHANGED <<connUsed, sessUsed, http, out, over, peer, sent, begun, short>>
  BY DEF Collecting, TlsRequestMain, clientVars
<1>2. PICK i \in ConnIndex : i = Following
  <2>1. next \in ConnIndex
    BY DEF TlsInv, ServerTypes
  <2>2. (next + 1) % MaxConnections \in 0 .. MaxConnections - 1
    BY <2>1, Sizes
  <2> QED
    BY <2>2, Sizes DEF Following
<1>3. PICK finished \in LooksFinished(conns[i]) :
        IF Waiting(conns[i]) /\ finished
        THEN Collect(conns[i], First(SessionsOf(conns[i].sessionId)), ResultOf(conns[i]))
        ELSE UNCHANGED <<conns, sessions, job, running>>
  BY <1>2 DEF Collecting, TlsRequestMain
<1>4. /\ connUsed \in [ConnIndex -> Nat] /\ job \in [Rsa!Slot -> Rsa!Jobs]
      /\ conns \in [ConnIndex -> Connection] /\ sessions \in [SessIndex -> Session]
      /\ conns[i] \in Connection
  BY DEF TlsInv, ServerTypes
<1>5. CASE ~ (Waiting(conns[i]) /\ finished)
  <2>1. UNCHANGED <<conns, sessions, job, running>>
    BY <1>3, <1>5
  <2>2. WaitsForOwnSlot'
    BY <1>1, <2>1, SlotsStay DEF TlsInv
  <2> QED
    BY <1>1, <1>2, <1>4, <2>1, <2>2, BackStep
<1>6. CASE Waiting(conns[i]) /\ finished
  <2>1. PICK c \in Clients : c = conns[i].id /\ conns[i].sessionId = c
    BY <1>6, WaitingIs DEF Waiting
  <2>2. PICK k \in SessIndex : k = First(SessionsOf(c)) /\ sessions[k].id = c
    <3>1. PICK S : S = SessionsOf(c)
      OBVIOUS
    <3>2. S # {} /\ S \subseteq Nat /\ \A k \in S : k \in SessIndex /\ sessions[k].id = c
      BY <1>4, <1>6, <2>1, <3>1, Sizes DEF Waiting, SessionsOf, EntriesOf
    <3>3. First(S) \in S
      BY <3>2, FirstIsIn
    <3> QED
      BY <3>1, <3>2, <3>3
  <2>3. PICK pm : pm = ResultOf(conns[i])
    OBVIOUS
  <2> DEFINE m == <<pm, c>>
             keys == <<m, c>>
  <2>4. /\ sessions' = [sessions EXCEPT ![k].master = m, ![k].valid = TRUE]
        /\ conns' = [conns EXCEPT ![i].keys = keys]
        /\ running' = [index |-> i, records |-> <<conns[i].deferred>>, deferring |-> FALSE]
        /\ job' = [t \in Rsa!Slot |-> IF t = conns[i].slot THEN Rsa!Free ELSE job[t]]
    BY <1>2, <1>3, <1>6, <2>1, <2>2, <2>3 DEF Collect, PutBy
  <2>5. conns[i].slot # NoSlot =>
          /\ conns[i].slot \in Rsa!Slot /\ pm = job[conns[i].slot].result
          /\ job[conns[i].slot].state = "done"
    BY <1>3, <1>4, <1>6, <2>3 DEF LooksFinished, ResultOf, Connection
  <2>6. ASSUME conns[i].slot # NoSlot
        PROVE  job[conns[i].slot].message = pm /\ pm \in Clients
    <3>1. PICK j \in Rsa!Jobs : j = job[conns[i].slot]
      BY <1>4, <2>5, <2>6
    <3>2. j.state = "done" /\ pm = j.result
      BY <2>5, <2>6, <3>1
    <3>3. PICK d \in Clients : j = Rsa!Done(d, d)
      BY <3>2 DEF Rsa!Jobs, Rsa!Free, Rsa!Busy
    <3> QED
      BY <3>1, <3>2, <3>3 DEF Rsa!Done
  <2>7. pm \in Clients \cup {Garbage}
    BY <2>3, <2>6 DEF ResultOf
  <2>8. ~ short => pm = c
    <3> SUFFICES ASSUME ~ short PROVE pm = c
      OBVIOUS
    <3>1. conns[i].slot \in Rsa!Slot /\ job[conns[i].slot].message = c
      BY <1>6, <2>1 DEF TlsInv, WaitsForOwnSlot
    <3> QED
      BY <2>6, <3>1, Sizes
  <2>15. PICK n, u : n = m /\ u = keys
    OBVIOUS
  <2>16. n = <<pm, c>> /\ u = <<n, c>>
    BY <2>15
  <2> HIDE DEF m, keys
  <2>9. PICK p : p = [conns[i] EXCEPT !.keys = u]
    OBVIOUS
  <2>10. PICK s : s = [sessions[k] EXCEPT !.master = n, !.valid = TRUE]
    OBVIOUS
  <2>11. conns' = [conns EXCEPT ![i] = p]
    BY <2>4, <2>9, <2>15
  <2>12. sessions' = [sessions EXCEPT ![k] = s]
    BY <2>4, <2>10, <2>15
  <2>13. Idle /\ conns[i].id = c /\ Waiting(conns[i]) /\ next' \in ConnIndex
    BY <1>1, <1>2, <1>6, <2>1
  <2>14. UNCHANGED <<connUsed, sessUsed, http, out, over, peer, sent, begun, short>>
    BY <1>1
  <2>17. /\ p \in Connection /\ p.id = c /\ p.toDo = conns[i].toDo /\ p.sessionId = conns[i].sessionId
         /\ p.resume = conns[i].resume /\ p.clientEncrypted = conns[i].clientEncrypted
         /\ p.deferred = conns[i].deferred /\ p.handshakeSha = conns[i].handshakeSha /\ p.keys = u
    <3>1. u \in AllKeys
      BY <2>7, <2>16 DEF AllKeys, Masters
    <3> QED
      BY <1>4, <2>1, <2>9, <3>1 DEF Connection
  <2>18. s \in Session /\ s.id = c /\ s.valid /\ s.master = n
    <3>1. n \in Masters
      BY <2>7, <2>16 DEF Masters
    <3>2. sessions[k] \in Session
      BY <1>4
    <3> QED
      BY <2>2, <2>10, <3>1, <3>2 DEF Session
  <2>19. running' = [index |-> i, records |-> <<conns[i].deferred>>, deferring |-> FALSE]
    BY <2>4
  <2>20. job' = [t \in Rsa!Slot |-> IF t = conns[i].slot THEN Rsa!Free ELSE job[t]]
    BY <2>4
  <2> QED
    BY <2>2, <2>19, <2>20, <2>7, <2>8, <2>11, <2>12, <2>13, <2>14, <2>16, <2>17, <2>18, CollectStep, ZenonT(120)
<1> QED
  BY <1>5, <1>6

-----------------------------------------------------------------------------
(***************************************************************************)
(* TlsResponse                                                             *)
(***************************************************************************)
LEMMA OneMore ==
  ASSUME NEW S, NEW s \in Seq(S), NEW f \in S
  PROVE  /\ s \o <<f>> \in Seq(S) /\ Len(s \o <<f>>) = Len(s) + 1
         /\ \A j \in 1 .. Len(s) : (s \o <<f>>)[j] = s[j]
         /\ (s \o <<f>>)[Len(s) + 1] = f
  OBVIOUS

\* A flight goes out: it and the entry are right, and the flights before it stay so.
LEMMA AnswerStep ==
  ASSUME TlsInv, Idle, NEW c \in Clients, c \notin over,
         Phase(c) \in {"hello", "keyed", "careless", "open"},
         NEW i \in ConnIndex, conns[i].id = c, NEW p \in Connection, p.id = c,
         p.toDo # "WAIT_DECRYPT_MASTER_SECRET", conns' = [conns EXCEPT ![i] = p],
         connUsed' \in [ConnIndex -> Nat], NEW f \in Flights,
         NEW o, o = out[c] \o <<f>>, out' = [out EXCEPT ![c] = o],
         NEW isLast \in BOOLEAN, over' = IF isLast THEN over \cup {c} ELSE over,
         http' \subseteq http,
         UNCHANGED <<next, sessions, sessUsed, job, running, peer, sent, begun, short>>,
         NEW n, n = Len(out[c]) + 1, FlightIsRight(c, n)',
         KeysAreRight', f = ChangeFlight(c) => HasMaster(c),
         NEW q, q = Handled(i),
         IF isLast THEN p.toDo = "WAIT_CLIENT_HELLO" ELSE EntryIsRight(c, p, q)'
  PROVE  TlsInv'
<1>1. /\ conns \in [ConnIndex -> Connection] /\ out \in [Clients -> Seq(Flights)]
      /\ over \subseteq Clients /\ http \subseteq Clients /\ c # None
  BY Sizes DEF TlsInv, ServerTypes
<1>2. /\ out[c] \in Seq(Flights) /\ Len(out[c]) \in Nat
  <2>1. out[c] \in Seq(Flights)
    BY <1>1
  <2> QED
    BY <2>1
<1>3. /\ o \in Seq(Flights) /\ Len(o) = n /\ o[n] = f
      /\ \A j \in 1 .. Len(out[c]) : o[j] = out[c][j]
  BY <1>2, OneMore
<1>4. out'[c] = o /\ out' \in [Clients -> Seq(Flights)] /\ \A d \in Clients \ {c} : out'[d] = out[d]
  BY <1>1, <1>3
<1>5. conns'[i] = p /\ \A j \in ConnIndex \ {i} : conns'[j] = conns[j] /\ conns[j].id # c
  BY <1>1 DEF TlsInv, NoneTwice
<1>6. \A d \in Clients \ {c} : Stands(d) /\ (NoneIsWaiting(d) => NoneIsWaiting(d)')
  BY <1>4 DEF Stands, NoSessionOf, NoneIsWaiting
<1>7. \A j \in ConnIndex : LeftOf(j)' = LeftOf(j) /\ LeftOf(j) = 0
  BY DEF LeftOf, Idle
<1>8. ServerTypes' /\ ClientTypes'
  <2>1. conns' \in [ConnIndex -> Connection]
    BY <1>1
  <2>2. ServerTypes'
    BY <1>1, <1>4, <2>1 DEF TlsInv, ServerTypes, Idle
  <2>3. ClientTypes'
    BY DEF TlsInv, ClientTypes
  <2> QED
    BY <2>2, <2>3
<1>9. c \in begun /\ Phase(c)' = Phase(c)
  BY <1>1, EntryIsConnected DEF Phase
<1>10. RecordsOf(c)'
  <2>1. RecordsOf(c)
    BY DEF TlsInv
  <2>2. Live(c)' => Live(c)
    BY <1>9 DEF Live
  <2>3. Received(c)' = Received(c) /\ sent'[c] = sent[c] /\ peer'[c] = peer[c]
    BY DEF Received, Phase
  <2> QED
    BY <2>1, <2>2, <2>3 DEF RecordsOf, SentAt, Phase
<1>11. FlightsOf(c)'
  <2> SUFFICES ASSUME NEW j \in 1 .. n PROVE FlightIsRight(c, j)'
    BY <1>3, <1>4 DEF FlightsOf
  <2>1. CASE j = n
    BY <2>1
  <2>2. CASE j # n
    <3>1. j \in 1 .. Len(out[c])
      BY <1>2, <2>2
    <3>2. out'[c][j] = out[c][j] /\ FlightIsRight(c, j)
      BY <1>3, <1>4, <3>1 DEF TlsInv, FlightsOf
    <3> QED
      BY <3>2 DEF FlightIsRight, Phase, ResumeFlight, ChangeFlight, Content
  <2> QED
    BY <2>1, <2>2
<1>12. ClientIsRight(c)'
  BY <1>9 DEF TlsInv, ClientIsRight
<1>13. EntryOf(i)'
  <2>1. Handled(i)' = q
    BY <1>5, <1>7 DEF Handled, Received, Phase
  <2>2. CASE isLast
    BY <1>5, <1>9, <2>2 DEF EntryOf, Live
  <2>3. CASE ~ isLast
    BY <1>5, <1>9, <2>1, <2>3 DEF EntryOf, Live
  <2> QED
    BY <2>2, <2>3
<1>14. ChangedAreRight'
  <2> SUFFICES ASSUME NEW d \in Clients, Phase(d) = "keyed", Len(out'[d]) > 0,
                      out'[d][1] = ChangeFlight(d)
               PROVE  HasMaster(d)
    BY DEF ChangedAreRight, ChangeFlight, Phase, HasMaster
  <2>1. CASE d # c
    BY <1>4, <2>1 DEF TlsInv, SessionsAreRight, ChangedAreRight
  <2>2. CASE d = c /\ Len(out[c]) = 0
    BY <1>3, <1>4, <2>2
  <2>3. CASE d = c /\ Len(out[c]) > 0
    <3>1. out[c][1] = ChangeFlight(c)
      BY <1>2, <1>3, <1>4, <2>3
    <3> QED
      BY <2>3, <3>1 DEF TlsInv, SessionsAreRight, ChangedAreRight
  <2> QED
    BY <1>2, <2>1, <2>2, <2>3
<1>15. SessionsAreRight'
  BY <1>14, TrustStays DEF TlsInv, SessionsAreRight
<1>16. WaitsForOwnSlot'
  BY <1>5, SlotsStay DEF TlsInv
<1>17. SessionHasItsMaster' /\ SessionIdsDiffer'
  BY MastersStay, SessionsFor DEF TlsInv, NoneTwice, SessionIdsDiffer
<1>18. RunningInOrder' /\ PutByIsHandled'
  BY DEF RunningInOrder, PutByIsHandled, Idle
<1>19. \A j \in ConnIndex \ {i} : LeftOf(j)' = LeftOf(j)
  BY <1>7
<1> QED
  BY <1>6, <1>8, <1>10, <1>11, <1>12, <1>13, <1>15, <1>16, <1>17, <1>18, <1>19, EntryStep

\* The client that is polled, and its entry.
LEMMA WhoIsPolled ==
  ASSUME TlsInv, Idle, NEW c \in Clients, IsOpen(c), HasSession(c)
  PROVE  \E i \in ConnIndex :
           /\ i = First(EntriesOf(conns, c)) /\ conns[i].id = c /\ conns[i] \in Connection
           /\ conns[i].sessionId # None /\ conns[i].sessionId \in Clients
           /\ EntryIsRight(c, conns[i], Handled(i)) /\ Handled(i) = Received(c)
           /\ Phase(c) \in {"hello", "keyed", "careless", "open"}
<1>1. /\ EntriesOf(conns, c) \subseteq Nat /\ EntriesOf(conns, c) \subseteq ConnIndex
      /\ conns \in [ConnIndex -> Connection]
  BY Sizes DEF TlsInv, ServerTypes, EntriesOf
<1>2. PICK S : S = EntriesOf(conns, c)
  OBVIOUS
<1>3. S # {} /\ First(S) \in S
  BY <1>1, <1>2, FirstIsIn DEF HasSession
<1>4. PICK i \in ConnIndex : i = First(EntriesOf(conns, c)) /\ conns[i].id = c
  BY <1>1, <1>2, <1>3 DEF EntriesOf
<1>5. /\ conns[i] \in Connection /\ conns[i].sessionId # None /\ conns[i].sessionId \in Clients
  BY <1>1, <1>4 DEF HasSession, Connection
<1>6. Live(c) /\ Phase(c) \in Phases
  BY DEF TlsInv, ClientTypes, Peer, ClientIsRight, IsOpen, Live, Phase, Phases
<1>7. EntryIsRight(c, conns[i], Handled(i))
  BY <1>4, <1>6, Sizes DEF TlsInv, EntryOf
<1>8. Phase(c) # "astray"
  BY <1>5, <1>7 DEF EntryIsRight, Fresh, Astray, NewDue, NewAnswered, ResumeDue, ResumeAnswered, Waits,
     Refused, ChangeDue, ChangeAnswered, Opened
<1>9. Handled(i) = Received(c)
  <2>1. sent[c] \in Seq(Records)
    BY DEF TlsInv, ClientTypes
  <2>2. Received(c) \in Int
    BY <2>1 DEF Received, LastPlace
  <2> QED
    BY <1>4, <2>2 DEF Handled, LeftOf
<1> QED
  BY <1>4, <1>5, <1>6, <1>7, <1>8, <1>9 DEF Live

\* All has come that the client has sent.
LEMMA NothingOnTheWay ==
  ASSUME TlsInv, NEW c \in Clients, Received(c) = LastPlace(Phase(c))
  PROVE  sent[c] = <<>>
<1>1. sent[c] \in Seq(Records)
  BY DEF TlsInv, ClientTypes
<1>2. PICK s \in Seq(Records) : s = sent[c]
  BY <1>1
<1>3. Len(s) = 0
  <2>1. PICK n \in Nat : n = LastPlace(Phase(c))
    BY DEF LastPlace
  <2>2. PICK m \in Nat : m = Len(s)
    OBVIOUS
  <2>3. n - m = n
    BY <1>2, <2>1, <2>2 DEF Received
  <2> QED
    BY <2>2, <2>3
<1> QED
  BY <1>2, <1>3

\* What the entry polled is in, by what it has to do.
LEMMA WhatIsDue ==
  ASSUME NEW c, NEW p, NEW q, EntryIsRight(c, p, q), p.sessionId # None
  PROVE  /\ p.toDo = "SEND_SERVER_HELLO_NEW" => NewDue(c, p, q)
         /\ p.toDo = "SEND_SERVER_HELLO_RESUME" => ResumeDue(c, p, q)
         /\ p.toDo = "SEND_SERVER_CHANGE" => ChangeDue(c, p, q)
         /\ Phase(c) = "open" => Opened(c, p, q)
BY DEF EntryIsRight, Fresh, Astray, NewDue, NewAnswered, ResumeDue, ResumeAnswered, Waits, Refused,
   ChangeDue, ChangeAnswered, Opened

LEMMA SendServerHelloNewStep ==
  ASSUME TlsInv, Idle, NEW c \in Clients, IsOpen(c), NEW tick, SendServerHelloNew(c, tick),
         UNCHANGED clientVars
  PROVE  TlsInv'
<1>1. PICK i \in ConnIndex :
        /\ i = First(EntriesOf(conns, c)) /\ conns[i].id = c /\ conns[i] \in Connection
        /\ conns[i].sessionId # None /\ EntryIsRight(c, conns[i], Handled(i)) /\ Handled(i) = Received(c)
  BY WhoIsPolled DEF SendServerHelloNew
<1>2. PICK q : q = Handled(i)
  OBVIOUS
<1>3. Polled(c) = conns[i] /\ conns[i].toDo = "SEND_SERVER_HELLO_NEW"
  BY <1>1 DEF SendServerHelloNew, Polled
<1>4. NewDue(c, conns[i], q)
  BY <1>1, <1>2, <1>3, WhatIsDue
<1>5. /\ Phase(c) = "hello" /\ q = 1 /\ out[c] = <<>> /\ conns[i].handshakeSha = <<"hello">>
  BY <1>4 DEF NewDue
<1>6. sent[c] = <<>>
  BY <1>1, <1>2, <1>5, NothingOnTheWay DEF LastPlace
<1>7. PICK sha : sha = Append(conns[i].handshakeSha, ServerHello)
  OBVIOUS
<1>8. sha = AfterHello
  BY <1>5, <1>7, HashesGrow
<1>9. AfterHello \in Seq(MessageNames)
  BY DEF AfterHello, MessageNames, HandshakeTypes
<1>10. PICK p : p = [conns[i] EXCEPT !.handshakeSha = sha, !.serverSequence = @ + 1,
                                     !.toDo = "WAIT_CLIENT_CHANGE"]
  OBVIOUS
<1>11. /\ p \in Connection /\ p.id = c /\ p.sessionId = conns[i].sessionId /\ p.resume = conns[i].resume
       /\ p.toDo = "WAIT_CLIENT_CHANGE" /\ p.handshakeSha = AfterHello
       /\ p.clientEncrypted = conns[i].clientEncrypted /\ p.keys = conns[i].keys
       /\ p.deferred = conns[i].deferred
  <2>1. PICK r \in Connection : r = conns[i]
    BY <1>1
  <2>2. p = [r EXCEPT !.handshakeSha = sha, !.serverSequence = r.serverSequence + 1,
                      !.toDo = "WAIT_CLIENT_CHANGE"]
    BY <1>10, <2>1
  <2>3. r.serverSequence + 1 \in Nat
    BY <2>1 DEF Connection
  <2>4. p \in Connection
    BY <1>8, <1>9, <2>2, <2>3 DEF Connection, ToDos
  <2>5. /\ p.id = r.id /\ p.sessionId = r.sessionId /\ p.resume = r.resume
        /\ p.toDo = "WAIT_CLIENT_CHANGE" /\ p.handshakeSha = sha
        /\ p.clientEncrypted = r.clientEncrypted /\ p.keys = r.keys /\ p.deferred = r.deferred
    BY <2>2 DEF Connection
  <2> QED
    BY <1>1, <1>8, <2>1, <2>4, <2>5
<1>12. PICK o : o = out[c] \o <<HelloNew>>
  OBVIOUS
<1>13. /\ conns' = [conns EXCEPT ![i] = p] /\ connUsed' = Use(connUsed, i, tick)
       /\ out' = [out EXCEPT ![c] = o] /\ over' = over
       /\ UNCHANGED <<next, sessions, sessUsed, job, running, http>>
  BY <1>1, <1>3, <1>7, <1>10, <1>12 DEF SendServerHelloNew, Answer
<1>14. UNCHANGED <<peer, sent, begun, short>> /\ http' \subseteq http
  BY <1>13 DEF clientVars
<1>15. /\ connUsed \in [ConnIndex -> Nat] /\ out \in [Clients -> Seq(Flights)]
       /\ conns \in [ConnIndex -> Connection]
  BY DEF TlsInv, ServerTypes
<1>16. connUsed' \in [ConnIndex -> Nat]
  BY <1>13, <1>15, UseIsTyped, Sizes
<1>17. o = <<HelloNew>> /\ out'[c] = o
  BY <1>5, <1>12, <1>13, <1>15
<1>18. PICK n : n = Len(out[c]) + 1 /\ n = 1
  BY <1>5
<1>19. HelloNew \in Flights /\ HelloNew # ChangeFlight(c)
  BY DEF Flights, HelloNew, ChangeFlight, FinishedFlight
<1>20. FlightIsRight(c, n)'
  BY <1>5, <1>6, <1>14, <1>17, <1>18 DEF FlightIsRight, Phase
<1>21. KeysAreRight'
  <2>1. \A j \in ConnIndex : conns'[j].keys = conns[j].keys /\ conns'[j].id = conns[j].id
    BY <1>1, <1>11, <1>13, <1>15
  <2> QED
    BY <1>13, <1>14, <2>1, OldKeysStay DEF TlsInv, SessionsAreRight
<1>22. EntryIsRight(c, p, q)'
  <2>1. NewAnswered(c, p, q)'
    BY <1>4, <1>11, <1>14, <1>17 DEF NewDue, NewAnswered, Phase
  <2> QED
    BY <2>1 DEF EntryIsRight
<1>23. c \notin over /\ Phase(c) \in {"hello", "keyed", "careless", "open"}
       /\ p.toDo # "WAIT_DECRYPT_MASTER_SECRET"
  BY <1>5, <1>11 DEF IsOpen
<1>24. PICK isLast \in BOOLEAN : ~ isLast
  OBVIOUS
<1>25. over' = (IF isLast THEN over \cup {c} ELSE over)
       /\ (IF isLast THEN p.toDo = "WAIT_CLIENT_HELLO" ELSE EntryIsRight(c, p, q)')
  BY <1>13, <1>22, <1>24
<1> HIDE DEF HelloNew
<1> QED
  BY <1>1, <1>2, <1>11, <1>12, <1>13, <1>14, <1>16, <1>18, <1>19, <1>20, <1>21, <1>23, <1>25, AnswerStep

\* The entry after a Finished has gone out.
FinishedSent(r, keys, toDo) == [Changed(r, keys) EXCEPT !.toDo = toDo]

LEMMA ChangedIs ==
  ASSUME NEW r \in Connection, NEW keys \in AllKeys, NEW toDo \in ToDos,
         NEW p, p = FinishedSent(r, keys, toDo)
  PROVE  /\ p \in Connection /\ p.id = r.id /\ p.sessionId = r.sessionId /\ p.resume = r.resume
         /\ p.toDo = toDo /\ p.keys = keys /\ p.serverSequence = 1
<1>1. PICK sha : sha = Append(r.handshakeSha, ServerFinished)
  OBVIOUS
<1>2. sha \in Seq(MessageNames)
  <2>1. r.handshakeSha \in Seq(MessageNames) /\ ServerFinished \in MessageNames
    BY DEF Connection, MessageNames
  <2> QED
    BY <1>1, <2>1
<1>3. PICK n \in Nat : n = 1
  OBVIOUS
<1>4. p = [r EXCEPT !.keys = keys, !.handshakeSha = sha, !.serverSequence = n, !.toDo = toDo]
  BY <1>1, <1>3 DEF FinishedSent, Changed
<1>5. p \in Connection
  BY <1>2, <1>4 DEF Connection
<1> QED
  BY <1>3, <1>4, <1>5 DEF Connection

LEMMA SendServerHelloResumeStep ==
  ASSUME TlsInv, Idle, NEW c \in Clients, IsOpen(c), NEW tick, SendServerHelloResume(c, tick),
         UNCHANGED clientVars
  PROVE  TlsInv'
<1>1. PICK i \in ConnIndex :
        /\ i = First(EntriesOf(conns, c)) /\ conns[i].id = c /\ conns[i] \in Connection
        /\ conns[i].sessionId # None /\ EntryIsRight(c, conns[i], Handled(i)) /\ Handled(i) = Received(c)
  BY WhoIsPolled DEF SendServerHelloResume
<1>2. PICK q : q = Handled(i)
  OBVIOUS
<1>3. Polled(c) = conns[i] /\ conns[i].toDo = "SEND_SERVER_HELLO_RESUME" /\ SessionsOf(conns[i].sessionId) # {}
  <2>1. CASE SessionsOf(conns[i].sessionId) = {}
    <3>1. Polled(c) = [conns[i] EXCEPT !.toDo = "SEND_ALERT_INTERNAL_ERROR"]
      BY <1>1, <2>1 DEF Polled
    <3>2. Polled(c).toDo = "SEND_ALERT_INTERNAL_ERROR"
      BY <1>1, <3>1 DEF Connection
    <3>3. Polled(c).toDo = "SEND_SERVER_HELLO_RESUME"
      BY DEF SendServerHelloResume
    <3> QED
      BY <3>2, <3>3
  <2>2. CASE SessionsOf(conns[i].sessionId) # {}
    <3>1. Polled(c) = conns[i]
      BY <1>1, <2>2 DEF Polled
    <3>2. Polled(c).toDo = "SEND_SERVER_HELLO_RESUME"
      <4>1. PICK x : x = Polled(c)
        OBVIOUS
      <4> QED
        BY <3>1 DEF SendServerHelloResume, Connection
    <3> QED
      BY <2>2, <3>1, <3>2
  <2> QED
    BY <2>1, <2>2
<1>4. ResumeDue(c, conns[i], q)
  BY <1>1, <1>2, <1>3, WhatIsDue
<1>5. PICK s \in Clients : s = peer[c].session /\ s # c /\ conns[i].sessionId = s
  BY <1>1, <1>4 DEF ResumeDue, Connection
<1>6. /\ Phase(c) = "hello" /\ q = 1 /\ out[c] = <<>> /\ conns[i].handshakeSha = <<"hello">>
      /\ conns[i].resume /\ s # None
  BY <1>4, <1>5, Sizes DEF ResumeDue
<1>7. sent[c] = <<>>
  BY <1>1, <1>2, <1>6, NothingOnTheWay DEF LastPlace
<1>8. PICK m : m = sessions[First(SessionsOf(s))].master /\ m = Master(s)
  <2>1. HasMaster(s)
    <3>1. s \in Trusted
      BY <1>5, <1>6 DEF Trusted
    <3> QED
      BY <3>1 DEF TlsInv, SessionsAreRight, TrustedAreRight
  <2>2. PICK S : S = SessionsOf(s)
    OBVIOUS
  <2>3. S # {} /\ S \subseteq Nat /\ \A k \in S : k \in SessIndex /\ sessions[k].id = s
    BY <1>3, <1>5, <1>6, <2>2, Sizes DEF SessionsOf, EntriesOf, TlsInv, ServerTypes
  <2>4. First(S) \in S
    BY <2>3, FirstIsIn
  <2> QED
    BY <2>1, <2>2, <2>3, <2>4 DEF HasMaster
<1>9. PICK keys : keys = <<m, c>> /\ keys = Keys(s, c)
  BY <1>8 DEF Keys
<1>10. keys \in AllKeys /\ \A d \in Clients : keys # Keys(d, d)
  BY <1>5, <1>9 DEF Keys, Master, AllKeys, Masters
<1>11. PICK sha : sha = Append(conns[i].handshakeSha, ServerHello)
  OBVIOUS
<1>12. sha = AfterHello /\ AfterHello \in Seq(MessageNames)
  <2>1. AfterHello \in Seq(MessageNames)
    BY DEF AfterHello, MessageNames, HandshakeTypes
  <2> QED
    BY <1>6, <1>11, <2>1, HashesGrow
<1>13. PICK r \in Connection : r = [conns[i] EXCEPT !.handshakeSha = sha]
  BY <1>1, <1>12 DEF Connection
<1>14. /\ r.id = c /\ r.sessionId = s /\ r.resume = conns[i].resume
       /\ r.handshakeSha = sha /\ r.toDo = "SEND_SERVER_HELLO_RESUME"
  BY <1>1, <1>3, <1>5, <1>13 DEF Connection
<1>15. PICK t \in ToDos : t = "WAIT_CLIENT_CHANGE"
  BY DEF ToDos
<1>16. PICK p \in Connection :
         /\ p = FinishedSent(r, keys, t)
         /\ p.id = c /\ p.sessionId = s /\ p.resume
         /\ p.toDo = "WAIT_CLIENT_CHANGE" /\ p.keys = keys /\ p.serverSequence = 1
  <2>1. PICK p : p = FinishedSent(r, keys, t)
    OBVIOUS
  <2>2. /\ p \in Connection /\ p.id = r.id /\ p.sessionId = r.sessionId /\ p.resume = r.resume
        /\ p.toDo = t /\ p.keys = keys /\ p.serverSequence = 1
    BY <1>10, <2>1, ChangedIs
  <2> QED
    BY <1>6, <1>14, <1>15, <2>1, <2>2
<1>17. PICK f : f = FinishedFlight("helloResume", keys, 0, sha)
  OBVIOUS
<1>18. f = ResumeFlight(c)
  BY <1>5, <1>9, <1>12, <1>17 DEF ResumeFlight
<1>19. f \in Flights /\ f # ChangeFlight(c)
  BY <1>10, <1>12, <1>17 DEF Flights, FinishedFlight, ChangeFlight
<1>20. PICK o : o = out[c] \o <<f>>
  OBVIOUS
<1>21. /\ conns' = [conns EXCEPT ![i] = p] /\ connUsed' = Use(connUsed, i, tick)
       /\ out' = [out EXCEPT ![c] = o] /\ over' = over
       /\ UNCHANGED <<next, sessions, sessUsed, job, running, http>>
  <2>1. [Polled(c) EXCEPT !.handshakeSha = Append(@, ServerHello)] = r
    BY <1>3, <1>11, <1>13
  <2>2. Answer(c, tick, [Changed(r, <<sessions[First(SessionsOf(r.sessionId))].master, c>>)
                           EXCEPT !.toDo = "WAIT_CLIENT_CHANGE"],
               <<FinishedFlight("helloResume", <<sessions[First(SessionsOf(r.sessionId))].master, c>>,
                                0, r.handshakeSha)>>, FALSE)
    BY <2>1 DEF SendServerHelloResume
  <2>3. <<sessions[First(SessionsOf(r.sessionId))].master, c>> = keys
    BY <1>8, <1>9, <1>14
  <2>4. Answer(c, tick, p, <<f>>, FALSE) /\ http' = http
    BY <1>14, <1>15, <1>16, <1>17, <2>2, <2>3 DEF SendServerHelloResume, FinishedSent
  <2> QED
    BY <1>1, <1>20, <2>4 DEF Answer
<1>22. UNCHANGED <<peer, sent, begun, short>> /\ http' \subseteq http
  BY <1>21 DEF clientVars
<1>23. /\ connUsed \in [ConnIndex -> Nat] /\ out \in [Clients -> Seq(Flights)]
       /\ conns \in [ConnIndex -> Connection]
  BY DEF TlsInv, ServerTypes
<1>24. connUsed' \in [ConnIndex -> Nat]
  BY <1>21, <1>23, UseIsTyped, Sizes
<1>25. o = <<f>> /\ out'[c] = o
  BY <1>6, <1>20, <1>21, <1>23
<1>26. PICK n : n = Len(out[c]) + 1 /\ n = 1
  BY <1>6
<1>27. ResumeFlight(c)' = ResumeFlight(c)
  BY <1>22 DEF ResumeFlight
<1>28. FlightIsRight(c, n)'
  BY <1>5, <1>6, <1>7, <1>18, <1>22, <1>25, <1>26, <1>27 DEF FlightIsRight, Phase
<1>29. KeysAreRight'
  <2> SUFFICES ASSUME NEW j \in ConnIndex, NEW d \in Clients, conns'[j].keys = Keys(d, d)
               PROVE  d \in begun /\ (conns'[j].id = d => HasMaster(d))
    BY <1>21, <1>22 DEF KeysAreRight, Keys, Master, HasMaster
  <2>1. j # i
    BY <1>10, <1>16, <1>21, <1>23
  <2>2. conns'[j] = conns[j]
    BY <1>21, <1>23, <2>1
  <2> QED
    BY <2>2 DEF TlsInv, SessionsAreRight, KeysAreRight
<1>30. EntryIsRight(c, p, q)'
  <2>1. ResumeAnswered(c, p, q)'
    BY <1>5, <1>6, <1>9, <1>16, <1>18, <1>22, <1>25, <1>27 DEF ResumeAnswered, Phase, Keys, Master
  <2> QED
    BY <2>1 DEF EntryIsRight
<1>31. /\ c \notin over /\ Phase(c) \in {"hello", "keyed", "careless", "open"}
       /\ p.toDo # "WAIT_DECRYPT_MASTER_SECRET" /\ p \in Connection /\ p.id = c
  BY <1>6, <1>16 DEF IsOpen
<1>32. PICK isLast \in BOOLEAN : ~ isLast
  OBVIOUS
<1>33. over' = (IF isLast THEN over \cup {c} ELSE over)
       /\ (IF isLast THEN p.toDo = "WAIT_CLIENT_HELLO" ELSE EntryIsRight(c, p, q)')
  BY <1>21, <1>30, <1>32
<1>34. f = ChangeFlight(c) => HasMaster(c)
  BY <1>19
<1> QED
  BY <1>1, <1>2, <1>19, <1>20, <1>21, <1>22, <1>24, <1>26, <1>28, <1>29, <1>31, <1>33, <1>34, AnswerStep

LEMMA PolledIs ==
  ASSUME NEW c, NEW i, i = First(EntriesOf(conns, c)), conns[i] \in Connection
  PROVE  /\ Polled(c) = conns[i] \/ Polled(c).toDo = "SEND_ALERT_INTERNAL_ERROR"
         /\ Polled(c) \in Connection /\ Polled(c).id = conns[i].id /\ Polled(c).keys = conns[i].keys
<1>1. CASE SessionsOf(conns[i].sessionId) = {}
  <2>1. PICK r \in Connection : r = conns[i]
    OBVIOUS
  <2>2. Polled(c) = [r EXCEPT !.toDo = "SEND_ALERT_INTERNAL_ERROR"]
    BY <1>1, <2>1 DEF Polled
  <2> QED
    BY <2>1, <2>2 DEF Connection, ToDos
<1>2. CASE SessionsOf(conns[i].sessionId) # {}
  <2>1. Polled(c) = conns[i]
    BY <1>2 DEF Polled
  <2> QED
    BY <2>1
<1> QED
  BY <1>1, <1>2

\* Nothing is sent, and the entry stays as it is.
LEMMA QuietPollStep ==
  ASSUME TlsInv, Idle, NEW c \in Clients, NEW i \in ConnIndex,
         NEW tick, Answer(c, tick, conns[i], <<>>, FALSE), i = First(EntriesOf(conns, c)),
         UNCHANGED <<peer, sent, begun, short, http>>
  PROVE  TlsInv'
<1>1. /\ connUsed \in [ConnIndex -> Nat] /\ out \in [Clients -> Seq(Flights)]
      /\ conns \in [ConnIndex -> Connection] /\ next \in ConnIndex
      /\ job \in [Rsa!Slot -> Rsa!Jobs]
  BY DEF TlsInv, ServerTypes
<1>2. /\ conns' = conns /\ connUsed' = Use(connUsed, i, tick) /\ over' = over
      /\ out' = [out EXCEPT ![c] = @ \o <<>>]
      /\ UNCHANGED <<next, sessions, sessUsed, job, running>>
  BY <1>1 DEF Answer
<1>3. out' = out
  <2>1. out[c] \in Seq(Flights)
    BY <1>1
  <2>2. out[c] \o <<>> = out[c]
    BY <2>1
  <2> QED
    BY <1>1, <1>2, <2>2
<1>4. connUsed' \in [ConnIndex -> Nat]
  BY <1>1, <1>2, UseIsTyped, Sizes
<1>5. WaitsForOwnSlot'
  BY <1>2, SlotsStay DEF TlsInv
<1> QED
  BY <1>1, <1>2, <1>3, <1>4, <1>5, BackStep

LEMMA RespondEmptyStep ==
  ASSUME TlsInv, Idle, NEW c \in Clients, NEW tick, RespondEmpty(c, FALSE, tick),
         UNCHANGED clientVars
  PROVE  TlsInv'
<1>1. /\ connUsed \in [ConnIndex -> Nat] /\ next \in ConnIndex /\ job \in [Rsa!Slot -> Rsa!Jobs]
  BY DEF TlsInv, ServerTypes
<1>2. /\ connUsed' = connUsed \/ connUsed' = Use(connUsed, First(EntriesOf(conns, c)), tick)
      /\ UNCHANGED <<conns, next, sessions, sessUsed, job, running, http, out, over, peer, sent,
                     begun, short>>
  BY DEF RespondEmpty, clientVars
<1>3. connUsed' \in [ConnIndex -> Nat]
  BY <1>1, <1>2, UseIsTyped, Sizes
<1>4. WaitsForOwnSlot'
  BY <1>2, SlotsStay DEF TlsInv
<1> QED
  BY <1>1, <1>2, <1>3, <1>4, BackStep

LEMMA SendServerChangeStep ==
  ASSUME TlsInv, Idle, NEW c \in Clients, IsOpen(c), NEW tick, SendServerChange(c, tick),
         UNCHANGED clientVars
  PROVE  TlsInv'
<1>1. PICK i \in ConnIndex :
        /\ i = First(EntriesOf(conns, c)) /\ conns[i].id = c /\ conns[i] \in Connection
        /\ conns[i].sessionId # None /\ EntryIsRight(c, conns[i], Handled(i)) /\ Handled(i) = Received(c)
  BY WhoIsPolled DEF SendServerChange
<1>2. PICK q : q = Handled(i)
  OBVIOUS
<1>3. PICK r \in Connection : r = Polled(c) /\ r = conns[i] /\ r.toDo = "SEND_SERVER_CHANGE"
  BY <1>1, PolledIs DEF SendServerChange
<1>4. ChangeDue(c, r, q)
  BY <1>1, <1>2, <1>3, WhatIsDue
<1>5. /\ Phase(c) = "keyed" /\ q = 4 /\ out[c] = <<>> /\ r.handshakeSha = AfterFinished
      /\ r.keys = Keys(c, c) /\ r.id = c /\ r.sessionId = c
  BY <1>1, <1>3, <1>4 DEF ChangeDue
<1>6. sent[c] = <<>>
  BY <1>1, <1>2, <1>5, NothingOnTheWay DEF LastPlace
<1>7. HasMaster(c)
  BY <1>1, <1>3, <1>5 DEF TlsInv, SessionsAreRight, KeysAreRight
<1>8. PICK t \in ToDos : t = "APPLICATION"
  BY DEF ToDos
<1>9. PICK keys \in AllKeys : keys = r.keys
  BY DEF Connection
<1>10. PICK p \in Connection :
         /\ p = FinishedSent(r, keys, t)
         /\ p.id = c /\ p.sessionId = c
         /\ p.toDo = "APPLICATION" /\ p.keys = Keys(c, c) /\ p.serverSequence = 1
  <2>1. PICK p : p = FinishedSent(r, keys, t)
    OBVIOUS
  <2>2. /\ p \in Connection /\ p.id = r.id /\ p.sessionId = r.sessionId /\ p.resume = r.resume
        /\ p.toDo = t /\ p.keys = keys /\ p.serverSequence = 1
    BY <2>1, ChangedIs
  <2> QED
    BY <1>5, <1>8, <1>9, <2>1, <2>2
<1>11. PICK f : f = FinishedFlight("change", keys, 0, r.handshakeSha)
  OBVIOUS
<1>12. f = ChangeFlight(c) /\ f \in Flights
  <2>1. r.handshakeSha \in Seq(MessageNames)
    BY DEF Connection
  <2> QED
    BY <1>5, <1>9, <1>11, <2>1 DEF ChangeFlight, Flights, FinishedFlight
<1>13. PICK o : o = out[c] \o <<f>>
  OBVIOUS
<1>14. /\ conns' = [conns EXCEPT ![i] = p] /\ connUsed' = Use(connUsed, i, tick)
       /\ out' = [out EXCEPT ![c] = o] /\ over' = over
       /\ UNCHANGED <<next, sessions, sessUsed, job, running, http>>
  <2>1. Answer(c, tick, [Changed(r, keys) EXCEPT !.toDo = "APPLICATION"],
               <<FinishedFlight("change", keys, 0, r.handshakeSha)>>, FALSE)
    BY <1>3, <1>9 DEF SendServerChange
  <2>2. Answer(c, tick, p, <<f>>, FALSE) /\ http' = http
    BY <1>8, <1>10, <1>11, <2>1 DEF SendServerChange, FinishedSent
  <2> QED
    BY <1>1, <1>13, <2>2 DEF Answer
<1>15. UNCHANGED <<peer, sent, begun, short>> /\ http' \subseteq http
  BY <1>14 DEF clientVars
<1>16. /\ connUsed \in [ConnIndex -> Nat] /\ out \in [Clients -> Seq(Flights)]
       /\ conns \in [ConnIndex -> Connection]
  BY DEF TlsInv, ServerTypes
<1>17. connUsed' \in [ConnIndex -> Nat]
  BY <1>14, <1>16, UseIsTyped, Sizes
<1>18. o = <<f>> /\ out'[c] = o
  BY <1>5, <1>13, <1>14, <1>16
<1>19. PICK n : n = Len(out[c]) + 1 /\ n = 1
  BY <1>5
<1>20. FlightIsRight(c, n)'
  BY <1>5, <1>6, <1>12, <1>15, <1>18, <1>19 DEF FlightIsRight, Phase, ChangeFlight, Keys, Master
<1>21. KeysAreRight'
  <2>1. \A j \in ConnIndex : conns'[j].keys = conns[j].keys /\ conns'[j].id = conns[j].id
    BY <1>1, <1>3, <1>5, <1>10, <1>14, <1>16
  <2> QED
    BY <1>14, <1>15, <2>1, OldKeysStay DEF TlsInv, SessionsAreRight
<1>22. EntryIsRight(c, p, q)'
  <2>1. ChangeAnswered(c, p, q)'
    BY <1>5, <1>10, <1>12, <1>15, <1>18 DEF ChangeAnswered, Phase, ChangeFlight, Keys, Master
  <2> QED
    BY <2>1 DEF EntryIsRight
<1>23. /\ c \notin over /\ Phase(c) \in {"hello", "keyed", "careless", "open"}
       /\ p.toDo # "WAIT_DECRYPT_MASTER_SECRET" /\ p \in Connection /\ p.id = c
       /\ f \in Flights
  BY <1>5, <1>10, <1>12 DEF IsOpen
<1>24. PICK isLast \in BOOLEAN : ~ isLast
  OBVIOUS
<1>25. over' = (IF isLast THEN over \cup {c} ELSE over)
       /\ (IF isLast THEN p.toDo = "WAIT_CLIENT_HELLO" ELSE EntryIsRight(c, p, q)')
  BY <1>14, <1>22, <1>24
<1>26. f = ChangeFlight(c) => HasMaster(c)
  BY <1>7
<1> QED
  BY <1>1, <1>2, <1>13, <1>14, <1>15, <1>17, <1>19, <1>20, <1>21, <1>23, <1>25, <1>26, AnswerStep

LEMMA SendContentStep ==
  ASSUME TlsInv, Idle, NEW c \in Clients, IsOpen(c), NEW tick, NEW last \in BOOLEAN,
         SendContent(c, tick, last), UNCHANGED clientVars
  PROVE  TlsInv'
<1>1. PICK i \in ConnIndex :
        /\ i = First(EntriesOf(conns, c)) /\ conns[i].id = c /\ conns[i] \in Connection
        /\ conns[i].sessionId # None /\ EntryIsRight(c, conns[i], Handled(i)) /\ Handled(i) = Received(c)
        /\ Phase(c) \in {"hello", "keyed", "careless", "open"}
  BY WhoIsPolled DEF SendContent
<1>2. PICK q : q = Handled(i)
  OBVIOUS
<1>3. PICK r \in Connection : r = Polled(c) /\ r = conns[i] /\ r.toDo = "APPLICATION"
  BY <1>1, PolledIs DEF SendContent
<1>4. Phase(c) = "open"
  BY <1>1 DEF SendContent, TlsInv, ClientIsRight
<1>5. Opened(c, r, q)
  BY <1>1, <1>2, <1>3, <1>4, WhatIsDue
<1>6. PICK n \in Nat \ {0} : n = Len(out[c]) + 1
  <2>1. out[c] \in Seq(Flights)
    BY DEF TlsInv, ServerTypes
  <2>2. Len(out[c]) \in Nat
    BY <2>1
  <2> QED
    BY <2>2
<1>7. PICK k \in Nat : k = peer[c].contents
  BY DEF TlsInv, ClientTypes, Peer
<1>8. /\ r.keys = Keys(peer[c].session, c) /\ r.serverSequence = k + n /\ r.id = c
      /\ r.sessionId = peer[c].session /\ q \in 4 .. 5
  <2>1. PICK l \in Nat : l = Len(out[c])
    <3>1. out[c] \in Seq(Flights)
      BY DEF TlsInv, ServerTypes
    <3> QED
      BY <3>1
  <2>2. (k + l) + 1 = k + n
    BY <1>6, <2>1
  <2> QED
    BY <1>1, <1>3, <1>5, <1>7, <2>1, <2>2 DEF Opened
<1>9. PICK f : f = Content(r.keys, r.serverSequence, last)
  OBVIOUS
<1>10. f \in Flights /\ f # ChangeFlight(c)
  <2>1. r.keys \in AllKeys /\ r.serverSequence \in Nat
    BY DEF Connection
  <2> QED
    BY <1>9, <2>1 DEF Content, Flights, ChangeFlight, FinishedFlight
<1>11. PICK p : p = [r EXCEPT !.serverSequence = @ + 1,
                              !.toDo = IF last THEN "WAIT_CLIENT_HELLO" ELSE @]
  OBVIOUS
<1>12. /\ p \in Connection /\ p.id = c /\ p.sessionId = r.sessionId /\ p.keys = r.keys
       /\ p.serverSequence = r.serverSequence + 1
       /\ p.toDo = IF last THEN "WAIT_CLIENT_HELLO" ELSE "APPLICATION"
  <2>1. PICK m \in Nat : m = r.serverSequence + 1
    BY DEF Connection
  <2>2. PICK t \in ToDos : t = IF last THEN "WAIT_CLIENT_HELLO" ELSE "APPLICATION"
    BY DEF ToDos
  <2>3. p = [r EXCEPT !.serverSequence = m, !.toDo = t]
    BY <1>3, <1>11, <2>1, <2>2
  <2>4. p \in Connection
    BY <2>3 DEF Connection
  <2>5. p.id = r.id /\ p.sessionId = r.sessionId /\ p.keys = r.keys /\ p.serverSequence = m /\ p.toDo = t
    BY <2>3 DEF Connection
  <2> QED
    BY <1>8, <2>1, <2>2, <2>4, <2>5
<1>13. PICK o : o = out[c] \o <<f>>
  OBVIOUS
<1>14. /\ conns' = [conns EXCEPT ![i] = p] /\ connUsed' = Use(connUsed, i, tick)
       /\ out' = [out EXCEPT ![c] = o] /\ over' = (IF last THEN over \cup {c} ELSE over)
       /\ http' \subseteq http
       /\ UNCHANGED <<next, sessions, sessUsed, job, running, peer, sent, begun, short>>
  <2>1. Answer(c, tick, p, <<f>>, last) /\ http' \subseteq http
    BY <1>3, <1>9, <1>11 DEF SendContent
  <2> QED
    BY <1>1, <1>13, <2>1 DEF Answer, clientVars
<1>15. /\ connUsed \in [ConnIndex -> Nat] /\ out \in [Clients -> Seq(Flights)]
       /\ conns \in [ConnIndex -> Connection] /\ out[c] \in Seq(Flights)
  BY DEF TlsInv, ServerTypes
<1>16. connUsed' \in [ConnIndex -> Nat]
  BY <1>14, <1>15, UseIsTyped, Sizes
<1>17. out'[c] = o /\ Len(o) = n /\ o[n] = f
  BY <1>6, <1>10, <1>13, <1>14, <1>15, OneMore
<1>18. FlightIsRight(c, n)'
  <2>1. f = Content(Keys(peer'[c].session, c), peer'[c].contents + n, last)
    BY <1>7, <1>8, <1>9, <1>14
  <2>2. last => c \in over'
    BY <1>14
  <2>3. Phase(c)' = "open"
    BY <1>4, <1>14 DEF Phase
  <2> QED
    BY <1>17, <2>1, <2>2, <2>3 DEF FlightIsRight, Keys, Master
<1>19. KeysAreRight'
  <2>1. \A j \in ConnIndex : conns'[j].keys = conns[j].keys /\ conns'[j].id = conns[j].id
    BY <1>1, <1>3, <1>12, <1>14, <1>15
  <2> QED
    BY <1>14, <2>1, OldKeysStay DEF TlsInv, SessionsAreRight
<1>20. ~ last => EntryIsRight(c, p, q)'
  <2> SUFFICES ASSUME ~ last PROVE EntryIsRight(c, p, q)'
    OBVIOUS
  <2>1. p.serverSequence = (peer'[c].contents + Len(out'[c])) + 1
    BY <1>7, <1>8, <1>12, <1>14, <1>17
  <2>2. Opened(c, p, q)'
    BY <1>4, <1>8, <1>12, <1>14, <2>1 DEF Opened, Phase, Keys, Master
  <2> QED
    BY <2>2 DEF EntryIsRight
<1>21. /\ c \notin over /\ Phase(c) \in {"hello", "keyed", "careless", "open"}
       /\ p.toDo # "WAIT_DECRYPT_MASTER_SECRET" /\ p \in Connection /\ p.id = c
       /\ f \in Flights /\ (f = ChangeFlight(c) => HasMaster(c))
  BY <1>4, <1>10, <1>12 DEF IsOpen
<1>22. IF last THEN p.toDo = "WAIT_CLIENT_HELLO" ELSE EntryIsRight(c, p, q)'
  BY <1>12, <1>20
<1> QED
  BY <1>1, <1>2, <1>6, <1>13, <1>14, <1>16, <1>18, <1>19, <1>21, <1>22, AnswerStep

LEMMA SendAlertStep ==
  ASSUME TlsInv, Idle, NEW c \in Clients, IsOpen(c), NEW tick, SendAlert(c, tick),
         UNCHANGED clientVars
  PROVE  TlsInv'
<1>1. PICK i \in ConnIndex :
        /\ i = First(EntriesOf(conns, c)) /\ conns[i].id = c /\ conns[i] \in Connection
        /\ Phase(c) \in {"hello", "keyed", "careless", "open"}
  BY WhoIsPolled DEF SendAlert
<1>2. PICK q : q = Handled(i)
  OBVIOUS
<1>3. PICK r \in Connection : r = Polled(c) /\ r.keys = conns[i].keys /\ r.id = c
  BY <1>1, PolledIs
<1>4. PICK n \in Nat \ {0} : n = Len(out[c]) + 1
  <2>1. out[c] \in Seq(Flights)
    BY DEF TlsInv, ServerTypes
  <2>2. Len(out[c]) \in Nat
    BY <2>1
  <2> QED
    BY <2>2
<1>5. PICK p : p = [r EXCEPT !.serverSequence = @ + 1, !.toDo = "WAIT_CLIENT_HELLO"]
  OBVIOUS
<1>6. p \in Connection /\ p.id = c /\ p.keys = r.keys /\ p.toDo = "WAIT_CLIENT_HELLO"
  <2>1. PICK m \in Nat : m = r.serverSequence + 1
    BY DEF Connection
  <2>2. p = [r EXCEPT !.serverSequence = m, !.toDo = "WAIT_CLIENT_HELLO"]
    BY <1>5, <2>1
  <2>3. p \in Connection
    BY <2>2 DEF Connection, ToDos
  <2>4. p.id = r.id /\ p.keys = r.keys /\ p.toDo = "WAIT_CLIENT_HELLO"
    BY <2>2 DEF Connection
  <2> QED
    BY <1>3, <2>3, <2>4
<1>7. PICK f \in Flights : f = Alert /\ f # ChangeFlight(c)
  BY DEF Flights, Alert, ChangeFlight, FinishedFlight
<1>8. PICK o : o = out[c] \o <<f>>
  OBVIOUS
<1>9. /\ conns' = [conns EXCEPT ![i] = p] /\ connUsed' = Use(connUsed, i, tick)
      /\ out' = [out EXCEPT ![c] = o] /\ over' = over \cup {c}
      /\ UNCHANGED <<next, sessions, sessUsed, job, running, http, peer, sent, begun, short>>
  BY <1>1, <1>3, <1>5, <1>7, <1>8 DEF SendAlert, Answer, clientVars
<1>10. /\ connUsed \in [ConnIndex -> Nat] /\ out \in [Clients -> Seq(Flights)]
       /\ conns \in [ConnIndex -> Connection] /\ out[c] \in Seq(Flights)
  BY DEF TlsInv, ServerTypes
<1>11. connUsed' \in [ConnIndex -> Nat]
  BY <1>9, <1>10, UseIsTyped, Sizes
<1>12. out'[c] = o /\ Len(o) = n /\ o[n] = f
  BY <1>4, <1>8, <1>9, <1>10, OneMore
<1>13. FlightIsRight(c, n)'
  BY <1>7, <1>9, <1>12 DEF FlightIsRight
<1>14. KeysAreRight'
  <2>1. \A j \in ConnIndex : conns'[j].keys = conns[j].keys /\ conns'[j].id = conns[j].id
    BY <1>1, <1>3, <1>6, <1>9, <1>10
  <2> QED
    BY <1>9, <2>1, OldKeysStay DEF TlsInv, SessionsAreRight
<1>15. PICK isLast \in BOOLEAN : isLast
  OBVIOUS
<1>16. /\ c \notin over /\ p.toDo # "WAIT_DECRYPT_MASTER_SECRET" /\ http' \subseteq http
       /\ (f = ChangeFlight(c) => HasMaster(c))
       /\ over' = (IF isLast THEN over \cup {c} ELSE over)
       /\ (IF isLast THEN p.toDo = "WAIT_CLIENT_HELLO" ELSE EntryIsRight(c, p, q)')
  BY <1>6, <1>7, <1>9, <1>15 DEF IsOpen
<1> QED
  BY <1>1, <1>2, <1>4, <1>6, <1>8, <1>9, <1>11, <1>13, <1>14, <1>16, AnswerStep

LEMMA PollStep ==
  ASSUME TlsInv, NEW c \in Clients, NEW tick, Poll(c, tick)
  PROVE  TlsInv'
<1>1. Idle /\ IsOpen(c) /\ UNCHANGED clientVars /\ TlsResponse(c, ClientFinishedSending(c), tick)
  BY DEF Poll, TlsResponse
<1>2. ClientFinishedSending(c) = FALSE
  BY <1>1 DEF TlsInv, ClientTypes, Peer, Phases, ClientIsRight, IsOpen, ClientFinishedSending, Phase
<1>3. ASSUME HasSession(c), NEW p, p = Polled(c), p.toDo # "SEND_ALERT_INTERNAL_ERROR",
             Answer(c, tick, p, <<>>, FALSE), http' = http
      PROVE  TlsInv'
  <2>1. PICK i \in ConnIndex : i = First(EntriesOf(conns, c)) /\ conns[i] \in Connection
    BY <1>1, <1>3, WhoIsPolled
  <2>2. p = conns[i]
    BY <1>3, <2>1, PolledIs
  <2>3. Answer(c, tick, conns[i], <<>>, FALSE) /\ UNCHANGED <<peer, sent, begun, short, http>>
    BY <1>1, <1>3, <2>2 DEF clientVars
  <2> QED
    BY <1>1, <2>1, <2>3, QuietPollStep
<1>4. CASE RespondEmpty(c, FALSE, tick)
  BY <1>1, <1>4, RespondEmptyStep
<1>5. CASE RespondWaiting(c, FALSE, tick)
  BY <1>3, <1>5 DEF RespondWaiting
<1>6. CASE RespondNoContent(c, FALSE, tick)
  BY <1>3, <1>6 DEF RespondNoContent
<1> QED
  BY <1>1, <1>2, <1>4, <1>5, <1>6, SendServerHelloNewStep, SendServerHelloResumeStep,
     SendServerChangeStep, SendContentStep, SendAlertStep DEF TlsResponse

-----------------------------------------------------------------------------
(***************************************************************************)
(* TCP: a segment arrives, a connection goes                               *)
(***************************************************************************)
LEMMA ZeroIs ==
  ASSUME NEW p \in Connection
  PROVE  /\ Zero(p) \in Connection /\ Zero(p).id = None /\ Zero(p).toDo = "WAIT_CLIENT_HELLO"
         /\ Zero(p).sessionId = None /\ ~ Zero(p).resume /\ Zero(p).handshakeSha = <<>>
         /\ ~ Zero(p).clientEncrypted /\ Zero(p).deferred = NoRecord
         /\ Zero(p).serverSequence = 0 /\ Zero(p).keys = p.keys
<1>1. Blank \in Connection
  <2>1. <<>> \in Seq(MessageNames)
    OBVIOUS
  <2>2. 0 \in Rsa!Slot /\ NoKeys \in AllKeys /\ NoRecord \in PutByRecords
    BY Sizes DEF AllKeys, PutByRecords
  <2> QED
    BY <2>1, <2>2 DEF Blank, Connection, ToDos
<1>2. Zero(p) = [Blank EXCEPT !.keys = p.keys] /\ p.keys \in AllKeys
  BY DEF Zero, Connection
<1>3. Zero(p) \in Connection
  <2> HIDE DEF Blank
  <2> QED
    BY <1>1, <1>2 DEF Connection
<1>4. /\ Zero(p).id = Blank.id /\ Zero(p).toDo = Blank.toDo /\ Zero(p).sessionId = Blank.sessionId
      /\ Zero(p).resume = Blank.resume /\ Zero(p).handshakeSha = Blank.handshakeSha
      /\ Zero(p).clientEncrypted = Blank.clientEncrypted /\ Zero(p).deferred = Blank.deferred
      /\ Zero(p).serverSequence = Blank.serverSequence /\ Zero(p).keys = p.keys
  BY <1>1, <1>2 DEF Connection
<1> QED
  BY <1>3, <1>4 DEF Blank

LEMMA DisconnectStep ==
  ASSUME TlsInv, NEW c \in Clients, Disconnect(c)
  PROVE  TlsInv'
<1>1. /\ Idle
      /\ conns' = [i \in ConnIndex |-> IF conns[i].id = c THEN Zero(conns[i]) ELSE conns[i]]
      /\ connUsed' = [i \in ConnIndex |-> IF conns[i].id = c THEN 0 ELSE connUsed[i]]
      /\ http' = http \ {c} /\ over' = over \cup {c}
      /\ sent' = [sent EXCEPT ![c] = <<>>] /\ out' = [out EXCEPT ![c] = <<>>]
      /\ UNCHANGED <<next, sessions, sessUsed, job, running, begun, short>>
  BY DEF Disconnect, TlsReset
<1>2. /\ conns \in [ConnIndex -> Connection] /\ connUsed \in [ConnIndex -> Nat]
      /\ peer \in [Clients -> Peer] /\ sent \in [Clients -> Seq(Records)]
      /\ out \in [Clients -> Seq(Flights)] /\ c # None
  BY Sizes DEF TlsInv, ServerTypes, ClientTypes
<1>3. PICK y \in Peer : /\ y = [peer[c] EXCEPT !.phase = IF @ = "done" THEN "done" ELSE "gone"]
                        /\ y.phase = (IF Phase(c) = "done" THEN "done" ELSE "gone")
                        /\ y.session = peer[c].session
  <2>1. PICK x \in Peer : x = peer[c]
    BY <1>2
  <2>2. PICK phase \in Phases : phase = (IF x.phase = "done" THEN "done" ELSE "gone")
    BY DEF Phases
  <2>3. PICK y : y = [x EXCEPT !.phase = phase]
    OBVIOUS
  <2>4. y \in Peer /\ y.phase = phase /\ y.session = x.session
    BY <2>3 DEF Peer
  <2> QED
    BY <2>1, <2>2, <2>3, <2>4 DEF Phase
<1>4. peer' = [peer EXCEPT ![c] = y]
  BY <1>3 DEF Disconnect
<1>5. /\ peer'[c] = y /\ sent'[c] = <<>> /\ out'[c] = <<>> /\ c \in over'
      /\ \A d \in Clients \ {c} : peer'[d] = peer[d] /\ sent'[d] = sent[d] /\ out'[d] = out[d]
  BY <1>1, <1>2, <1>4
<1>6. \A i \in ConnIndex : IF conns[i].id = c THEN conns'[i] = Zero(conns[i]) ELSE conns'[i] = conns[i]
  BY <1>1
<1>7. \A i \in ConnIndex : conns[i].id = c =>
        conns'[i].id = None /\ conns'[i].toDo = "WAIT_CLIENT_HELLO" /\ conns'[i].keys = conns[i].keys
  BY <1>2, <1>6, ZeroIs
<1>8. \A d \in Clients \ {c} : Stands(d) /\ (NoneIsWaiting(d) => NoneIsWaiting(d)')
  BY <1>1, <1>5 DEF Stands, NoSessionOf, NoneIsWaiting
<1>9. ServerTypes' /\ ClientTypes'
  <2>1. conns' \in [ConnIndex -> Connection] /\ connUsed' \in [ConnIndex -> Nat]
    BY <1>1, <1>2, ZeroIs
  <2>2. <<>> \in Seq(Records) /\ <<>> \in Seq(Flights)
    OBVIOUS
  <2>3. /\ out' \in [Clients -> Seq(Flights)] /\ sent' \in [Clients -> Seq(Records)]
        /\ peer' \in [Clients -> Peer]
    BY <1>1, <1>2, <1>4, <2>2
  <2>4. ServerTypes'
    BY <1>1, <2>1, <2>3 DEF TlsInv, ServerTypes, Idle
  <2>5. ClientTypes'
    BY <1>1, <2>3 DEF TlsInv, ClientTypes
  <2> QED
    BY <2>4, <2>5
<1>10. RecordsOf(c)' /\ FlightsOf(c)' /\ ClientIsRight(c)'
  <2>1. RecordsOf(c)'
    BY <1>5 DEF RecordsOf, Live
  <2>2. FlightsOf(c)'
    <3>1. Len(out'[c]) = 0
      BY <1>5
    <3>2. 1 .. Len(out'[c]) = {}
      BY <3>1
    <3> QED
      BY <3>2, Zenon DEF FlightsOf
  <2>3. ClientIsRight(c)'
    <3>1. Phase(c)' = IF Phase(c) = "done" THEN "done" ELSE "gone"
      BY <1>3, <1>5 DEF Phase
    <3>2. ClientIsRight(c)
      BY DEF TlsInv
    <3> QED
      BY <1>1, <1>5, <3>1, <3>2 DEF ClientIsRight, NoSessionOf
  <2> QED
    BY <2>1, <2>2, <2>3
<1>11. \A d \in Clients : RecordsOf(d)' /\ FlightsOf(d)' /\ ClientIsRight(d)'
  BY <1>8, <1>10, ClientStands DEF TlsInv
<1>12. \A i \in ConnIndex : EntryOf(i)'
  <2> SUFFICES ASSUME NEW i \in ConnIndex, conns'[i].id # None PROVE EntryOf(i)'
    BY DEF EntryOf
  <2>1. conns'[i] = conns[i] /\ conns[i].id # c /\ conns[i].id # None
    BY <1>6, <1>7
  <2>2. conns[i].id \in Clients \ {c}
    BY <2>1, EntryIsConnected
  <2>3. LeftOf(i)' = LeftOf(i)
    BY <1>1 DEF LeftOf, Idle
  <2> QED
    BY <1>8, <2>1, <2>2, <2>3, EntryStands DEF TlsInv
<1>13. NoneTwice' /\ EmptyAreIdle'
  <2>1. \A i \in ConnIndex : conns'[i].id # None => conns'[i].id = conns[i].id
    BY <1>6, <1>7
  <2> QED
    BY <1>1, <1>6, <1>7, <2>1 DEF TlsInv, NoneTwice, EmptyAreIdle
<1>14. RunningInOrder' /\ PutByIsHandled'
  BY <1>1 DEF RunningInOrder, PutByIsHandled, Idle
<1>15. ChangedAreRight'
  <2> SUFFICES ASSUME NEW d \in Clients, Phase(d)' = "keyed", Len(out'[d]) > 0,
                      out'[d][1] = ChangeFlight(d)
               PROVE  HasMaster(d)
    BY <1>1 DEF ChangedAreRight, ChangeFlight, HasMaster
  <2>1. d # c
    BY <1>3, <1>5 DEF Phase
  <2> QED
    BY <1>5, <2>1 DEF TlsInv, SessionsAreRight, ChangedAreRight, Phase
<1>16. KeysAreRight'
  BY <1>1, <1>6, <1>7, OldKeysStay DEF TlsInv, SessionsAreRight
<1>17. SessionsAreRight'
  <2>1. y.phase \in {"hello", "open", "done"} => y.session \in Trusted \cup {None}
    BY <1>3 DEF Trusted
  <2>2. y.phase \in {"open", "done", "alerted", "unread", "gone"}
    BY <1>3
  <2>3. UNCHANGED <<sessions, begun>>
    BY <1>1
  <2> QED
    BY <1>4, <1>15, <1>16, <2>1, <2>2, <2>3, SessionsStay
<1>18. WaitsForOwnSlot' /\ SessionHasItsMaster'
  BY <1>1, <1>6, <1>7, SlotsStay, MastersStay DEF TlsInv
<1> QED
  BY <1>9, <1>11, <1>12, <1>13, <1>14, <1>17, <1>18 DEF TlsInv

LEMMA LengthIs ==
  ASSUME NEW S, NEW s \in Seq(S)
  PROVE  Len(s) \in Nat
  OBVIOUS

LEMMA CutIs ==
  ASSUME NEW S, NEW s \in Seq(S), NEW n \in 1 .. Len(s)
  PROVE  /\ SubSeq(s, 1, n) \in Seq(S) /\ Len(SubSeq(s, 1, n)) = n
         /\ \A j \in 1 .. n : SubSeq(s, 1, n)[j] = s[j]
         /\ SubSeq(s, n + 1, Len(s)) \in Seq(S) /\ Len(SubSeq(s, n + 1, Len(s))) = Len(s) - n
         /\ \A j \in 1 .. Len(s) - n : SubSeq(s, n + 1, Len(s))[j] = s[n + j]
  OBVIOUS

\* What arrives, and what is still to come, keep their numbers.
LEMMA SegmentArrives ==
  ASSUME TlsInv, NEW c \in Clients, Live(c), NEW n \in 1 .. Len(sent[c]),
         NEW r, r = SubSeq(sent[c], n + 1, Len(sent[c])), sent' = [sent EXCEPT ![c] = r],
         UNCHANGED <<peer, out, over>>
  PROVE  /\ sent' \in [Clients -> Seq(Records)] /\ r \in Seq(Records)
         /\ Received(c) \in Int /\ Received(c)' = Received(c) + n /\ n \in Nat \ {0}
         /\ SubSeq(sent[c], 1, n) \in Seq(Records) /\ Len(SubSeq(sent[c], 1, n)) = n
         /\ \A j \in 1 .. n : SentAt(c, Received(c) + j, SubSeq(sent[c], 1, n)[j])
         /\ RecordsOf(c)' /\ FlightsOf(c)'
<1>1. PICK s \in Seq(Records) : s = sent[c]
  BY DEF TlsInv, ClientTypes
<1>2. PICK l \in Nat : l = Len(s) /\ n \in 1 .. l
  BY <1>1
<1>3. /\ SubSeq(s, 1, n) \in Seq(Records) /\ Len(SubSeq(s, 1, n)) = n
      /\ \A j \in 1 .. n : SubSeq(s, 1, n)[j] = s[j]
      /\ r \in Seq(Records) /\ Len(r) = l - n /\ \A j \in 1 .. l - n : r[j] = s[n + j]
  BY <1>1, <1>2, CutIs
<1>4. sent \in [Clients -> Seq(Records)]
  BY DEF TlsInv, ClientTypes
<1>5. sent'[c] = r /\ sent' \in [Clients -> Seq(Records)]
  BY <1>3, <1>4
<1>6. PICK m \in Nat : m = LastPlace(Phase(c))
  BY DEF LastPlace
<1>7. Received(c) = m - l /\ Received(c)' = m - (l - n) /\ n \in Nat \ {0}
  BY <1>1, <1>2, <1>3, <1>5, <1>6 DEF Received, Phase
<1>8. Received(c) \in Int /\ Received(c)' = Received(c) + n
  BY <1>2, <1>6, <1>7
<1>9. \A j \in 1 .. l : SentAt(c, Received(c) + j, s[j])
  BY <1>1, <1>2 DEF TlsInv, RecordsOf
<1>10. \A j \in 1 .. n : SentAt(c, Received(c) + j, SubSeq(s, 1, n)[j])
  BY <1>2, <1>3, <1>9
<1>11. RecordsOf(c)'
  <2> SUFFICES ASSUME NEW j \in 1 .. l - n PROVE SentAt(c, Received(c) + j, sent[c][j])'
    BY <1>3, <1>5 DEF RecordsOf
  <2>1. n + j \in 1 .. l /\ r[j] = s[n + j]
    <3>1. n + j \in 1 .. l
      BY <1>2, <1>7
    <3>2. r[j] = s[n + j]
      BY <1>3
    <3> QED
      BY <3>1, <3>2
  <2>2. Received(c)' + j = Received(c) + (n + j)
    BY <1>8
  <2>3. SentAt(c, Received(c) + (n + j), s[n + j])
    BY <1>9, <2>1
  <2>4. SentAt(c, Received(c)' + j, r[j])
    BY <2>1, <2>2, <2>3
  <2>5. \A x, z : SentAt(c, x, z) => SentAt(c, x, z)'
    BY DEF SentAt, Phase
  <2> QED
    BY <1>5, <2>4, <2>5
<1>12. FlightsOf(c)'
  <2>1. s # <<>>
    BY <1>2
  <2> SUFFICES ASSUME NEW j \in 1 .. Len(out[c]) PROVE FlightIsRight(c, j)'
    BY DEF FlightsOf
  <2>2. FlightIsRight(c, j)
    BY DEF TlsInv, FlightsOf
  <2> QED
    BY <1>1, <2>1, <2>2 DEF FlightIsRight, Phase, Live
<1> QED
  BY <1>1, <1>3, <1>5, <1>7, <1>8, <1>10, <1>11, <1>12

\* The first segment: the client gets an entry, another one's if need be.
LEMMA FirstSegmentStep ==
  ASSUME TlsInv, Idle, NEW c \in Clients, Live(c), c \notin begun, NEW n \in 1 .. Len(sent[c]),
         NEW i, i = NewConnIndex(c), NEW tick,
         conns' = [conns EXCEPT ![i] = [Zero(@) EXCEPT !.id = c]], connUsed' = Use(connUsed, i, tick),
         running' = [index |-> i, records |-> SubSeq(sent[c], 1, n), deferring |-> TRUE],
         NEW r, r = SubSeq(sent[c], n + 1, Len(sent[c])), sent' = [sent EXCEPT ![c] = r],
         begun' = begun \cup {c},
         UNCHANGED <<next, sessions, sessUsed, job, http, out, over, peer, short>>
  PROVE  TlsInv'
<1>1. /\ conns \in [ConnIndex -> Connection] /\ connUsed \in [ConnIndex -> Nat] /\ c # None
      /\ sent \in [Clients -> Seq(Records)] /\ sessions \in [SessIndex -> Session]
  BY Sizes DEF TlsInv, ServerTypes, ClientTypes
<1>2. \A j \in ConnIndex : conns[j].id # c
  BY <1>1, EntryIsConnected
<1>3. i \in ConnIndex
  <2>1. DOMAIN conns = ConnIndex
    BY <1>1
  <2>2. i = EmptyOrOldest(conns, connUsed)
    BY <1>2, <2>1 DEF NewConnIndex, EntriesOf
  <2> QED
    BY <1>1, <2>1, <2>2, EmptyOrOldestIsIn, Sizes
<1>4. PICK z \in Connection : z = Zero(conns[i])
  BY <1>1, <1>3, ZeroIs
<1>5. /\ z.toDo = "WAIT_CLIENT_HELLO" /\ z.sessionId = None /\ z.handshakeSha = <<>>
      /\ ~ z.clientEncrypted /\ z.deferred = NoRecord /\ z.serverSequence = 0
      /\ z.keys = conns[i].keys
  BY <1>1, <1>3, <1>4, ZeroIs
<1>6. PICK p : p = [z EXCEPT !.id = c]
  OBVIOUS
<1>7. /\ p \in Connection /\ p.id = c
      /\ p.toDo = "WAIT_CLIENT_HELLO" /\ p.sessionId = None /\ p.handshakeSha = <<>>
      /\ ~ p.clientEncrypted /\ p.deferred = NoRecord /\ p.serverSequence = 0
      /\ p.keys = conns[i].keys
  BY <1>5, <1>6 DEF Connection
<1>8. conns'[i] = p /\ \A j \in ConnIndex \ {i} : conns'[j] = conns[j]
  BY <1>1, <1>3, <1>4, <1>6
<1>9. PICK a : a = SubSeq(sent[c], 1, n)
  OBVIOUS
<1>10. /\ sent' \in [Clients -> Seq(Records)] /\ r \in Seq(Records)
       /\ Received(c) \in Int /\ Received(c)' = Received(c) + n /\ n \in Nat \ {0}
       /\ a \in Seq(Records) /\ Len(a) = n
       /\ \A j \in 1 .. n : SentAt(c, Received(c) + j, a[j])
       /\ RecordsOf(c)' /\ FlightsOf(c)'
  BY <1>9, SegmentArrives
<1>11. ClientIsRight(c)
  BY DEF TlsInv
<1>12. Phase(c) \in {"hello", "astray"} /\ out[c] = <<>> /\ NoSessionOf(c)
  BY <1>11 DEF ClientIsRight, Live
<1>13. Received(c) = 0 /\ n = 1
  <2>1. 1 \in 1 .. n
    BY <1>10
  <2>2. SentAt(c, Received(c) + 1, a[1])
    BY <1>10, <2>1
  <2>3. Received(c) + 1 = 1
    BY <1>12, <2>2 DEF SentAt
  <2>4. PICK s \in Seq(Records) : s = sent[c]
    BY <1>1
  <2>5. PICK l \in Nat : l = Len(s)
    BY LengthIs, Zenon
  <2>6. Received(c) = 1 - l
    BY <1>12, <2>4, <2>5 DEF Received, LastPlace
  <2>7. l = 1
    BY <2>3, <2>6
  <2>8. n \in 1 .. 1
    BY <2>4, <2>5, <2>7
  <2> QED
    BY <1>10, <2>3, <2>8
<1>14. /\ running'.index = i /\ running'.records = a /\ running'.deferring
       /\ running' \in Call /\ ~ Idle' /\ running'.records # <<>>
  <2>1. running' = [index |-> i, records |-> a, deferring |-> TRUE]
    BY <1>9
  <2>2. running'.index = i /\ running'.records = a /\ running'.deferring = TRUE
    BY <2>1
  <2>5. running' \in Call
    <3>1. a \in Seq(Records)
      BY <1>10
    <3>2. i \in ConnIndex /\ TRUE \in BOOLEAN
      BY <1>3
    <3> QED
      BY <2>1, <3>1, <3>2 DEF Call
  <2>3. running' # <<>>
    BY <2>1
  <2>4. a # <<>>
    BY <1>10
  <2> QED
    BY <2>2, <2>3, <2>4, <2>5 DEF Idle
<1>15. LeftOf(i)' = 1 /\ \A j \in ConnIndex \ {i} : LeftOf(j)' = LeftOf(j)
  BY <1>10, <1>13, <1>14 DEF LeftOf, Idle
<1>16. \A d \in Clients \ {c} : Stands(d) /\ (NoneIsWaiting(d) => NoneIsWaiting(d)')
  BY <1>1 DEF Stands, NoSessionOf, NoneIsWaiting
<1>17. ServerTypes' /\ ClientTypes'
  <2>1. conns' \in [ConnIndex -> Connection]
    BY <1>1, <1>3, <1>4, <1>6, <1>7
  <2>2. connUsed' \in [ConnIndex -> Nat]
    BY <1>1, UseIsTyped, Sizes
  <2>3. ServerTypes'
    BY <1>14, <2>1, <2>2 DEF TlsInv, ServerTypes
  <2>4. ClientTypes'
    BY <1>10 DEF TlsInv, ClientTypes
  <2> QED
    BY <2>3, <2>4
<1>18. Live(c)' /\ Phase(c)' = Phase(c)
  BY DEF Live, Phase
<1>19. ClientIsRight(c)'
  BY <1>11, <1>18 DEF ClientIsRight
<1>20. \A d \in Clients : RecordsOf(d)' /\ FlightsOf(d)' /\ ClientIsRight(d)'
  BY <1>10, <1>16, <1>19, ClientStands DEF TlsInv
<1>21. KeysAreRight'
  <2> SUFFICES ASSUME NEW j \in ConnIndex, NEW d \in Clients, conns'[j].keys = Keys(d, d)
               PROVE  d \in begun' /\ (conns'[j].id = d => HasMaster(d))
    BY DEF KeysAreRight, Keys, Master, HasMaster
  <2>1. conns[j].keys = Keys(d, d) /\ (j # i => conns'[j] = conns[j])
    BY <1>7, <1>8
  <2>2. d \in begun /\ (conns[j].id = d => HasMaster(d))
    BY <2>1 DEF TlsInv, SessionsAreRight, KeysAreRight
  <2> QED
    BY <1>7, <1>8, <2>1, <2>2
<1>22. conns[i].keys # Keys(c, c)
  BY <1>3 DEF TlsInv, SessionsAreRight, KeysAreRight
<1>23. Handled(i)' = 0
  BY <1>7, <1>8, <1>10, <1>13, <1>15 DEF Handled
<1>24. EntryOf(i)'
  <2>1. Fresh(c, p, 0)'
    BY <1>7, <1>12, <1>18, <1>22 DEF Fresh, NoSessionOf, Keys, Master
  <2>2. c \in begun' /\ Phase(c)' # "new" /\ Live(c)'
    BY <1>12, <1>18
  <2>3. EntryIsRight(c, p, 0)'
    BY <1>7, <1>12, <1>18, <2>1 DEF EntryIsRight
  <2>4. EntryIsRight(c, conns[i], Handled(i))'
    BY <1>8, <1>23, <2>3
  <2> QED
    BY <1>7, <1>8, <2>2, <2>4 DEF EntryOf
<1>25. \A j \in ConnIndex : EntryOf(j)'
  <2> SUFFICES ASSUME NEW j \in ConnIndex \ {i} PROVE EntryOf(j)'
    BY <1>24
  <2>1. conns'[j] = conns[j] /\ conns[j].id # c
    BY <1>2, <1>8
  <2>2. CASE conns[j].id = None
    BY <2>1, <2>2 DEF EntryOf
  <2>3. CASE conns[j].id # None
    <3>1. conns[j].id \in Clients \ {c}
      BY <2>1, <2>3, EntryIsConnected
    <3> QED
      BY <1>15, <1>16, <2>1, <3>1, EntryStands DEF TlsInv
  <2> QED
    BY <2>2, <2>3
<1>26. NoneTwice' /\ EmptyAreIdle'
  <2>1. NoneTwice'
    BY <1>2, <1>7, <1>8 DEF TlsInv, NoneTwice
  <2>2. EmptyAreIdle'
    BY <1>1, <1>7, <1>8, <1>14 DEF TlsInv, EmptyAreIdle
  <2> QED
    BY <2>1, <2>2
<1>27. RunningInOrder'
  <2>1. \A j \in 1 .. n : SentAt(c, 0 + j, a[j])
    BY <1>10, <1>13
  <2>2. \A x, y : SentAt(c, x, y) => SentAt(c, x, y)'
    BY DEF SentAt, Phase
  <2> QED
    BY <1>7, <1>8, <1>10, <1>14, <1>18, <1>23, <2>1, <2>2 DEF RunningInOrder
<1>28. PutByIsHandled'
  BY <1>14 DEF PutByIsHandled
<1>29. SessionsAreRight'
  BY <1>21, TrustStays, ChangedStay DEF TlsInv, SessionsAreRight
<1>30. WaitsForOwnSlot' /\ SessionHasItsMaster'
  BY <1>7, <1>8, SlotsStay, MastersStay DEF TlsInv
<1> QED
  BY <1>17, <1>20, <1>25, <1>26, <1>27, <1>28, <1>29, <1>30 DEF TlsInv

\* Later segments go to the client's entry.
LEMMA LaterSegmentStep ==
  ASSUME TlsInv, Idle, NEW c \in Clients, Live(c), c \in begun, NEW n \in 1 .. Len(sent[c]),
         NEW i \in ConnIndex, conns[i].id = c, NEW tick,
         connUsed' = Use(connUsed, i, tick),
         running' = [index |-> i, records |-> SubSeq(sent[c], 1, n), deferring |-> TRUE],
         NEW r, r = SubSeq(sent[c], n + 1, Len(sent[c])), sent' = [sent EXCEPT ![c] = r],
         UNCHANGED <<conns, begun, next, sessions, sessUsed, job, http, out, over, peer, short>>
  PROVE  TlsInv'
<1>1. /\ conns \in [ConnIndex -> Connection] /\ connUsed \in [ConnIndex -> Nat] /\ c # None
      /\ sent \in [Clients -> Seq(Records)]
  BY Sizes DEF TlsInv, ServerTypes, ClientTypes
<1>2. PICK p \in Connection : p = conns[i]
  BY <1>1
<1>3. p.id = c /\ conns' = [conns EXCEPT ![i] = p]
  BY <1>1, <1>2
<1>4. PICK a : a = SubSeq(sent[c], 1, n)
  OBVIOUS
<1>5. /\ sent' \in [Clients -> Seq(Records)] /\ r \in Seq(Records)
      /\ Received(c) \in Int /\ Received(c)' = Received(c) + n /\ n \in Nat \ {0}
      /\ a \in Seq(Records) /\ Len(a) = n
      /\ \A j \in 1 .. n : SentAt(c, Received(c) + j, a[j])
      /\ RecordsOf(c)' /\ FlightsOf(c)'
  BY <1>4, SegmentArrives
<1>6. /\ running'.index = i /\ running'.records = a /\ running'.deferring
      /\ running' \in Call /\ ~ Idle' /\ running'.records # <<>>
  <2>1. running' = [index |-> i, records |-> a, deferring |-> TRUE]
    BY <1>4
  <2>2. running'.index = i /\ running'.records = a /\ running'.deferring = TRUE
    BY <2>1
  <2>5. running' \in Call
    <3>1. a \in Seq(Records)
      BY <1>5
    <3>2. i \in ConnIndex /\ TRUE \in BOOLEAN
      OBVIOUS
    <3> QED
      BY <2>1, <3>1, <3>2 DEF Call
  <2>3. running' # <<>>
    BY <2>1
  <2>4. a # <<>>
    BY <1>5
  <2> QED
    BY <2>2, <2>3, <2>4, <2>5 DEF Idle
<1>7. LeftOf(i)' = n /\ LeftOf(i) = 0 /\ \A j \in ConnIndex \ {i} : LeftOf(j)' = LeftOf(j)
  BY <1>5, <1>6 DEF LeftOf, Idle
<1>8. Handled(i)' = Handled(i) /\ Handled(i) = Received(c)
  BY <1>5, <1>7 DEF Handled
<1>9. \A d \in Clients \ {c} : Stands(d) /\ (NoneIsWaiting(d) => NoneIsWaiting(d)')
  BY <1>1 DEF Stands, NoSessionOf, NoneIsWaiting
<1>10. ServerTypes' /\ ClientTypes'
  <2>1. connUsed' \in [ConnIndex -> Nat]
    BY <1>1, UseIsTyped, Sizes
  <2>2. ServerTypes'
    BY <1>6, <2>1 DEF TlsInv, ServerTypes
  <2>3. ClientTypes'
    BY <1>5 DEF TlsInv, ClientTypes
  <2> QED
    BY <2>2, <2>3
<1>11. Live(c)' /\ Phase(c)' = Phase(c)
  BY DEF Live, Phase
<1>12. ClientIsRight(c)'
  BY <1>11 DEF TlsInv, ClientIsRight
<1>13. EntryOf(i)'
  <2>1. EntryIsRight(c, conns[i], Handled(i)) /\ c \in begun /\ Phase(c) # "new"
    BY <1>1 DEF TlsInv, EntryOf
  <2>2. PICK q : q = Handled(i)
    OBVIOUS
  <2>5. EntryIsRight(c, p, q)
    BY <1>2, <2>1, <2>2
  <2>6. /\ peer'[c] = peer[c] /\ out'[c] = out[c] /\ (NoSessionOf(c) => NoSessionOf(c)')
        /\ (NoneIsWaiting(c) => NoneIsWaiting(c)')
        /\ (NoneIsWaiting(p.id) => NoneIsWaiting(p.id)')
        /\ UNCHANGED <<sessions, job, http, over, begun, short>>
    BY DEF NoSessionOf, NoneIsWaiting
  <2>3. EntryIsRight(c, p, q)'
    BY <2>5, <2>6 DEF EntryIsRight, Fresh, Astray, NewDue, NewAnswered, ResumeDue,
       ResumeAnswered, Waits, Refused, ChangeDue, ChangeAnswered, Opened, Phase, ResumeFlight,
       ChangeFlight
  <2>4. EntryIsRight(c, conns[i], Handled(i))'
    BY <1>2, <1>8, <2>2, <2>3
  <2> QED
    BY <1>2, <1>3, <1>11, <2>1, <2>4 DEF EntryOf
<1>14. RunningInOrder'
  <2>1. \A j \in 1 .. n : SentAt(c, Handled(i)' + j, a[j])
    BY <1>5, <1>8
  <2>2. \A x, y : SentAt(c, x, y) => SentAt(c, x, y)'
    BY DEF SentAt, Phase
  <2>3. \A j \in 1 .. n : SentAt(c, Handled(i) + j, a[j])'
    BY <2>1, <2>2
  <2>4. conns'[i].id = c /\ Len(a) = n
    BY <1>2, <1>3, <1>5
  <2> QED
    BY <1>6, <1>11, <2>3, <2>4 DEF RunningInOrder
<1>15. PutByIsHandled'
  BY <1>6 DEF PutByIsHandled
<1>16. SessionsAreRight'
  BY KeysStay, TrustStays, ChangedStay DEF TlsInv, SessionsAreRight
<1>17. WaitsForOwnSlot' /\ SessionHasItsMaster'
  BY SlotsStay, MastersStay DEF TlsInv
<1>18. SessionIdsDiffer'
  BY DEF TlsInv, NoneTwice, SessionIdsDiffer
<1> QED
  BY <1>3, <1>5, <1>7, <1>9, <1>10, <1>12, <1>13, <1>14, <1>15, <1>16, <1>17, <1>18, EntryStep

\* Records of a connection that has lost its entry are dropped.
LEMMA DroppedSegmentStep ==
  ASSUME TlsInv, Idle, NEW c \in Clients, Live(c), c \in begun, NEW n \in 1 .. Len(sent[c]),
         EntriesOf(conns, c) = {},
         NEW r, r = SubSeq(sent[c], n + 1, Len(sent[c])), sent' = [sent EXCEPT ![c] = r],
         UNCHANGED <<conns, connUsed, running, begun, next, sessions, sessUsed, job, http, out, over,
                     peer, short>>
  PROVE  TlsInv'
<1>1. /\ conns \in [ConnIndex -> Connection] /\ peer \in [Clients -> Peer]
      /\ out \in [Clients -> Seq(Flights)]
  BY DEF TlsInv, ServerTypes, ClientTypes
<1>2. PICK y \in Peer : y = peer[c]
  BY <1>1
<1>3. PICK o \in Seq(Flights) : o = out[c]
  BY <1>1
<1>4. peer' = [peer EXCEPT ![c] = y] /\ out' = [out EXCEPT ![c] = o]
  BY <1>1, <1>2, <1>3
<1>5. r \in Seq(Records) /\ RecordsOf(c)' /\ FlightsOf(c)'
  BY SegmentArrives
<1>6. ClientIsRight(c)'
  BY DEF TlsInv, ClientIsRight, Phase
<1>7. \A i \in ConnIndex : conns[i].id # c
  BY <1>1 DEF EntriesOf
<1>8. SessionsAreRight'
  BY KeysStay, TrustStays, ChangedStay DEF TlsInv, SessionsAreRight
<1> QED
  BY <1>4, <1>5, <1>6, <1>7, <1>8, OwnStep

LEMMA DeliverStep ==
  ASSUME TlsInv, NEW c \in Clients, NEW n \in 1 .. Len(sent[c]), NEW tick, Deliver(c, n, tick)
  PROVE  TlsInv'
<1>1. PICK r : r = SubSeq(sent[c], n + 1, Len(sent[c]))
  OBVIOUS
<1>2. conns \in [ConnIndex -> Connection] /\ sent \in [Clients -> Seq(Records)]
  BY DEF TlsInv, ServerTypes, ClientTypes
<1>3. /\ Idle /\ IsOpen(c) /\ sent' = [sent EXCEPT ![c] = r] /\ begun' = begun \cup {c}
      /\ TlsRequest(c, SubSeq(sent[c], 1, n), c \notin begun, tick)
      /\ UNCHANGED <<next, sessions, sessUsed, job, http, out, over, peer, short>>
  BY <1>1, <1>2 DEF Deliver, TlsRequest
<1>4. Live(c)
  BY <1>3 DEF TlsInv, ClientTypes, Peer, Phases, ClientIsRight, IsOpen, Live, Phase
<1>5. CASE c \notin begun
  <2>1. PICK i : i = NewConnIndex(c)
    OBVIOUS
  <2>2. /\ conns' = [conns EXCEPT ![i] = [Zero(@) EXCEPT !.id = c]]
        /\ connUsed' = Use(connUsed, i, tick)
        /\ running' = [index |-> i, records |-> SubSeq(sent[c], 1, n), deferring |-> TRUE]
    BY <1>3, <1>5, <2>1 DEF TlsRequest
  <2> QED
    BY <1>1, <1>3, <1>4, <1>5, <2>1, <2>2, FirstSegmentStep
<1>6. CASE c \in begun
  <2>1. begun' = begun
    BY <1>3, <1>6
  <2>2. CASE EntriesOf(conns, c) = {}
    BY <1>1, <1>3, <1>4, <1>6, <2>1, <2>2, DroppedSegmentStep DEF TlsRequest
  <2>3. CASE EntriesOf(conns, c) # {}
    <3>1. PICK i : i = First(EntriesOf(conns, c))
      OBVIOUS
    <3>2. i \in ConnIndex /\ conns[i].id = c
      BY <1>2, <2>3, <3>1, FirstIsIn, Sizes DEF EntriesOf
    <3>3. /\ connUsed' = Use(connUsed, i, tick) /\ UNCHANGED conns
          /\ running' = [index |-> i, records |-> SubSeq(sent[c], 1, n), deferring |-> TRUE]
      BY <1>3, <1>6, <2>3, <3>1 DEF TlsRequest
    <3> QED
      BY <1>1, <1>3, <1>4, <1>6, <2>1, <3>2, <3>3, LaterSegmentStep
  <2> QED
    BY <2>2, <2>3
<1> QED
  BY <1>5, <1>6

-----------------------------------------------------------------------------
(***************************************************************************)
(* The whole                                                               *)
(***************************************************************************)
LEMMA InvInit ==
  ASSUME ClientsInit
  PROVE  TlsInv
<1>1. /\ \A i \in ConnIndex : conns[i] = Blank
      /\ \A k \in SessIndex : sessions[k] = NoSession
      /\ \A c \in Clients : /\ peer[c] = [phase |-> "new", session |-> None, contents |-> 0]
                            /\ sent[c] = <<>> /\ out[c] = <<>>
      /\ running = <<>> /\ http = {} /\ over = {} /\ begun = {} /\ short = FALSE
  BY DEF ClientsInit, Init
<1>2. Idle /\ \A c \in Clients : Phase(c) = "new" /\ ~ Live(c)
  BY <1>1 DEF Idle, Phase, Live
<1>3. Blank \in Connection /\ Blank.id = None /\ Blank.toDo = "WAIT_CLIENT_HELLO" /\ Blank.keys = <<>>
  <2>1. <<>> \in Seq(MessageNames)
    OBVIOUS
  <2>2. NoKeys \in AllKeys /\ NoRecord \in PutByRecords /\ 0 \in Rsa!Slot /\ 0 \in Nat
    BY Sizes DEF AllKeys, PutByRecords
  <2> QED
    BY <2>1, <2>2 DEF Blank, Connection, ToDos, NoKeys
<1>4. NoSession \in Session /\ NoSession.id = None /\ ~ NoSession.valid
  BY DEF NoSession, Session, Masters
<1>5. ServerTypes
  <2>1. conns \in [ConnIndex -> Connection] /\ sessions \in [SessIndex -> Session]
    BY <1>3, <1>4 DEF ClientsInit, Init
  <2>2. connUsed \in [ConnIndex -> Nat] /\ sessUsed \in [SessIndex -> Nat]
    BY DEF ClientsInit, Init
  <2>3. next \in ConnIndex
    BY Sizes DEF ClientsInit, Init
  <2>4. job \in [Rsa!Slot -> Rsa!Jobs]
    BY DEF ClientsInit, Init, Rsa!Init, Rsa!Jobs
  <2>5. out \in [Clients -> Seq(Flights)]
    <3>1. <<>> \in Seq(Flights)
      OBVIOUS
    <3> QED
      BY <3>1 DEF ClientsInit, Init
  <2> QED
    BY <1>1, <1>2, <2>1, <2>2, <2>3, <2>4, <2>5 DEF ServerTypes
<1>6. ClientTypes
  <2>1. [phase |-> "new", session |-> None, contents |-> 0] \in Peer
    BY DEF Peer, Phases
  <2>2. <<>> \in Seq(Records)
    OBVIOUS
  <2> QED
    BY <2>1, <2>2 DEF ClientsInit, ClientTypes
<1>7. NoneTwice /\ EmptyAreIdle
  BY <1>1, <1>3, <1>4 DEF NoneTwice, EmptyAreIdle
<1>8. ASSUME NEW c \in Clients PROVE RecordsOf(c) /\ FlightsOf(c) /\ ClientIsRight(c)
  <2>1. RecordsOf(c)
    BY <1>2 DEF RecordsOf
  <2>2. FlightsOf(c)
    <3>1. 1 .. Len(out[c]) = {}
      BY <1>1
    <3> QED
      BY <3>1, Zenon DEF FlightsOf
  <2>3. ClientIsRight(c)
    <3>1. NoSessionOf(c)
      BY <1>1, <1>4, Sizes DEF NoSessionOf
    <3> QED
      BY <1>1, <1>2, <3>1 DEF ClientIsRight
  <2> QED
    BY <2>1, <2>2, <2>3
<1>9. \A i \in ConnIndex : EntryOf(i)
  BY <1>1, <1>3 DEF EntryOf
<1>10. RunningInOrder /\ PutByIsHandled
  BY <1>2 DEF RunningInOrder, PutByIsHandled
<1>11. SessionsAreRight
  <2>1. TrustedAreRight
    BY <1>2 DEF TrustedAreRight, Trusted
  <2>2. ChangedAreRight
    BY <1>2 DEF ChangedAreRight
  <2>3. KeysAreRight
    BY <1>1, <1>3 DEF KeysAreRight, Keys
  <2> QED
    BY <2>1, <2>2, <2>3 DEF SessionsAreRight
<1>12. WaitsForOwnSlot /\ SessionHasItsMaster
  BY <1>1, <1>3, <1>4 DEF WaitsForOwnSlot, Waiting, SessionHasItsMaster
<1> QED
  BY <1>5, <1>6, <1>7, <1>8, <1>9, <1>10, <1>11, <1>12 DEF TlsInv

LEMMA Stutter ==
  ASSUME TlsInv, UNCHANGED vars
  PROVE  TlsInv'
<1>1. /\ UNCHANGED <<conns, connUsed, next, sessions, sessUsed, job, running, http, out, over>>
      /\ UNCHANGED <<peer, sent, begun, short>>
  BY DEF vars, serverVars, clientVars
<1>2. ServerTypes' /\ ClientTypes'
  BY <1>1 DEF TlsInv, ServerTypes, ClientTypes, Idle
<1>3. NoneTwice' /\ EmptyAreIdle'
  BY <1>1 DEF TlsInv, NoneTwice, EmptyAreIdle
<1>4. \A d \in Clients : Stands(d) /\ (NoneIsWaiting(d) => NoneIsWaiting(d)')
  BY <1>1 DEF Stands, NoSessionOf, NoneIsWaiting
<1>5. \A d \in Clients : RecordsOf(d)' /\ FlightsOf(d)' /\ ClientIsRight(d)'
  BY <1>4, ClientStands DEF TlsInv
<1>6. \A i \in ConnIndex : LeftOf(i)' = LeftOf(i) /\ conns'[i] = conns[i]
  BY <1>1 DEF LeftOf, Idle
<1>7. \A i \in ConnIndex : EntryOf(i)'
  <2> SUFFICES ASSUME NEW i \in ConnIndex PROVE EntryOf(i)'
    OBVIOUS
  <2>1. CASE conns[i].id = None
    BY <1>6, <2>1 DEF EntryOf
  <2>2. CASE conns[i].id # None
    BY <1>4, <1>6, <2>2, EntryStands, EntryIsConnected DEF TlsInv
  <2> QED
    BY <2>1, <2>2
<1>8. RunningInOrder'
  <2>1. RunningInOrder
    BY DEF TlsInv
  <2> QED
    BY <1>1, <2>1 DEF RunningInOrder, Idle, Live, Phase, SentAt, Handled, LeftOf, Received
<1>9. PutByIsHandled'
  <2>1. PutByIsHandled
    BY DEF TlsInv
  <2> QED
    BY <1>1, <2>1 DEF PutByIsHandled, Idle, NoneIsWaiting
<1>10. SessionsAreRight'
  BY <1>1, KeysStay, TrustStays, ChangedStay DEF TlsInv, SessionsAreRight
<1>11. WaitsForOwnSlot' /\ SessionHasItsMaster'
  BY <1>1, SlotsStay, MastersStay DEF TlsInv
<1> QED
  BY <1>2, <1>3, <1>5, <1>7, <1>8, <1>9, <1>10, <1>11 DEF TlsInv

LEMMA InvStep ==
  ASSUME TlsInv, [Next]_vars
  PROVE  TlsInv'
<1>1. CASE UNCHANGED vars
  BY <1>1, Stutter
<1>2. CASE Next
  BY <1>2, ConnectStep, ConnectBadlyStep, ReadStep, DeliverStep, PollStep, DisconnectStep, HandleStep,
     CollectingStep, DecryptedStep DEF Next
<1> QED
  BY <1>1, <1>2

\* What links the entry of each client, the records it has sent, the part of them
\* that tls-request.c has handled, the flights on their way, the sessions and the
\* slots holds in every reachable state.
THEOREM InvHolds == Spec => []TlsInv
<1>1. ClientsInit => TlsInv
  BY InvInit
<1>2. TlsInv /\ [Next]_vars => TlsInv'
  BY InvStep
<1> QED
  BY <1>1, <1>2, PTL DEF Spec

\* Every field of the tables, and every slot, keeps its type whatever the
\* clients send and however their segments are cut.
THEOREM TypeCorrect == Spec => []TypeOK
<1>1. TlsInv => TypeOK
  <2> SUFFICES ASSUME TlsInv PROVE TypeOK
    OBVIOUS
  <2>1. ASSUME NEW i \in ConnIndex
        PROVE  /\ conns[i].id \in Clients \cup {None} /\ conns[i].toDo \in ToDos
               /\ conns[i].sessionId \in Clients \cup {None}
               /\ conns[i].slot \in Rsa!Slot \cup {NoSlot}
               /\ conns[i].deferred.type \in {"none", "finished"}
    <3>1. conns[i] \in Connection
      BY DEF TlsInv, ServerTypes
    <3> QED
      BY <3>1 DEF Connection, PutByRecords, NoRecord, Finished
  <2>2. \A k \in SessIndex : sessions[k].id \in Clients \cup {None}
    BY DEF TlsInv, ServerTypes, Session
  <2> QED
    BY <2>1, <2>2 DEF TypeOK, TlsInv, ServerTypes, ClientTypes
<1> QED
  BY <1>1, InvHolds, PTL

-----------------------------------------------------------------------------
(***************************************************************************)
(* The alert in clear.  The session of an established connection that is   *)
(* ended with an alert is lost: its entry has been given to another, and   *)
(* its client does not make it again.                                      *)
(***************************************************************************)
Lost(s) ==
  /\ s \in Clients /\ NoSessionOf(s)
  /\ Phase(s) \notin {"new", "hello", "astray"}

\* An alert that c reads once the server has changed its cipher.
EndsOpen(c, j) ==
  /\ out[c][j] = Alert
  /\ Phase(c) = "open" \/ (j > 1 /\ out[c][1] # HelloNew)

AlertsOf(c) ==
  /\ \A j \in 1 .. Len(out[c]) : EndsOpen(c, j) => Lost(peer[c].session)
  /\ (Phase(c) = "unread" => Lost(peer[c].session))

\* An entry that is to send one.
IsEnding(i) ==
  /\ conns[i].toDo = "SEND_ALERT_ILLEGAL_PARAMETER"
  /\ conns[i].id \in Clients /\ Phase(conns[i].id) = "open"

EndingOf(i) == IsEnding(i) => Lost(peer[conns[i].id].session)

AlertInv == (\A c \in Clients : AlertsOf(c)) /\ (\A i \in ConnIndex : EndingOf(i))

\* Only a hello and the collection of a premaster secret write the session table.
LEMMA WhatTouchesSessions ==
  ASSUME Next
  PROVE  \/ UNCHANGED sessions
         \/ Handle /\ \E tick \in Ticks : ClientHello(tick)
         \/ Collecting
<1>1. ASSUME NEW c \in Clients, NEW s, Connect(c, s) PROVE UNCHANGED sessions
  BY <1>1 DEF Connect, serverVars
<1>2. ASSUME NEW c \in Clients, ConnectBadly(c) PROVE UNCHANGED sessions
  BY <1>2 DEF ConnectBadly, serverVars
<1>3. ASSUME NEW c \in Clients, Read(c) PROVE UNCHANGED sessions
  BY <1>3 DEF Read
<1>4. ASSUME NEW c \in Clients, NEW n, NEW tick, Deliver(c, n, tick) PROVE UNCHANGED sessions
  BY <1>4 DEF Deliver, TlsRequest
<1>5. ASSUME NEW c \in Clients, NEW tick, Poll(c, tick) PROVE UNCHANGED sessions
  BY <1>5 DEF Poll, TlsResponse, RespondEmpty, RespondWaiting, SendServerHelloNew,
     SendServerHelloResume, SendServerChange, RespondNoContent, SendContent, SendAlert, Answer
<1>6. ASSUME NEW c \in Clients, Disconnect(c) PROVE UNCHANGED sessions
  BY <1>6 DEF Disconnect, TlsReset
<1>7. Decrypted => UNCHANGED sessions
  BY DEF Decrypted, CryptoMain
<1>8. Handle => UNCHANGED sessions \/ \E tick \in Ticks : ClientHello(tick)
  BY DEF Handle, HandleContent, Defer, ClientKeyExchange, ShortHandshake, ClientFinished,
     ClientChangeCipher, ClientApplication, ClientOther
<1> QED
  BY <1>1, <1>2, <1>3, <1>4, <1>5, <1>6, <1>7, <1>8 DEF Next

\* A client past its hello does not come back to it.
LEMMA HelloIsOnce ==
  ASSUME TlsInv, Next, NEW s \in Clients, Phase(s) \notin {"new", "hello", "astray"}
  PROVE  Phase(s)' \notin {"new", "hello", "astray"}
<1>1. peer \in [Clients -> Peer]
  BY DEF TlsInv, ClientTypes
<1>2. ASSUME NEW c \in Clients, NEW t, Connect(c, t) \/ ConnectBadly(c)
      PROVE  peer'[s] = peer[s]
  BY <1>1, <1>2 DEF Connect, ConnectBadly, Phase
<1>3. ASSUME NEW c \in Clients, Read(c)
      PROVE  Phase(s)' \notin {"new", "hello", "astray"}
  <2>1. ASSUME NEW phase, NEW t, NEW r, Becomes(c, phase, t, r),
               phase \notin {"new", "hello", "astray"}
        PROVE  Phase(s)' \notin {"new", "hello", "astray"}
    BY <1>1, <2>1 DEF Becomes, Phase, Peer
  <2>2. ASSUME ReadContent(c, Head(out[c]))
        PROVE  Phase(s)' \notin {"new", "hello", "astray"}
    <3>1. CASE Phase(c) = "open"
      <4> DEFINE f == Head(out[c])
      <4>1. \/ peer' = [peer EXCEPT ![c].phase = IF f.last THEN "done" ELSE @, ![c].contents = @ + 1]
            \/ Becomes(c, "rejected", None, <<>>)
        BY <2>2 DEF ReadContent
      <4> HIDE DEF f
      <4> QED
        BY <1>1, <2>1, <3>1, <4>1 DEF Phase, Peer
    <3>2. CASE Phase(c) # "open"
      BY <2>1, <2>2, <3>2 DEF ReadContent
    <3> QED
      BY <3>1, <3>2
  <2>3. ASSUME ReadAlert(c, Head(out[c])) PROVE Phase(s)' \notin {"new", "hello", "astray"}
    BY <2>1, <2>3 DEF ReadAlert
  <2>4. ASSUME ReadHelloNew(c, Head(out[c])) PROVE Phase(s)' \notin {"new", "hello", "astray"}
    BY <2>1, <2>4 DEF ReadHelloNew
  <2>5. ASSUME ReadHelloResume(c, Head(out[c])) PROVE Phase(s)' \notin {"new", "hello", "astray"}
    BY <2>1, <2>5 DEF ReadHelloResume
  <2>6. ASSUME ReadChange(c, Head(out[c])) PROVE Phase(s)' \notin {"new", "hello", "astray"}
    BY <2>1, <2>6 DEF ReadChange
  <2> QED
    BY <1>3, <2>2, <2>3, <2>4, <2>5, <2>6 DEF Read
<1>4. ASSUME NEW c \in Clients, Disconnect(c)
      PROVE  Phase(s)' \notin {"new", "hello", "astray"}
  BY <1>1, <1>4 DEF Disconnect, Phase, Peer
<1>5. ASSUME NEW c \in Clients, NEW n, NEW tick, Deliver(c, n, tick) \/ Poll(c, tick)
      PROVE  peer' = peer
  BY <1>5 DEF Deliver, Poll, clientVars
<1>6. Handle \/ Collecting \/ Decrypted => peer' = peer
  BY DEF Handle, Collecting, Decrypted, clientVars
<1> QED
  BY <1>1, <1>2, <1>3, <1>4, <1>5, <1>6 DEF Next, Phase

\* Only the hello of a client makes its session.
LEMMA NoneComesBack ==
  ASSUME TlsInv, Next, NEW s \in Clients, NoSessionOf(s),
         Phase(s) \notin {"new", "hello", "astray"}
  PROVE  NoSessionOf(s)'
<1>1. sessions \in [SessIndex -> Session]
  BY DEF TlsInv, ServerTypes
<1>2. CASE UNCHANGED sessions
  BY <1>2 DEF NoSessionOf
<1>3. ASSUME Handle, NEW tick, ClientHello(tick) PROVE NoSessionOf(s)'
  <2>1. /\ ~ Idle /\ Record.type = "hello"
        /\ \E n : \/ sessions' = sessions
                  \/ sessions' = [sessions EXCEPT ![n] = [NoSession EXCEPT !.id = Hashed.id]]
    BY <1>3 DEF ClientHello, Handling, Zeroed
  <2>2. PICK c \in Clients : c = Hashed.id /\ Phase(c) = "hello"
    <3>1. PICK c : c = conns[running.index].id
      OBVIOUS
    <3>2. c \in Clients /\ c = Hashed.id
      BY <2>1, <3>1, WhatIsHandled, HashedIs DEF HandshakeTypes
    <3>3. Phase(c) = "hello"
      BY <2>1, <3>1, RecordKinds
    <3> QED
      BY <3>2, <3>3
  <2>3. PICK n : sessions' = sessions \/ sessions' = [sessions EXCEPT ![n] = [NoSession EXCEPT !.id = c]]
    BY <2>1, <2>2
  <2>4. [NoSession EXCEPT !.id = c].id = c
    BY DEF NoSession
  <2>5. PICK new : new.id = c /\ (sessions' = sessions \/ sessions' = [sessions EXCEPT ![n] = new])
    BY <2>3, <2>4
  <2> QED
    BY <1>1, <2>2, <2>5 DEF NoSessionOf
<1>4. CASE Collecting
  <2>1. \/ UNCHANGED sessions
        \/ \E k, m : sessions' = [sessions EXCEPT ![k].master = m, ![k].valid = TRUE]
    BY <1>4 DEF Collecting, TlsRequestMain, Collect
  <2>2. ASSUME NEW k, NEW m, sessions' = [sessions EXCEPT ![k].master = m, ![k].valid = TRUE]
        PROVE  NoSessionOf(s)'
    <3> SUFFICES ASSUME NEW l \in SessIndex PROVE sessions'[l].id = sessions[l].id
      BY DEF NoSessionOf
    <3>1. PICK x \in Session : x = sessions[l]
      BY <1>1
    <3>2. sessions'[l] = x \/ sessions'[l] = [x EXCEPT !.master = m, !.valid = TRUE]
      BY <1>1, <2>2, <3>1
    <3>3. sessions'[l].id = x.id
      BY <3>2 DEF Session
    <3> QED
      BY <3>1, <3>3
  <2> QED
    BY <1>2, <2>1, <2>2
<1> QED
  BY <1>2, <1>3, <1>4, WhatTouchesSessions

\* A session that is lost stays lost.
LEMMA LostStays ==
  ASSUME TlsInv, Next, NEW s, Lost(s)
  PROVE  Lost(s)'
BY HelloIsOnce, NoneComesBack DEF Lost

\* A client that stands still, and an entry that does not become an ending one.
LEMMA AlertsStay ==
  ASSUME TlsInv, Next, AlertInv, NEW d \in Clients, peer'[d] = peer[d], out'[d] = out[d]
  PROVE  AlertsOf(d)'
BY LostStays DEF AlertInv, AlertsOf, EndsOpen, Phase

LEMMA EndingStays ==
  ASSUME TlsInv, Next, AlertInv, NEW i \in ConnIndex,
         IsEnding(i)' =>
           /\ peer'[conns'[i].id] = peer[conns'[i].id]
           /\ Lost(peer[conns'[i].id].session) \/ (IsEnding(i) /\ conns'[i].id = conns[i].id)
  PROVE  EndingOf(i)'
BY LostStays DEF AlertInv, EndingOf

\* No client moves and no flight goes out.
LEMMA QuietAlerts ==
  ASSUME TlsInv, Next, AlertInv, UNCHANGED <<peer, out>>,
         \A i \in ConnIndex :
           \/ conns'[i].toDo # "SEND_ALERT_ILLEGAL_PARAMETER"
           \/ conns'[i].toDo = conns[i].toDo /\ conns'[i].id = conns[i].id
           \/ Phase(conns'[i].id) # "open"
           \/ Lost(peer[conns'[i].id].session)
  PROVE  AlertInv'
<1>1. \A d \in Clients : AlertsOf(d)'
  BY AlertsStay
<1>2. ASSUME NEW i \in ConnIndex PROVE EndingOf(i)'
  <2>1. ASSUME IsEnding(i)'
        PROVE  /\ peer'[conns'[i].id] = peer[conns'[i].id]
               /\ Lost(peer[conns'[i].id].session) \/ (IsEnding(i) /\ conns'[i].id = conns[i].id)
    BY <2>1 DEF IsEnding, Phase
  <2> QED
    BY <2>1, EndingStays
<1> QED
  BY <1>1, <1>2 DEF AlertInv

\* The session of an open client that is not in the table is lost.
LEMMA OpenLoses ==
  ASSUME TlsInv, NEW c \in Clients,
         \/ Phase(c) = "open" \/ Phase(c) = "keyed"
         \/ Phase(c) = "hello" /\ peer[c].session # None,
         NoSessionOf(peer[c].session)
  PROVE  Lost(peer[c].session)
<1> DEFINE s == peer[c].session
<1>1. s \in Clients \cup {None} /\ (Phase(c) = "keyed" => s = c) /\ (Phase(c) = "open" => s # None)
  BY DEF TlsInv, ClientTypes, ClientIsRight, Peer
<1>2. Phase(c) # "keyed" => s \in Trusted
  BY <1>1 DEF Trusted
<1>3. Phase(c) # "keyed" => Phase(s) \in {"open", "done", "alerted", "unread", "gone"}
  BY <1>2 DEF TlsInv, SessionsAreRight, TrustedAreRight
<1> QED
  BY <1>1, <1>3 DEF Lost

\* TlsSessionOrNull finds nothing: no entry has the id.
LEMMA NoEntryNoSession ==
  ASSUME TlsInv, NEW s \in Clients, SessionsOf(s) = {}
  PROVE  NoSessionOf(s)
BY Sizes DEF SessionsOf, EntriesOf, NoSessionOf, TlsInv, ServerTypes

\* A handler asks for an alert only where the session is gone or the client not open.
LEMMA HandleAlerts ==
  ASSUME TlsInv, Next, AlertInv, Handle
  PROVE  AlertInv'
<1>1. ~ Idle /\ UNCHANGED <<peer, out>>
  BY DEF Handle, HandleContent, Defer, ClientHello, ClientKeyExchange, ShortHandshake, ClientFinished,
     ClientChangeCipher, ClientApplication, ClientOther, Handling
<1>2. PICK i \in ConnIndex : i = running.index /\ conns[i] \in Connection /\ conns[i].id \in Clients
  BY <1>1, WhatIsHandled
<1>3. PICK c \in Clients : c = conns[i].id
  BY <1>2
<1>4. conns \in [ConnIndex -> Connection]
  BY DEF TlsInv, ServerTypes
<1>5. ASSUME NEW q, conns' = [conns EXCEPT ![i] = q],
             \/ q.toDo # "SEND_ALERT_ILLEGAL_PARAMETER"
             \/ q.toDo = conns[i].toDo /\ q.id = c
             \/ q.id = c /\ Phase(c) # "open"
             \/ q.id = c /\ Lost(peer[c].session)
      PROVE  AlertInv'
  <2>1. conns'[i] = q /\ \A j \in ConnIndex \ {i} : conns'[j] = conns[j]
    BY <1>4, <1>5
  <2>2. ASSUME NEW j \in ConnIndex
        PROVE  \/ conns'[j].toDo # "SEND_ALERT_ILLEGAL_PARAMETER"
               \/ conns'[j].toDo = conns[j].toDo /\ conns'[j].id = conns[j].id
               \/ Phase(conns'[j].id) # "open"
               \/ Lost(peer[conns'[j].id].session)
    BY <1>3, <1>5, <2>1
  <2> QED
    BY <1>1, <2>2, QuietAlerts
<1>6. ASSUME Record.type \in HandshakeTypes
      PROVE  Hashed \in Connection /\ Hashed.id = c /\ Hashed.toDo = conns[i].toDo
             /\ Hashed.sessionId = conns[i].sessionId
  BY <1>1, <1>2, <1>3, <1>6, HashedIs
<1>7. PICK p \in Connection : p = conns[i] /\ p.id = c
  BY <1>2, <1>3
<1>8. CASE Defer
  <2>1. PICK r : r = Head(running.records)
    OBVIOUS
  <2>2. conns' = [conns EXCEPT ![i] = [p EXCEPT !.deferred = r]]
    BY <1>2, <1>4, <1>7, <1>8, <2>1 DEF Defer
  <2>3. [p EXCEPT !.deferred = r].toDo = p.toDo /\ [p EXCEPT !.deferred = r].id = c
    BY <1>7 DEF Connection
  <2> QED
    BY <1>5, <1>7, <2>2, <2>3
<1>9. ASSUME NEW tick, ClientHello(tick) PROVE AlertInv'
  <2>1. PICK h \in Connection : h = Hashed
    BY <1>6, <1>9 DEF ClientHello, Handling, HandshakeTypes
  <2>2. \E s, resume, todo :
          /\ conns' = [conns EXCEPT ![i] =
                         [h EXCEPT !.sessionId = s, !.resume = resume, !.toDo = todo]]
          /\ todo \in {"SEND_SERVER_HELLO_RESUME", "SEND_SERVER_HELLO_NEW"}
    BY <1>2, <1>9, <2>1 DEF ClientHello, SetConn
  <2>3. PICK s, resume, todo :
          /\ conns' = [conns EXCEPT ![i] =
                         [h EXCEPT !.sessionId = s, !.resume = resume, !.toDo = todo]]
          /\ todo \in {"SEND_SERVER_HELLO_RESUME", "SEND_SERVER_HELLO_NEW"}
    BY <2>2
  <2>4. [h EXCEPT !.sessionId = s, !.resume = resume, !.toDo = todo].toDo = todo
    BY DEF Connection
  <2> QED
    BY <1>5, <2>3, <2>4
<1>10. CASE ClientKeyExchange \/ ShortHandshake
  <2>1. Record.type \in HandshakeTypes /\ Phase(c) # "open"
    BY <1>1, <1>2, <1>3, <1>10, RecordKinds DEF ClientKeyExchange, ShortHandshake, Handling, HandshakeTypes
  <2>2. PICK h \in Connection : h = Hashed /\ h.id = c
    BY <1>6, <2>1
  <2>3. \/ conns' = [conns EXCEPT ![i] = [h EXCEPT !.toDo = "SEND_ALERT_ILLEGAL_PARAMETER"]]
        \/ \E s : conns' = [conns EXCEPT ![i] = [h EXCEPT !.slot = s, !.toDo = "WAIT_DECRYPT_MASTER_SECRET"]]
    BY <1>2, <1>10, <2>2 DEF ClientKeyExchange, ShortHandshake, SetConn, Decrypting, Refuse
  <2>4. /\ [h EXCEPT !.toDo = "SEND_ALERT_ILLEGAL_PARAMETER"].id = c
        /\ \A s : [h EXCEPT !.slot = s, !.toDo = "WAIT_DECRYPT_MASTER_SECRET"].toDo
                    = "WAIT_DECRYPT_MASTER_SECRET"
    BY <2>2 DEF Connection
  <2> QED
    BY <1>5, <2>1, <2>3, <2>4
<1>11. CASE ClientFinished
  <2>1. PICK h \in Connection : h = Hashed /\ h.id = c /\ h.toDo = conns[i].toDo
                                /\ h.sessionId = conns[i].sessionId
    BY <1>6, <1>11 DEF ClientFinished, Handling, HandshakeTypes
  <2>2. \/ conns' = [conns EXCEPT ![i] = h]
        \/ /\ SessionsOf(h.sessionId) = {}
           /\ conns' = [conns EXCEPT ![i] = [h EXCEPT !.toDo = "SEND_ALERT_ILLEGAL_PARAMETER"]]
        \/ \E todo \in {"APPLICATION", "SEND_SERVER_CHANGE"} :
             conns' = [conns EXCEPT ![i] = [h EXCEPT !.toDo = todo]]
    BY <1>2, <1>11, <2>1 DEF ClientFinished, SetConn
  <2>3. \A todo : [h EXCEPT !.toDo = todo].id = c /\ [h EXCEPT !.toDo = todo].toDo = todo
    BY <2>1 DEF Connection
  <2>4. SessionsOf(h.sessionId) = {} => Phase(c) # "open" \/ Lost(peer[c].session)
    <3> SUFFICES ASSUME SessionsOf(h.sessionId) = {}, Phase(c) = "open"
                 PROVE  Lost(peer[c].session)
      OBVIOUS
    <3>1. PICK q : q = Handled(i)
      OBVIOUS
    <3>2. EntryIsRight(c, conns[i], q)
      BY <1>1, <1>2, <1>3, <3>1, WhatIsHandled
    <3>3. Opened(c, conns[i], q)
      BY <3>2 DEF EntryIsRight, Fresh, Astray, NewDue, NewAnswered, ResumeDue, ResumeAnswered, Waits,
         Refused, ChangeDue, ChangeAnswered, Opened
    <3>4. h.sessionId = peer[c].session /\ peer[c].session \in Clients
      BY <2>1, <3>3 DEF Opened, TlsInv, ClientIsRight, ClientTypes, Peer
    <3> QED
      BY <3>4, NoEntryNoSession, OpenLoses
  <2> QED
    BY <1>5, <2>1, <2>2, <2>3, <2>4
<1>12. CASE ClientChangeCipher
  <2>1. conns' = [conns EXCEPT ![i] = [p EXCEPT !.clientEncrypted = TRUE]]
    BY <1>2, <1>7, <1>12 DEF ClientChangeCipher, SetConn
  <2>2. [p EXCEPT !.clientEncrypted = TRUE].toDo = p.toDo /\ [p EXCEPT !.clientEncrypted = TRUE].id = c
    BY <1>7 DEF Connection
  <2> QED
    BY <1>5, <1>7, <2>1, <2>2
<1>13. CASE ClientApplication \/ ClientOther
  <2>1. \/ conns' = [conns EXCEPT ![i] = p]
        \/ \E todo \in {"APPLICATION", "WAIT_CLIENT_HELLO"} :
             conns' = [conns EXCEPT ![i] = [p EXCEPT !.toDo = todo]]
    BY <1>2, <1>7, <1>13 DEF ClientApplication, ClientOther, SetConn
  <2>2. \A todo : [p EXCEPT !.toDo = todo].toDo = todo
    BY DEF Connection
  <2> QED
    BY <1>5, <1>7, <2>1, <2>2
<1> QED
  BY <1>8, <1>9, <1>10, <1>11, <1>12, <1>13 DEF Handle, HandleContent

LEMMA OtherAlerts ==
  ASSUME TlsInv, Next, AlertInv, Collecting \/ Decrypted
  PROVE  AlertInv'
<1>1. /\ UNCHANGED <<peer, out>>
      /\ conns' = conns \/ \E n, k : conns' = [conns EXCEPT ![n].keys = k]
  BY DEF Collecting, Decrypted, TlsRequestMain, Collect, CryptoMain, clientVars
<1>2. conns \in [ConnIndex -> Connection]
  BY DEF TlsInv, ServerTypes
<1>3. ASSUME NEW i \in ConnIndex
      PROVE  conns'[i].toDo = conns[i].toDo /\ conns'[i].id = conns[i].id
  <2>1. PICK p \in Connection : p = conns[i]
    BY <1>2
  <2>2. conns'[i] = p \/ \E k : conns'[i] = [p EXCEPT !.keys = k]
    BY <1>1, <1>2, <2>1
  <2>3. \A k : [p EXCEPT !.keys = k].toDo = p.toDo /\ [p EXCEPT !.keys = k].id = p.id
    BY DEF Connection
  <2> QED
    BY <2>1, <2>2, <2>3
<1> QED
  BY <1>1, <1>3, QuietAlerts

LEMMA DeliverAlerts ==
  ASSUME TlsInv, Next, AlertInv, NEW c \in Clients, NEW n, NEW tick, Deliver(c, n, tick)
  PROVE  AlertInv'
<1>1. /\ UNCHANGED <<peer, out>>
      /\ conns' = conns \/ \E i : conns' = [conns EXCEPT ![i] = [Zero(conns[i]) EXCEPT !.id = c]]
  BY DEF Deliver, TlsRequest
<1>2. conns \in [ConnIndex -> Connection]
  BY DEF TlsInv, ServerTypes
<1>3. ASSUME NEW i \in ConnIndex
      PROVE  conns'[i] = conns[i] \/ conns'[i].toDo # "SEND_ALERT_ILLEGAL_PARAMETER"
  <2>1. PICK p \in Connection : p = Zero(conns[i]) /\ p.toDo = "WAIT_CLIENT_HELLO"
    BY <1>2, ZeroIs
  <2>2. [p EXCEPT !.id = c].toDo = "WAIT_CLIENT_HELLO"
    BY <2>1 DEF Connection
  <2> QED
    BY <1>1, <1>2, <2>1, <2>2
<1> QED
  BY <1>1, <1>3, QuietAlerts

\* A client in a handshake is sent the alert of an open one only after the
\* server's Finished.
LEMMA PollAlerts ==
  ASSUME TlsInv, Next, AlertInv, NEW c \in Clients, NEW tick, Poll(c, tick)
  PROVE  AlertInv'
<1>1. Idle /\ IsOpen(c) /\ UNCHANGED clientVars /\ TlsResponse(c, ClientFinishedSending(c), tick)
  BY DEF Poll, TlsResponse
<1>2. /\ peer' = peer /\ out \in [Clients -> Seq(Flights)] /\ conns \in [ConnIndex -> Connection]
      /\ out[c] \in Seq(Flights)
  BY <1>1 DEF clientVars, TlsInv, ServerTypes
<1>3. \A j \in 1 .. Len(out[c]) : out[c][j] # Alert
  <2>1. FlightsOf(c)
    BY DEF TlsInv
  <2>2. \A a, b, d :
          /\ Alert # FinishedFlight("helloResume", a, b, d)
          /\ Alert # FinishedFlight("change", a, b, d)
          /\ Alert # Content(a, b, d) /\ Alert # HelloNew
    <3>1. Alert.kind = "alert" /\ HelloNew.kind = "helloNew"
      BY DEF Alert, HelloNew
    <3>2. \A k, a, b, d : FinishedFlight(k, a, b, d).kind = k /\ Content(a, b, d).kind = "content"
      BY DEF FinishedFlight, Content
    <3> QED
      BY <3>1, <3>2
  <2> QED
    BY <1>1, <2>1, <2>2 DEF FlightsOf, FlightIsRight, ResumeFlight, ChangeFlight, IsOpen
<1>4. CASE UNCHANGED <<conns, out>>
  BY <1>2, <1>4, QuietAlerts
<1>5. ASSUME NEW q, NEW fs, NEW last, Answer(c, tick, q, fs, last),
             q.toDo # "SEND_ALERT_ILLEGAL_PARAMETER",
             \/ fs = <<>> 
             \/ \E f \in Flights : fs = <<f>> /\ (f = Alert => SendAlert(c, tick))
      PROVE  AlertInv'
  <2>1. conns' = [conns EXCEPT ![First(EntriesOf(conns, c))] = q] /\ out' = [out EXCEPT ![c] = @ \o fs]
    BY <1>5 DEF Answer
  <2>2. ASSUME NEW i \in ConnIndex PROVE EndingOf(i)'
    <3>1. IsEnding(i)' => IsEnding(i) /\ conns'[i].id = conns[i].id
      BY <1>2, <1>5, <2>1 DEF IsEnding, Phase
    <3>2. ASSUME IsEnding(i)'
          PROVE  /\ peer'[conns'[i].id] = peer[conns'[i].id]
                 /\ Lost(peer[conns'[i].id].session) \/ (IsEnding(i) /\ conns'[i].id = conns[i].id)
      BY <1>2, <3>1, <3>2
    <3> QED
      BY <3>2, EndingStays
  <2>3. ASSUME NEW d \in Clients \ {c} PROVE AlertsOf(d)'
    BY <1>2, <2>1, AlertsStay
  <2>4. AlertsOf(c)'
    <3>1. CASE fs = <<>>
      <4>1. out'[c] = out[c]
        <5>1. out[c] \o <<>> = out[c]
          BY <1>2
        <5> QED
          BY <1>2, <2>1, <3>1, <5>1
      <4> QED
        BY <1>2, <4>1, AlertsStay
    <3>2. CASE \E f \in Flights : fs = <<f>> /\ (f = Alert => SendAlert(c, tick))
      <4>1. PICK f \in Flights : fs = <<f>> /\ (f = Alert => SendAlert(c, tick))
        BY <3>2
      <4>2. PICK m \in Nat : m = Len(out[c])
        BY <1>2
      <4>3. PICK o : o = out'[c] /\ Len(o) = m + 1 /\ (\A j \in 1 .. m : o[j] = out[c][j]) /\ o[m + 1] = f
        <5>1. out'[c] = out[c] \o <<f>>
          BY <1>2, <2>1, <4>1
        <5> QED
          BY <1>2, <4>2, <5>1, OneMore
      <4>4. ASSUME NEW j \in 1 .. Len(o), EndsOpen(c, j)'
            PROVE  j = m + 1 /\ SendAlert(c, tick) /\ (Phase(c) = "open" \/ (m > 0 /\ out[c][1] # HelloNew))
        <5>1. o[j] = Alert /\ (Phase(c) = "open" \/ (j > 1 /\ o[1] # HelloNew))
          BY <1>2, <4>3, <4>4 DEF EndsOpen, Phase
        <5>2. j \in 1 .. m \/ j = m + 1
          BY <4>3
        <5>3. j = m + 1 /\ f = Alert
          BY <1>3, <4>2, <4>3, <5>1, <5>2
        <5>4. j > 1 => m > 0 /\ o[1] = out[c][1]
          BY <4>3, <5>3
        <5> QED
          BY <4>1, <5>1, <5>3, <5>4
      <4>5. ASSUME SendAlert(c, tick), Phase(c) = "open" \/ (Len(out[c]) > 0 /\ out[c][1] # HelloNew)
            PROVE  Lost(peer[c].session)
        <5>1. PICK i \in ConnIndex :
                /\ i = First(EntriesOf(conns, c)) /\ conns[i].id = c /\ conns[i] \in Connection
                /\ conns[i].sessionId \in Clients
                /\ EntryIsRight(c, conns[i], Handled(i))
                /\ Phase(c) \in {"hello", "keyed", "careless", "open"}
          BY <1>1, <4>5, WhoIsPolled DEF SendAlert
        <5>2. PICK k : k = Handled(i)
          OBVIOUS
        <5>3. PICK p \in Connection : p = conns[i]
          BY <5>1
        <5>4. Polled(c).toDo \in {"SEND_ALERT_ILLEGAL_PARAMETER", "SEND_ALERT_INTERNAL_ERROR"}
          BY <4>5 DEF SendAlert
        <5>5. out[c] # <<>> \/ Phase(c) = "open"
          BY <4>5
        <5>6. \/ Opened(c, p, k) \/ ResumeAnswered(c, p, k) \/ ChangeAnswered(c, p, k)
              \/ out[c] = <<HelloNew>> /\ Phase(c) # "open"
          BY <5>1, <5>2, <5>3, <5>5 DEF EntryIsRight, Fresh, Astray, NewDue, NewAnswered, ResumeDue,
             ResumeAnswered, Waits, Refused, ChangeDue, ChangeAnswered, Opened
        <5>7. out[c] # <<HelloNew>> \/ Phase(c) = "open"
          BY <4>5
        <5>8. /\ p.sessionId = peer[c].session
              /\ Phase(c) = "open" \/ Phase(c) = "keyed" \/ (Phase(c) = "hello" /\ peer[c].session # None)
              /\ Phase(c) = "open" \/ p.toDo \in {"WAIT_CLIENT_CHANGE", "APPLICATION"}
          BY <5>6, <5>7 DEF Opened, ResumeAnswered, ChangeAnswered, TlsInv, ClientIsRight
        <5>9. CASE SessionsOf(p.sessionId) = {}
          <6>1. NoSessionOf(p.sessionId)
            BY <5>1, <5>3, <5>9, NoEntryNoSession
          <6> QED
            BY <5>8, <6>1, OpenLoses
        <5>10. CASE SessionsOf(p.sessionId) # {}
          <6>1. Polled(c) = p
            BY <5>1, <5>3, <5>10 DEF Polled
          <6>2. p.toDo = "SEND_ALERT_ILLEGAL_PARAMETER" /\ Phase(c) = "open"
            BY <5>1, <5>2, <5>3, <5>4, <5>8, <6>1, WhatIsDue, Sizes DEF Opened
          <6> QED
            BY <5>1, <5>3, <6>2 DEF AlertInv, EndingOf, IsEnding
        <5> QED
          BY <5>9, <5>10
      <4>6. ASSUME NEW j \in 1 .. Len(o), EndsOpen(c, j)' PROVE Lost(peer[c].session)
        BY <4>2, <4>4, <4>5, <4>6
      <4>7. Phase(c)' # "unread"
        BY <1>1, <1>2 DEF IsOpen, TlsInv, ClientIsRight, Phase
      <4> QED
        BY <1>2, <4>3, <4>6, <4>7, LostStays DEF AlertsOf
    <3> QED
      BY <1>5, <3>1, <3>2
  <2> QED
    BY <2>2, <2>3, <2>4 DEF AlertInv
<1>6. CASE RespondEmpty(c, ClientFinishedSending(c), tick)
  BY <1>4, <1>6 DEF RespondEmpty
<1>7. CASE HasSession(c)
  <2>1. PICK p \in Connection : p = Polled(c)
    BY <1>1, <1>7, WhoIsPolled, PolledIs
  <2>2. \A m, h, todo, k :
          /\ [p EXCEPT !.toDo = todo].toDo = todo
          /\ [p EXCEPT !.serverSequence = m, !.toDo = todo].toDo = todo
          /\ [p EXCEPT !.handshakeSha = h, !.serverSequence = m, !.toDo = todo].toDo = todo
    BY DEF Connection
  <2>3. CASE RespondWaiting(c, ClientFinishedSending(c), tick)
    BY <1>5, <2>1, <2>3 DEF RespondWaiting
  <2>4. CASE RespondNoContent(c, ClientFinishedSending(c), tick)
    BY <1>5, <2>1, <2>2, <2>4 DEF RespondNoContent
  <2>5. HelloNew \in Flights /\ Alert \in Flights
    BY DEF Flights
  <2>8. ASSUME NEW q, NEW f, NEW last, Answer(c, tick, q, <<f>>, last),
               q.toDo # "SEND_ALERT_ILLEGAL_PARAMETER", f # Alert
        PROVE  AlertInv'
    <3>1. f \in Flights
      <4>1. out'[c] = out[c] \o <<f>>
        BY <1>2, <2>8 DEF Answer
      <4>2. out'[c] \in Seq(Flights)
        BY PollStep DEF TlsInv, ServerTypes
      <4>3. (out[c] \o <<f>>)[Len(out[c]) + 1] = f /\ Len(out[c]) + 1 \in 1 .. Len(out[c] \o <<f>>)
        BY <1>2
      <4>4. \A s \in Seq(Flights) : \A n \in 1 .. Len(s) : s[n] \in Flights
        OBVIOUS
      <4> QED
        BY <4>1, <4>2, <4>3, <4>4
    <3> QED
      BY <1>5, <2>8, <3>1
  <2>6. CASE SendServerHelloNew(c, tick)
    <3>1. PICK m, h :
            Answer(c, tick,
                   [p EXCEPT !.handshakeSha = h, !.serverSequence = m, !.toDo = "WAIT_CLIENT_CHANGE"],
                   <<HelloNew>>, FALSE)
      BY <2>1, <2>6 DEF SendServerHelloNew
    <3>2. HelloNew # Alert
      BY DEF HelloNew, Alert
    <3>3. [p EXCEPT !.handshakeSha = h, !.serverSequence = m, !.toDo = "WAIT_CLIENT_CHANGE"].toDo
            # "SEND_ALERT_ILLEGAL_PARAMETER"
      BY <2>2
    <3> QED
      BY <2>8, <3>1, <3>2, <3>3
  <2>7. CASE SendAlert(c, tick)
    <3>1. PICK m :
            Answer(c, tick, [p EXCEPT !.serverSequence = m, !.toDo = "WAIT_CLIENT_HELLO"],
                   <<Alert>>, TRUE)
      BY <2>1, <2>7 DEF SendAlert
    <3>2. [p EXCEPT !.serverSequence = m, !.toDo = "WAIT_CLIENT_HELLO"].toDo
            # "SEND_ALERT_ILLEGAL_PARAMETER"
      BY <2>2
    <3>3. \E f \in Flights : <<Alert>> = <<f>> /\ (f = Alert => SendAlert(c, tick))
      BY <2>5, <2>7
    <3> QED
      BY <1>5, <3>1, <3>2, <3>3
  <2>9. \A k, a, b, d : FinishedFlight(k, a, b, d) # Alert \/ k = "alert"
    <3>1. \A k, a, b, d : FinishedFlight(k, a, b, d).kind = k
      BY DEF FinishedFlight
    <3>2. Alert.kind = "alert"
      BY DEF Alert
    <3> QED
      BY <3>1, <3>2
  <2>11. CASE SendServerHelloResume(c, tick)
    <3>1. PICK r, k : /\ r = [p EXCEPT !.handshakeSha = Append(@, ServerHello)]
                      /\ Answer(c, tick, [Changed(r, k) EXCEPT !.toDo = "WAIT_CLIENT_CHANGE"],
                                <<FinishedFlight("helloResume", k, 0, r.handshakeSha)>>, FALSE)
      BY <2>1, <2>11 DEF SendServerHelloResume
    <3>2. [Changed(r, k) EXCEPT !.toDo = "WAIT_CLIENT_CHANGE"].toDo # "SEND_ALERT_ILLEGAL_PARAMETER"
      BY <3>1 DEF Changed, Connection
    <3> QED
      BY <2>8, <2>9, <3>1, <3>2
  <2>12. CASE SendServerChange(c, tick)
    <3>1. PICK k, h : Answer(c, tick, [Changed(p, k) EXCEPT !.toDo = "APPLICATION"],
                             <<FinishedFlight("change", k, 0, h)>>, FALSE)
      BY <2>1, <2>12 DEF SendServerChange
    <3>2. [Changed(p, k) EXCEPT !.toDo = "APPLICATION"].toDo # "SEND_ALERT_ILLEGAL_PARAMETER"
      BY DEF Changed, Connection
    <3> QED
      BY <2>8, <2>9, <3>1, <3>2
  <2>13. ASSUME NEW last \in BOOLEAN, SendContent(c, tick, last) PROVE AlertInv'
    <3>1. PICK m, k, n :
            Answer(c, tick,
                   [p EXCEPT !.serverSequence = m,
                             !.toDo = IF last THEN "WAIT_CLIENT_HELLO" ELSE "APPLICATION"],
                   <<Content(k, n, last)>>, last)
      BY <2>1, <2>13 DEF SendContent, Connection
    <3>2. [p EXCEPT !.serverSequence = m, !.toDo = IF last THEN "WAIT_CLIENT_HELLO" ELSE "APPLICATION"].toDo
             # "SEND_ALERT_ILLEGAL_PARAMETER"
      BY DEF Connection
    <3>3. Content(k, n, last).kind = "content" /\ Alert.kind = "alert"
      BY DEF Content, Alert
    <3> QED
      BY <2>8, <3>1, <3>2, <3>3
  <2> QED
    BY <1>1, <1>4, <2>3, <2>4, <2>6, <2>7, <2>11, <2>12, <2>13 DEF TlsResponse, RespondEmpty
<1>8. CASE ~ HasSession(c)
  BY <1>1, <1>6, <1>8 DEF TlsResponse, RespondWaiting, SendServerHelloNew, SendServerHelloResume,
     SendServerChange, RespondNoContent, SendContent, SendAlert
<1> QED
  BY <1>7, <1>8

LEMMA BeginAlerts ==
  ASSUME TlsInv, Next, AlertInv, NEW c \in Clients, NEW s, Connect(c, s) \/ ConnectBadly(c)
  PROVE  AlertInv'
<1>1. /\ Phase(c) = "new" /\ UNCHANGED <<conns, out>> /\ out[c] = <<>>
      /\ \A d \in Clients \ {c} : peer'[d] = peer[d]
      /\ Phase(c)' \in {"hello", "astray"}
  BY DEF Connect, ConnectBadly, serverVars, TlsInv, ClientTypes, ClientIsRight, Phase, Peer
<1>2. AlertsOf(c)'
  BY <1>1 DEF AlertsOf
<1>3. ASSUME NEW d \in Clients \ {c} PROVE AlertsOf(d)'
  BY <1>1, AlertsStay
<1>4. ASSUME NEW i \in ConnIndex PROVE EndingOf(i)'
  <2>1. ASSUME IsEnding(i)'
        PROVE  /\ peer'[conns'[i].id] = peer[conns'[i].id]
               /\ Lost(peer[conns'[i].id].session) \/ (IsEnding(i) /\ conns'[i].id = conns[i].id)
    BY <1>1, <2>1 DEF IsEnding, Phase
  <2> QED
    BY <2>1, EndingStays
<1> QED
  BY <1>2, <1>3, <1>4 DEF AlertInv

LEMMA DisconnectAlerts ==
  ASSUME TlsInv, Next, AlertInv, NEW c \in Clients, Disconnect(c)
  PROVE  AlertInv'
<1>1. /\ conns \in [ConnIndex -> Connection] /\ out \in [Clients -> Seq(Flights)]
      /\ peer \in [Clients -> Peer]
  BY DEF TlsInv, ServerTypes, ClientTypes
<1>2. /\ conns' = [i \in ConnIndex |-> IF conns[i].id = c THEN Zero(conns[i]) ELSE conns[i]]
      /\ out'[c] = <<>> /\ \A d \in Clients \ {c} : out'[d] = out[d] /\ peer'[d] = peer[d]
      /\ Phase(c)' \in {"done", "gone"}
  BY <1>1 DEF Disconnect, TlsReset, Phase, Peer
<1>3. AlertsOf(c)'
  BY <1>2 DEF AlertsOf
<1>4. ASSUME NEW d \in Clients \ {c} PROVE AlertsOf(d)'
  BY <1>2, AlertsStay
<1>5. ASSUME NEW i \in ConnIndex PROVE EndingOf(i)'
  <2>1. conns'[i] = conns[i] \/ conns'[i].toDo = "WAIT_CLIENT_HELLO"
    BY <1>1, <1>2, ZeroIs
  <2>2. ASSUME IsEnding(i)'
        PROVE  /\ peer'[conns'[i].id] = peer[conns'[i].id]
               /\ Lost(peer[conns'[i].id].session) \/ (IsEnding(i) /\ conns'[i].id = conns[i].id)
    BY <1>2, <2>1, <2>2 DEF IsEnding, Phase
  <2> QED
    BY <2>2, EndingStays
<1> QED
  BY <1>3, <1>4, <1>5 DEF AlertInv

\* What a client reads takes it on, or ends it with an alert.
LEMMA WhatReadingDoes ==
  ASSUME TlsInv, NEW c \in Clients, Read(c)
  PROVE  \/ /\ Phase(c) = "hello" /\ out[c][1] = HelloNew /\ Phase(c)' \in {"keyed", "careless"}
         \/ /\ out[c][1] # HelloNew /\ peer'[c].session = peer[c].session
            /\ \/ Phase(c) \in {"hello", "keyed"} /\ Phase(c)' = "open"
               \/ Phase(c) = "open" /\ Phase(c)' \in {"open", "done"}
               \/ out[c][1] = Alert /\ Phase(c)' = "alerted"
               \/ out[c][1] = Alert /\ Phase(c)' = "unread" /\ Phase(c) = "open"
<1>1. PICK f : f = Head(out[c])
  OBVIOUS
<1>2. /\ peer \in [Clients -> Peer] /\ out[c] # <<>>
      /\ Phase(c) = "keyed" => peer[c].session = c
  BY DEF Read, TlsInv, ClientTypes, ClientIsRight
<1>3. ASSUME NEW phase, NEW t, NEW r, Becomes(c, phase, t, r)
      PROVE  Phase(c)' = phase /\ peer'[c].session = t
  BY <1>2, <1>3 DEF Becomes, Phase, Peer
<1>4. /\ f = out[c][1]
      /\ f.kind = "helloNew" => f = HelloNew /\ Phase(c) = "hello"
      /\ f.kind = "helloResume" =>
           f = ResumeFlight(c) /\ Phase(c) = "hello" /\ peer[c].session # None
      /\ f.kind = "change" => f = ChangeFlight(c) /\ Phase(c) = "keyed"
      /\ f.kind = "content" =>
           /\ Phase(c) = "open"
           /\ \E last \in BOOLEAN : f = Content(Keys(peer[c].session, c), peer[c].contents + 1, last)
      /\ f.kind = "alert" => f = Alert
  BY <1>1, <1>2, FlightKinds
<1>5. f.kind # "helloNew" => f # HelloNew
  BY DEF HelloNew
<1>6. CASE ReadHelloNew(c, f)
  BY <1>3, <1>4, <1>6 DEF ReadHelloNew
<1>7. CASE ReadHelloResume(c, f)
  <2>1. Verifies(ResumeFlight(c), Keys(peer[c].session, c), <<"hello", ServerHello>>)
    BY DEF Verifies, ResumeFlight, FinishedFlight, AfterHello
  <2>2. Phase(c)' = "open" /\ peer'[c].session = peer[c].session
    BY <1>3, <1>4, <1>7, <2>1 DEF ReadHelloResume
  <2> QED
    BY <1>4, <1>5, <1>7, <2>2 DEF ReadHelloResume
<1>8. CASE ReadChange(c, f)
  <2>1. Verifies(ChangeFlight(c), Keys(c, c), <<"hello", ServerHello, "keyExchange", "finished">>)
    BY DEF Verifies, ChangeFlight, FinishedFlight, AfterFinished
  <2>2. Phase(c)' = "open" /\ peer'[c].session = peer[c].session
    BY <1>2, <1>3, <1>4, <1>8, <2>1 DEF ReadChange
  <2> QED
    BY <1>4, <1>5, <1>8, <2>2 DEF ReadChange
<1>9. CASE ReadContent(c, f)
  <2>1. f.keys = Keys(peer[c].session, c) /\ f.sequence = peer[c].contents + 1 /\ Phase(c) = "open"
    <3>1. PICK last : f = Content(Keys(peer[c].session, c), peer[c].contents + 1, last)
      BY <1>4, <1>9 DEF ReadContent
    <3> QED
      BY <1>4, <1>9, <3>1 DEF ReadContent, Content
  <2>2. peer' = [peer EXCEPT ![c].phase = IF f.last THEN "done" ELSE @, ![c].contents = @ + 1]
    BY <1>9, <2>1 DEF ReadContent
  <2>3. Phase(c)' \in {"open", "done"} /\ peer'[c].session = peer[c].session
    BY <1>2, <2>1, <2>2 DEF Phase, Peer
  <2> QED
    BY <1>4, <1>5, <1>9, <2>1, <2>3 DEF ReadContent
<1>10. CASE ReadAlert(c, f)
  <2>1. f = Alert /\ f.keys = NoKeys /\ f # HelloNew
    BY <1>4, <1>5, <1>10 DEF ReadAlert, Alert
  <2>2. PICK phase : Becomes(c, phase, peer[c].session, <<>>)
                     /\ (phase = "alerted" \/ (phase = "unread" /\ Phase(c) = "open"))
    BY <1>10, <2>1 DEF ReadAlert, IsReadable
  <2>3. Phase(c)' = phase /\ peer'[c].session = peer[c].session
    BY <1>3, <2>2
  <2> QED
    BY <1>4, <2>1, <2>2, <2>3
<1> QED
  BY <1>1, <1>6, <1>7, <1>8, <1>9, <1>10 DEF Read

LEMMA ReadAlerts ==
  ASSUME TlsInv, Next, AlertInv, NEW c \in Clients, Read(c)
  PROVE  AlertInv'
<1> DEFINE o == Tail(out[c])
           s == peer[c].session
<1>1. /\ UNCHANGED conns /\ out[c] # <<>> /\ out \in [Clients -> Seq(Flights)]
      /\ peer \in [Clients -> Peer] /\ out' = [out EXCEPT ![c] = o]
  BY DEF Read, TlsInv, ServerTypes, ClientTypes
<1>2. /\ Len(o) = Len(out[c]) - 1 /\ Len(out[c]) \in Nat \ {0}
      /\ \A j \in 1 .. Len(o) : o[j] = out[c][j + 1]
  BY <1>1, FirstFlight
<1>3. out'[c] = o
  BY <1>1
<1>4. \A d \in Clients \ {c} : peer'[d] = peer[d] /\ out'[d] = out[d]
  BY <1>1 DEF Read, ReadHelloNew, ReadHelloResume, ReadChange, ReadContent, ReadAlert, Becomes
<1> HIDE DEF o
<1>5. AlertsOf(c)'
  <2>1. CASE Phase(c) = "hello" /\ out[c][1] = HelloNew /\ Phase(c)' \in {"keyed", "careless"}
    <3>1. ASSUME NEW j \in 1 .. Len(o) PROVE j = 1
      <4>1. \A n \in 1 .. Len(o) : n = Len(o)
        BY <1>1, <2>1, AlertsOnly DEF o
      <4>2. PICK m \in Int : m = Len(o)
        BY <1>2
      <4> QED
        BY <3>1, <4>1, <4>2
    <3> QED
      BY <1>3, <2>1, <3>1 DEF AlertsOf, EndsOpen
  <2>2. ASSUME out[c][1] # HelloNew, Phase(c) = "open" \/ Phase(c)' = "open", peer'[c].session = s,
               Phase(c)' \in {"open", "done", "unread"},
               Phase(c)' = "unread" => Phase(c) = "open" /\ out[c][1] = Alert
        PROVE  AlertsOf(c)'
    <3>1. ASSUME NEW j \in 1 .. Len(o), o[j] = Alert PROVE Lost(s)
      <4>1. j + 1 \in 1 .. Len(out[c]) /\ out[c][j + 1] = Alert /\ j + 1 > 1
        BY <1>2, <3>1
      <4>2. EndsOpen(c, j + 1)
        BY <2>2, <4>1 DEF EndsOpen
      <4> QED
        BY <4>1, <4>2 DEF AlertInv, AlertsOf, s
    <3>2. Phase(c)' = "unread" => Lost(s)
      <4>1. 1 \in 1 .. Len(out[c])
        BY <1>2
      <4> QED
        BY <2>2, <4>1 DEF AlertInv, AlertsOf, EndsOpen
    <3> QED
      BY <1>3, <2>2, <3>1, <3>2, LostStays DEF AlertsOf, EndsOpen
  <2>3. CASE out[c][1] = Alert /\ Phase(c)' = "alerted"
    <3>1. FlightIsRight(c, 1)
      BY <1>1, FirstFlight
    <3>2. Len(out[c]) = 1
      <4>1. Alert.kind = "alert" /\ HelloNew.kind = "helloNew"
            /\ \A k, a, b, d : FinishedFlight(k, a, b, d).kind = k /\ Content(a, b, d).kind = "content"
        BY DEF Alert, HelloNew, FinishedFlight, Content
      <4> QED
        BY <2>3, <3>1, <4>1 DEF FlightIsRight, ResumeFlight, ChangeFlight
    <3>3. 1 .. Len(o) = {}
      BY <1>2, <3>2
    <3> QED
      BY <1>3, <2>3, <3>3 DEF AlertsOf
  <2> QED
    BY <2>1, <2>2, <2>3, WhatReadingDoes
<1>6. ASSUME NEW d \in Clients \ {c} PROVE AlertsOf(d)'
  BY <1>4, AlertsStay
<1>7. ASSUME NEW i \in ConnIndex PROVE EndingOf(i)'
  <2>1. ASSUME IsEnding(i)', conns[i].id # c PROVE EndingOf(i)'
    <3>1. conns'[i].id = conns[i].id /\ peer'[conns[i].id] = peer[conns[i].id] /\ IsEnding(i)
      BY <1>1, <1>4, <2>1 DEF IsEnding, Phase
    <3> QED
      BY <1>1, <3>1, EndingStays
  <2>2. ASSUME IsEnding(i)', conns[i].id = c PROVE EndingOf(i)'
    <3>1. Phase(c)' = "open" /\ conns[i].toDo = "SEND_ALERT_ILLEGAL_PARAMETER"
      BY <1>1, <2>2 DEF IsEnding
    <3>2. Phase(c) \in {"hello", "keyed", "open"} /\ peer'[c].session = s
      BY <3>1, WhatReadingDoes
    <3>3. PICK q : q = Handled(i)
      OBVIOUS
    <3>4. EntryIsRight(c, conns[i], q)
      BY <2>2, <3>1, <3>2, <3>3, Sizes DEF TlsInv, EntryOf
    <3>5. Phase(c) = "open"
      BY <1>1, <3>1, <3>2, <3>4 DEF EntryIsRight, Fresh, Astray, NewDue, NewAnswered, ResumeDue,
         ResumeAnswered, Waits, Refused, ChangeDue, ChangeAnswered, Opened
    <3>6. Lost(s)
      BY <2>2, <3>1, <3>5 DEF AlertInv, EndingOf, IsEnding
    <3> QED
      BY <1>1, <2>2, <3>2, <3>6, LostStays DEF EndingOf
  <2> QED
    BY <2>1, <2>2 DEF EndingOf
<1> QED
  BY <1>5, <1>6, <1>7 DEF AlertInv

\* Every step keeps it.
LEMMA AlertStep ==
  ASSUME TlsInv, AlertInv, [Next]_vars
  PROVE  AlertInv'
<1>1. CASE UNCHANGED vars
  BY <1>1 DEF vars, serverVars, clientVars, AlertInv, AlertsOf, EndingOf, IsEnding, EndsOpen, Lost,
     NoSessionOf, Phase
<1>2. CASE Next
  BY <1>2, BeginAlerts, ReadAlerts, DeliverAlerts, PollAlerts, DisconnectAlerts, HandleAlerts,
     OtherAlerts DEF Next
<1> QED
  BY <1>1, <1>2

\* Nothing that tls-response.c sends, but an alert in clear, is refused by a client
\* that keeps to TLS: its Finished is made with the keys of that client over the messages it has
\* seen, and each content is numbered as the client counts, whatever the other
\* clients do, whichever entry, session or slot is taken over, and however the
\* segments and the decryption interleave.  The alert in clear that an open
\* client cannot read comes only when its session has left the table.
THEOREM ServerKeepsToTls == Spec => []NoClientRejects
<1>1. ClientsInit => AlertInv
  BY DEF ClientsInit, Init, AlertInv, AlertsOf, EndingOf, IsEnding, Blank, Phase
<1>2. TlsInv /\ TlsInv' /\ AlertInv /\ [Next]_vars => AlertInv'
  BY AlertStep
<1>3. TlsInv /\ AlertInv => NoClientRejects
  BY Sizes DEF TlsInv, ClientTypes, Peer, Phases, NoClientRejects, Phase, AlertInv, AlertsOf, Lost,
     NoSessionOf, SessionsOf, EntriesOf, ServerTypes
<1> QED
  BY <1>1, <1>2, <1>3, InvHolds, PTL DEF Spec

\* While the slots suffice, a session that tls-request.c would resume holds the
\* master secret that its client derived.
THEOREM SessionsHaveTheirMasters == Spec => []SessionHasItsMaster
<1>1. TlsInv => SessionHasItsMaster
  BY DEF TlsInv
<1> QED
  BY <1>1, InvHolds, PTL

\* While the slots suffice, the slot number that a waiting connection has kept
\* still stands for the decryption it has asked for.
THEOREM SlotsAreNotMixedUp == Spec => []WaitsForOwnSlot
<1>1. TlsInv => WaitsForOwnSlot
  BY DEF TlsInv
<1> QED
  BY <1>1, InvHolds, PTL

\* A hello makes its new session in an entry that had another id.
LEMMA HelloTakesOther ==
  ASSUME TlsInv, Handle, NEW tick, ClientHello(tick), NEW k \in SessIndex,
         sessions[k].valid, sessions'[k].id = sessions[k].id
  PROVE  sessions'[k] = sessions[k]
<1> DEFINE asked == SessionsOf(Record.session)
           resume == \E l \in asked : sessions[l].valid
           place == IF resume THEN First(asked) ELSE EmptyOrOldest(sessions, sessUsed)
<1>1. /\ ~ Idle /\ Record.type = "hello"
      /\ sessions' = IF resume THEN sessions
                     ELSE [sessions EXCEPT ![place] = [NoSession EXCEPT !.id = Hashed.id]]
  BY DEF ClientHello, Handling, Zeroed
<1>2. PICK i \in ConnIndex : i = running.index
  BY <1>1, WhatIsHandled
<1>3. PICK c \in Clients : c = conns[i].id /\ c = Hashed.id
  BY <1>1, <1>2, WhatIsHandled, HashedIs DEF HandshakeTypes
<1>4. NoSessionOf(c)
  BY <1>1, <1>2, <1>3, RecordKinds DEF Fresh
<1>5. sessions \in [SessIndex -> Session]
  BY DEF TlsInv, ServerTypes
<1>6. PICK n : n = place
  OBVIOUS
<1>7. sessions' = sessions \/ sessions' = [sessions EXCEPT ![n] = [NoSession EXCEPT !.id = c]]
  BY <1>1, <1>3, <1>6
<1> HIDE DEF asked, resume, place
<1>8. CASE n = k /\ sessions' = [sessions EXCEPT ![n] = [NoSession EXCEPT !.id = c]]
  <2>1. sessions'[k].id = c
    BY <1>5, <1>8 DEF NoSession
  <2> QED
    BY <1>4, <2>1 DEF NoSessionOf
<1> QED
  BY <1>5, <1>7, <1>8

\* A master secret is only collected for a session that is not valid yet.
LEMMA CollectedIsNew ==
  ASSUME TlsInv, Collecting, NEW k \in SessIndex, sessions[k].valid
  PROVE  sessions'[k] = sessions[k]
<1>1. PICK i : i = Following
  OBVIOUS
<1>2. PICK p : p = conns[i]
  OBVIOUS
<1>3. \/ UNCHANGED sessions
      \/ /\ Waiting(p)
         /\ \E m : sessions' = [sessions EXCEPT ![First(SessionsOf(p.sessionId))].master = m,
                                                ![First(SessionsOf(p.sessionId))].valid = TRUE]
  BY <1>1, <1>2 DEF Collecting, TlsRequestMain, Collect
<1>4. sessions \in [SessIndex -> Session]
  BY DEF TlsInv, ServerTypes
<1>5. CASE UNCHANGED sessions
  BY <1>5
<1>6. CASE Waiting(p) /\ ~ UNCHANGED sessions
  <2>1. PICK S : S = SessionsOf(p.sessionId)
    OBVIOUS
  <2>2. /\ S # {} /\ S \subseteq SessIndex
        /\ \A l, j \in S : l = j
        /\ \E l \in S : ~ sessions[l].valid
    BY <1>4, <1>6, <2>1 DEF Waiting, SessionsOf, EntriesOf, TlsInv, NoneTwice
  <2>3. PICK n : n = First(S)
    OBVIOUS
  <2>4. n \in S
    BY <2>2, <2>3, FirstIsIn, Sizes
  <2>5. ~ sessions[n].valid
    BY <2>2, <2>4
  <2>6. PICK m : sessions' = [sessions EXCEPT ![n].master = m, ![n].valid = TRUE]
    BY <1>3, <1>6, <2>1, <2>3
  <2> QED
    BY <1>4, <2>5, <2>6
<1> QED
  BY <1>3, <1>5, <1>6

\* A session that may be resumed keeps its master secret until its entry is
\* given to another: no later key exchange, and no hello of the same client,
\* touches it.
THEOREM ValidSessionsAreFixed == Spec => ValidSessionIsFixed
<1> DEFINE Fixed ==
      \A k \in SessIndex :
        sessions[k].valid /\ sessions'[k].id = sessions[k].id => sessions'[k] = sessions[k]
<1>1. TlsInv /\ [Next]_vars => [Fixed]_vars
  <2> SUFFICES ASSUME TlsInv, Next PROVE Fixed
    OBVIOUS
  <2>1. CASE UNCHANGED sessions
    BY <2>1
  <2>2. ASSUME Handle, NEW tick, ClientHello(tick) PROVE Fixed
    BY <2>2, HelloTakesOther
  <2>3. CASE Collecting
    BY <2>3, CollectedIsNew
  <2> QED
    BY <2>1, <2>2, <2>3, WhatTouchesSessions
<1> QED
  BY <1>1, InvHolds, PTL DEF Spec, ValidSessionIsFixed
=============================================================================
