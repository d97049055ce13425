----------------------------- MODULE TlsServer ------------------------------
(***************************************************************************)
(* The TLS 1.2 server of crypto/tls: the table of connections              *)
(* (tls-connection.c), the table of sessions (tls-session.c), the handlers *)
(* of what a client sends (tls-request.c), what the server sends when TCP  *)
(* polls it (tls-response.c) and TlsRequestMain, which picks up the master *)
(* secret when the RSA engine has decrypted it.  The engine is used through*)
(* its promise, DecryptSlots.                                              *)
(*                                                                         *)
(* Everything runs in one thread.  A call of TlsRequest handles all the    *)
(* records of a TCP segment before anything else runs; it is spread over   *)
(* one step per record here, with the records still to handle in running.  *)
(*                                                                         *)
(* Cryptography is symbolic.  The randoms of a connection are fresh, so    *)
(* they are named by the connection's id; a client's premaster secret is   *)
(* named by the client; a new session's id (HrTimerCount, never zero and   *)
(* fresh) by the connection that made it.  A master secret is the pair     *)
(* <<premaster, connection>> it was derived from, the keys of a connection *)
(* the pair <<master, connection>>.                                        *)
(***************************************************************************)
EXTENDS Integers, Sequences, FiniteSets

CONSTANTS
  Clients,         \* ids of TCP connections; each is used for one connection
  None,            \* the id zero: an empty entry, no session
  MaxConnections,  \* MAX_CONNECTIONS, tls-connection.c line 6
  MaxSessions,     \* TLS_MAX_SESSIONS, tls-session.c line 10
  Ticks,           \* uses of an entry: in the same millisecond (0), later (1)
  MaxContents,     \* bound: a response is at most this many content flights
  MaxCount         \* RSA slots: MAX_COUNT, rsa.c line 34

ASSUME TlsAssumption ==
  /\ None \notin Clients
  /\ MaxConnections \in Nat \ {0} /\ MaxSessions \in Nat \ {0}
  /\ Ticks \subseteq 0 .. 1 /\ Ticks # {}
  /\ MaxContents \in Nat \ {0} /\ MaxCount \in Nat \ {0}

VARIABLES
  conns,     \* connections[]
  connUsed,  \* connections[].lastUsed, as ranks
  next,      \* the entry TlsConnectionGetNext returned last
  sessions,  \* sessions[]
  sessUsed,  \* sessions[].lastUsed, as ranks
  job,       \* the slots of the RSA engine
  running,   \* the call of handleContent in progress: its entry and records
  http,      \* the connections whose request the HTTP server is answering
  out,       \* what the server has sent to each client and it has not read
  over       \* the connections TlsResponse has returned true for

serverVars == <<conns, connUsed, next, sessions, sessUsed, job, running, http, out, over>>

ConnIndex == 0 .. MaxConnections - 1
SessIndex == 0 .. MaxSessions - 1

Rsa == INSTANCE DecryptSlots WITH Messages <- Clients, Plain <- [c \in Clients |-> c]

\* What a slot that is read out of bounds yields.
Garbage == "garbage"

-----------------------------------------------------------------------------
(***************************************************************************)
(* Records a client sends and flights the server sends                     *)
(***************************************************************************)
Hello(session) == [type |-> "hello", session |-> session]
KeyExchange(premaster) == [type |-> "keyExchange", premaster |-> premaster]
ChangeCipher == [type |-> "changeCipher"]
Finished(keys) == [type |-> "finished", keys |-> keys]
Application(keys) == [type |-> "application", keys |-> keys]
ShortHello == [type |-> "shortHello"]
ShortKeyExchange == [type |-> "shortKeyExchange"]
Heartbeat == [type |-> "heartbeat"]
NoRecord == [type |-> "none"]

HandshakeTypes == {"hello", "shortHello", "keyExchange", "shortKeyExchange", "finished"}

NoKeys == <<>>

(***************************************************************************)
(* The table entries.  toDo holds the DO_ names of tls-connection.h.       *)
(* handshakeSha is the sequence of handshake messages it has hashed.       *)
(* Left out are serverEncrypted, which nothing reads, and clientSequence   *)
(* and the hash snapshot of changeCipher, which feed only a MAC and a      *)
(* verify value that the server does not compare.                          *)
(***************************************************************************)
Blank ==
  [id |-> None, toDo |-> "WAIT_CLIENT_HELLO", sessionId |-> None, resume |-> FALSE,
   handshakeSha |-> <<>>, clientEncrypted |-> FALSE, deferred |-> NoRecord,
   serverSequence |-> 0, slot |-> 0, keys |-> NoKeys]

\* Mutant: the handshake hash is not started again.
ZeroKeepsHash(p) == [Blank EXCEPT !.keys = p.keys, !.handshakeSha = p.handshakeSha]

\* zeroConnection: everything but the keys.
Zero(p) == [Blank EXCEPT !.keys = p.keys]

NoSession == [id |-> None, valid |-> FALSE, master |-> <<>>]

Init ==
  /\ conns = [i \in ConnIndex |-> Blank]
  /\ connUsed = [i \in ConnIndex |-> 0]
  /\ next = MaxConnections - 1
  /\ sessions = [i \in SessIndex |-> NoSession]
  /\ sessUsed = [i \in SessIndex |-> 0]
  /\ Rsa!Init
  /\ running = <<>>
  /\ http = {}
  /\ out = [c \in Clients |-> <<>>]
  /\ over = {}

-----------------------------------------------------------------------------
(***************************************************************************)
(* The two tables                                                          *)
(***************************************************************************)

\* Entry i is used now: at the millisecond of the latest use (tick 0) or later
\* (tick 1).  Only the order of the uses matters, so they are kept as ranks.
Use(used, i, tick) ==
  LET newest == CHOOSE n \in {used[j] : j \in DOMAIN used} :
                  \A j \in DOMAIN used : used[j] <= n
      now == [used EXCEPT ![i] = newest + tick]
  IN [j \in DOMAIN used |-> Cardinality({now[k] : k \in {k \in DOMAIN now : now[k] < now[j]}})]

\* The entry a new id gets: the one with that id, else the first empty one, else
\* the one used longest ago (age >= ageOldest: the last of equals).
EntriesOf(table, id) == {i \in DOMAIN table : table[i].id = id}
First(S) == CHOOSE i \in S : \A j \in S : i <= j
Oldest(used) ==
  CHOOSE i \in DOMAIN used :
    \A j \in DOMAIN used : used[i] < used[j] \/ (used[i] = used[j] /\ j <= i)

EmptyOrOldest(table, used) ==
  IF EntriesOf(table, None) # {} THEN First(EntriesOf(table, None)) ELSE Oldest(used)

NewConnIndex(c) ==
  IF EntriesOf(conns, c) # {} THEN First(EntriesOf(conns, c))
  ELSE EmptyOrOldest(conns, connUsed)

\* TlsSessionOrNull
SessionsOf(id) == IF id = None THEN {} ELSE EntriesOf(sessions, id)

-----------------------------------------------------------------------------
(***************************************************************************)
(* tls-request.c                                                           *)
(***************************************************************************)
Idle == running = <<>>

\* TlsRequest gets the records of one TCP segment.  At the start of the stream
\* it opens a new entry; later it needs the entry to be there still.
TlsRequest(c, records, isStart, tick) ==
  /\ Idle
  /\ IF isStart
     THEN LET i == NewConnIndex(c) IN
       /\ conns' = [conns EXCEPT ![i] = [Zero(@) EXCEPT !.id = c]]
       /\ connUsed' = Use(connUsed, i, tick)
       /\ running' = [index |-> i, records |-> records, deferring |-> TRUE]
     ELSE IF EntriesOf(conns, c) # {}
     THEN LET i == First(EntriesOf(conns, c)) IN
       /\ connUsed' = Use(connUsed, i, tick)
       /\ running' = [index |-> i, records |-> records, deferring |-> TRUE]
       /\ UNCHANGED conns
     ELSE UNCHANGED <<conns, connUsed, running>>
  /\ UNCHANGED <<next, sessions, sessUsed, job, http, out, over>>

\* Mutant: deferred from the key exchange on, encrypted or not.
IsDeferredInClear ==
  /\ running.deferring
  /\ conns[running.index].toDo = "WAIT_DECRYPT_MASTER_SECRET"

\* While the master secret is being decrypted, encrypted content is put by: all
\* that is left of the segment goes to the start of deferredContent, which has
\* room for one record that is ever looked at.
IsDeferred ==
  /\ running.deferring
  /\ conns[running.index].clientEncrypted
  /\ conns[running.index].toDo = "WAIT_DECRYPT_MASTER_SECRET"

Defer ==
  /\ ~ Idle
  /\ IsDeferred
  /\ conns' = [conns EXCEPT ![running.index].deferred = Head(running.records)]
  /\ running' = <<>>
  /\ UNCHANGED <<connUsed, next, sessions, sessUsed, job, http, out, over>>

Record == Head(running.records)

\* Handling a record of this type, and moving on to the next one.
Handling(types) ==
  /\ ~ Idle
  /\ ~ IsDeferred
  /\ Record.type \in types
  /\ running' = IF Len(running.records) = 1 THEN <<>>
                ELSE [running EXCEPT !.records = Tail(@)]
  /\ UNCHANGED <<connUsed, next, out, over>>

\* The entry with a handshake message added to its hash (handleHandshake).
Hashed == LET p == conns[running.index]
          IN [p EXCEPT !.handshakeSha = Append(@, Record.type)]

SetConn(p) == conns' = [conns EXCEPT ![running.index] = p]

\* What zeroSession makes of the entry of an old session (the mutant forgets to).
NotZeroed(session) == session
Zeroed(session) == NoSession

\* handleClientHello: the session the client asks for is resumed if it is there
\* and valid, else a new one is made, in the place of an old one if need be.
ClientHello(tick) ==
  LET asked == SessionsOf(Record.session)
      resume == \E k \in asked : sessions[k].valid
      k == IF resume THEN First(asked) ELSE EmptyOrOldest(sessions, sessUsed)
      p == Hashed
  IN
  /\ Handling({"hello"})
  /\ SetConn([p EXCEPT !.sessionId = IF resume THEN Record.session ELSE p.id,
                       !.resume = resume,
                       !.toDo = IF resume THEN "SEND_SERVER_HELLO_RESUME"
                                          ELSE "SEND_SERVER_HELLO_NEW"])
  /\ sessions' = IF resume THEN sessions
                 ELSE [sessions EXCEPT ![k] = [Zeroed(@) EXCEPT !.id = p.id]]
  /\ sessUsed' = Use(sessUsed, k, tick)
  /\ UNCHANGED <<job, http>>

\* handleClientKeyExchange: the slot RsaStart returns is kept unexamined, -1
\* included (NoSlot).
NoSlot == -1

\* The entry that has handed its premaster secret to slot s (the mutant forgets
\* which slot).
DecryptingSomewhere(p, s) == [p EXCEPT !.toDo = "WAIT_DECRYPT_MASTER_SECRET"]
Decrypting(p, s) == [p EXCEPT !.slot = s, !.toDo = "WAIT_DECRYPT_MASTER_SECRET"]

ClientKeyExchange ==
  LET p == Hashed IN
  /\ Handling({"keyExchange"})
  /\ \/ /\ SessionsOf(p.sessionId) = {}
        /\ SetConn([p EXCEPT !.toDo = "SEND_ALERT_ILLEGAL_PARAMETER"])
        /\ UNCHANGED job
     \/ /\ SessionsOf(p.sessionId) # {}
        /\ \E s \in Rsa!Slot :
             /\ Rsa!Takes(job, s)
             /\ job' = [job EXCEPT ![s] = Rsa!Busy(Record.premaster)]
             /\ SetConn(Decrypting(p, s))
     \/ /\ SessionsOf(p.sessionId) # {}
        /\ \A s \in Rsa!Slot : ~ Rsa!Takes(job, s)
        /\ SetConn(Decrypting(p, NoSlot))
        /\ UNCHANGED job
  /\ UNCHANGED <<sessions, sessUsed, http>>

\* A hello or key exchange of the wrong length.
\* (The mutant returns before it asks for an alert.)
RefuseSilently(p) == p
Refuse(p) == [p EXCEPT !.toDo = "SEND_ALERT_ILLEGAL_PARAMETER"]

ShortHandshake ==
  /\ Handling({"shortHello", "shortKeyExchange"})
  /\ SetConn(Refuse(Hashed))
  /\ UNCHANGED <<sessions, sessUsed, job, http>>

\* What a record decrypts to makes sense only under the keys it was made with.
Decrypts == LET p == conns[running.index]
            IN p.clientEncrypted => p.keys = Record.keys

\* handleClientFinished.  Under other keys it is some handshake type that is
\* not known and is ignored; it is hashed all the same.
ClientFinished ==
  LET p == Hashed IN
  /\ Handling({"finished"})
  /\ SetConn(IF ~ Decrypts THEN p
             ELSE IF SessionsOf(p.sessionId) = {}
             THEN [p EXCEPT !.toDo = "SEND_ALERT_ILLEGAL_PARAMETER"]
             ELSE [p EXCEPT !.toDo = IF p.resume THEN "APPLICATION"
                                                 ELSE "SEND_SERVER_CHANGE"])
  /\ UNCHANGED <<sessions, sessUsed, job, http>>

ClientChangeCipher ==
  /\ Handling({"changeCipher"})
  /\ SetConn([conns[running.index] EXCEPT !.clientEncrypted = TRUE])
  /\ UNCHANGED <<sessions, sessUsed, job, http>>

\* handleApplication passes the text on to HttpRequest; under other keys it is
\* no request.
ClientApplication ==
  /\ Handling({"application"})
  /\ SetConn([conns[running.index] EXCEPT !.toDo = "APPLICATION"])
  /\ http' = IF Decrypts THEN http \cup {conns[running.index].id} ELSE http
  /\ UNCHANGED <<sessions, sessUsed, job>>

\* Content the server does not know, and the empty deferredContent, which has
\* no valid content type and is skipped.
ClientOther ==
  /\ Handling({"heartbeat", "none"})
  /\ SetConn(IF Record.type = "none" THEN conns[running.index]
             ELSE [conns[running.index] EXCEPT !.toDo = "WAIT_CLIENT_HELLO"])
  /\ UNCHANGED <<sessions, sessUsed, job, http>>

HandleContent ==
  \/ Defer
  \/ \E tick \in Ticks : ClientHello(tick)
  \/ ClientKeyExchange
  \/ ShortHandshake
  \/ ClientFinished
  \/ ClientChangeCipher
  \/ ClientApplication
  \/ ClientOther

(***************************************************************************)
(* TlsRequestMain, once per pass of the main loop, looks at the next entry.*)
(* If its decryption is finished it takes the premaster secret, clears the *)
(* slot, derives the master secret and the keys, makes the session valid   *)
(* and handles the deferred content.  Slot -1 reads memory outside the     *)
(* slots: it may look finished or not, and holds nothing of use.           *)
(***************************************************************************)
Following == (next + 1) % MaxConnections

\* Mutant: a session that is already valid is not passed over.
WaitingForAny(p) ==
  /\ p.toDo = "WAIT_DECRYPT_MASTER_SECRET"
  /\ SessionsOf(p.sessionId) # {}

Waiting(p) ==
  /\ p.toDo = "WAIT_DECRYPT_MASTER_SECRET"
  /\ \E k \in SessionsOf(p.sessionId) : ~ sessions[k].valid

\* What is then handled: the content put by (the mutant drops it).
PutByDropped(p) == [index |-> Following, records |-> <<NoRecord>>, deferring |-> FALSE]
PutBy(p) == [index |-> Following, records |-> <<p.deferred>>, deferring |-> FALSE]

Collect(p, k, premaster) ==
  LET master == <<premaster, p.id>> IN
  /\ sessions' = [sessions EXCEPT ![k].master = master, ![k].valid = TRUE]
  /\ conns' = [conns EXCEPT ![Following].keys = <<master, p.id>>]
  /\ running' = PutBy(p)
  /\ job' = [s \in Rsa!Slot |-> IF s = p.slot THEN Rsa!Free ELSE job[s]]

\* What PriKeyDecryptFinished may say of the entry's slot, and the result in it.
LooksFinished(p) == IF p.slot = NoSlot THEN BOOLEAN ELSE {job[p.slot].state = "done"}
ResultOf(p) == IF p.slot = NoSlot THEN Garbage ELSE job[p.slot].result

TlsRequestMain ==
  LET p == conns[Following] IN
  /\ Idle
  /\ next' = Following
  /\ \E finished \in LooksFinished(p) :
       IF Waiting(p) /\ finished
       THEN Collect(p, First(SessionsOf(p.sessionId)), ResultOf(p))
       ELSE UNCHANGED <<conns, sessions, job, running>>
  /\ UNCHANGED <<connUsed, sessUsed, http, out, over>>

-----------------------------------------------------------------------------
(***************************************************************************)
(* tls-response.c                                                          *)
(***************************************************************************)
ServerHello == "serverHello"
ServerFinished == "serverFinished"
HelloNew == [kind |-> "helloNew"]
\* addAlert never encrypts, not even after the server has changed its cipher.
Alert == [kind |-> "alert", keys |-> NoKeys]

\* A flight that ends with the server's Finished: made with the entry's keys
\* and sequence number, over the handshake messages hashed so far.
FinishedFlight(kind, keys, sequence, sha) ==
  [kind |-> kind, keys |-> keys, sequence |-> sequence, sha |-> sha]

Content(keys, sequence, last) ==
  [kind |-> "content", keys |-> keys, sequence |-> sequence, last |-> last]

\* Poll entry p of client c: it becomes q, the flights go out, and TCP is told
\* whether that was all (it then closes the connection and polls no more).
Answer(c, tick, q, flights, isLast) ==
  LET i == First(EntriesOf(conns, c)) IN
  /\ conns' = [conns EXCEPT ![i] = q]
  /\ connUsed' = Use(connUsed, i, tick)
  /\ out' = [out EXCEPT ![c] = @ \o flights]
  /\ over' = IF isLast THEN over \cup {c} ELSE over
  /\ UNCHANGED <<next, sessions, sessUsed, job, running>>

\* The entry as TlsResponse goes on with it: one whose session has gone is to be
\* ended with an alert.
Polled(c) ==
  LET p == conns[First(EntriesOf(conns, c))] IN
  IF SessionsOf(p.sessionId) = {} THEN [p EXCEPT !.toDo = "SEND_ALERT_INTERNAL_ERROR"] ELSE p

HasSession(c) ==
  /\ EntriesOf(conns, c) # {}
  /\ conns[First(EntriesOf(conns, c))].sessionId # None

\* No entry, or no hello yet: nothing to send.
RespondEmpty(c, clientFinished, tick) ==
  /\ ~ HasSession(c)
  /\ connUsed' = IF EntriesOf(conns, c) = {} THEN connUsed
                 ELSE Use(connUsed, First(EntriesOf(conns, c)), tick)
  /\ over' = IF clientFinished THEN over \cup {c} ELSE over
  /\ UNCHANGED <<conns, next, sessions, sessUsed, job, running, http, out>>

RespondWaiting(c, clientFinished, tick) ==
  /\ HasSession(c)
  /\ Polled(c).toDo \in {"WAIT_CLIENT_HELLO", "WAIT_CLIENT_CHANGE",
                         "WAIT_DECRYPT_MASTER_SECRET"}
  /\ Answer(c, tick, Polled(c), <<>>, clientFinished)
  /\ UNCHANGED http

SendServerHelloNew(c, tick) ==
  LET p == Polled(c) IN
  /\ HasSession(c)
  /\ p.toDo = "SEND_SERVER_HELLO_NEW"
  /\ Answer(c, tick,
            [p EXCEPT !.handshakeSha = Append(@, ServerHello),
                      !.serverSequence = @ + 1,
                      !.toDo = "WAIT_CLIENT_CHANGE"],
            <<HelloNew>>, FALSE)
  /\ UNCHANGED http

\* Mutant: the sequence goes on.
ChangedOnly(p, keys) ==
  [p EXCEPT !.keys = keys,
            !.handshakeSha = Append(@, ServerFinished),
            !.serverSequence = @ + 1]

\* The entry after addChangeCipher and a Finished sent with the keys: the
\* sequence starts again, the Finished is number 0 and is itself hashed.
Changed(p, keys) ==
  [p EXCEPT !.keys = keys,
            !.handshakeSha = Append(@, ServerFinished),
            !.serverSequence = 1]

SendServerHelloResume(c, tick) ==
  LET p == [Polled(c) EXCEPT !.handshakeSha = Append(@, ServerHello)]
      master == sessions[First(SessionsOf(p.sessionId))].master
      keys == <<master, c>>
  IN
  /\ HasSession(c)
  /\ p.toDo = "SEND_SERVER_HELLO_RESUME"
  /\ Answer(c, tick,
            [Changed(p, keys) EXCEPT !.toDo = "WAIT_CLIENT_CHANGE"],
            <<FinishedFlight("helloResume", keys, 0, p.handshakeSha)>>, FALSE)
  /\ UNCHANGED http

SendServerChange(c, tick) ==
  LET p == Polled(c) IN
  /\ HasSession(c)
  /\ p.toDo = "SEND_SERVER_CHANGE"
  /\ Answer(c, tick,
            [Changed(p, p.keys) EXCEPT !.toDo = "APPLICATION"],
            <<FinishedFlight("change", p.keys, 0, p.handshakeSha)>>, FALSE)
  /\ UNCHANGED http

\* HttpPoll has nothing to send: it waits, or ends when the client has finished.
RespondNoContent(c, clientFinished, tick) ==
  LET p == Polled(c) IN
  /\ HasSession(c)
  /\ p.toDo = "APPLICATION"
  /\ c \notin http
  /\ Answer(c, tick,
            IF clientFinished THEN [p EXCEPT !.toDo = "WAIT_CLIENT_HELLO"] ELSE p,
            <<>>, clientFinished)
  /\ UNCHANGED http

SendContent(c, tick, last) ==
  LET p == Polled(c) IN
  /\ HasSession(c)
  /\ p.toDo = "APPLICATION"
  /\ c \in http
  /\ p.serverSequence >= MaxContents => last
  /\ Answer(c, tick,
            [p EXCEPT !.serverSequence = @ + 1,
                      !.toDo = IF last THEN "WAIT_CLIENT_HELLO" ELSE @],
            <<Content(p.keys, p.serverSequence, last)>>, last)
  /\ http' = IF last THEN http \ {c} ELSE http

SendAlert(c, tick) ==
  LET p == Polled(c) IN
  /\ HasSession(c)
  /\ p.toDo \in {"SEND_ALERT_ILLEGAL_PARAMETER", "SEND_ALERT_INTERNAL_ERROR"}
  /\ Answer(c, tick,
            [p EXCEPT !.serverSequence = @ + 1, !.toDo = "WAIT_CLIENT_HELLO"],
            <<Alert>>, TRUE)
  /\ UNCHANGED http

TlsResponse(c, clientFinished, tick) ==
  /\ Idle
  /\ c \notin over
  /\ \/ RespondEmpty(c, clientFinished, tick)
     \/ RespondWaiting(c, clientFinished, tick)
     \/ SendServerHelloNew(c, tick)
     \/ SendServerHelloResume(c, tick)
     \/ SendServerChange(c, tick)
     \/ RespondNoContent(c, clientFinished, tick)
     \/ \E last \in BOOLEAN : SendContent(c, tick, last)
     \/ SendAlert(c, tick)

-----------------------------------------------------------------------------
\* TlsReset, when the TCP connection is gone: the entry is emptied, its RSA slot
\* is left as it is, and the HTTP server forgets the request.
TlsReset(c) ==
  /\ Idle
  /\ conns' = [i \in ConnIndex |-> IF conns[i].id = c THEN Zero(conns[i]) ELSE conns[i]]
  /\ connUsed' = [i \in ConnIndex |-> IF conns[i].id = c THEN 0 ELSE connUsed[i]]
  /\ http' = http \ {c}
  /\ UNCHANGED <<next, sessions, sessUsed, job, running>>

\* The RSA engine finishes a slot.
CryptoMain ==
  /\ Idle
  /\ \E s \in Rsa!Slot : Rsa!Finish(s)
  /\ UNCHANGED <<conns, connUsed, next, sessions, sessUsed, running, http, out, over>>

=============================================================================
