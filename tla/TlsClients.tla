----------------------------- MODULE TlsClients -----------------------------
(***************************************************************************)
(* TlsServer with its clients and TCP between them.  A client opens one    *)
(* connection, does a full handshake or resumes a session that it or       *)
(* another connection of the same browser has completed, sends a request   *)
(* and reads the response; it checks what the server sends as TLS          *)
(* requires.  TCP delivers a client's records in order, cut into segments  *)
(* between records wherever Cuts allows.                                   *)
(***************************************************************************)
EXTENDS TlsServer

CONSTANTS
  Cuts,       \* record types a segment may end with although more follows
  Careless,   \* clients that may send a malformed or an unknown record
  Impatient   \* clients that may give up (TCP reset) before they are served

VARIABLES
  peer,  \* each client: phase, session asked for or agreed, contents read
  sent,  \* the records each client has sent and the server has not received
  late,  \* history: clients with something that arrived after the decryption of
         \* their key exchange had been collected, and before they were through
  begun, \* the connections whose first segment has arrived
  short  \* history: a key exchange has found none of the RSA slots free

clientVars == <<peer, sent, late, begun, short>>
vars == <<serverVars, clientVars>>

ClientsInit ==
  /\ Init
  /\ peer = [c \in Clients |-> [phase |-> "new", session |-> None, contents |-> 0]]
  /\ sent = [c \in Clients |-> <<>>]
  /\ late = {}
  /\ begun = {}
  /\ short = FALSE

Phase(c) == peer[c].phase

\* The master secret the client of session s derived, and client c's keys in it.
Master(s) == <<s, s>>
Keys(s, c) == <<Master(s), c>>

\* Sessions a client can ask to resume: full handshakes that were completed.
Remembered == {s \in Clients : Phase(s) \in {"open", "done"} /\ peer[s].session = s}

-----------------------------------------------------------------------------
(***************************************************************************)
(* What a client does                                                      *)
(***************************************************************************)
Connect(c, s) ==
  /\ Phase(c) = "new"
  /\ s \in Remembered \cup {None}
  /\ peer' = [peer EXCEPT ![c].phase = "hello", ![c].session = s]
  /\ sent' = [sent EXCEPT ![c] = <<Hello(s)>>]
  /\ UNCHANGED <<serverVars, late, begun, short>>

ConnectBadly(c) ==
  /\ c \in Careless
  /\ Phase(c) = "new"
  /\ \E record \in {ShortHello, Heartbeat} : sent' = [sent EXCEPT ![c] = <<record>>]
  /\ peer' = [peer EXCEPT ![c].phase = "astray"]
  /\ UNCHANGED <<serverVars, late, begun, short>>

Becomes(c, phase, session, records) ==
  /\ peer' = [peer EXCEPT ![c].phase = phase, ![c].session = session]
  /\ sent' = [sent EXCEPT ![c] = @ \o records]

\* A client accepts a Finished under the keys and over the messages it knows.
Verifies(flight, keys, sha) == flight.keys = keys /\ flight.sequence = 0 /\ flight.sha = sha

ReadHelloNew(c, flight) ==
  /\ flight.kind = "helloNew"
  /\ IF Phase(c) # "hello" THEN Becomes(c, "rejected", None, <<>>)
     ELSE \/ Becomes(c, "keyed", c, <<KeyExchange(c), ChangeCipher, Finished(Keys(c, c))>>)
          \/ c \in Careless /\ Becomes(c, "careless", c, <<ShortKeyExchange, ChangeCipher, Finished(Keys(c, c))>>)

ReadHelloResume(c, flight) ==
  LET s == peer[c].session IN
  /\ flight.kind = "helloResume"
  /\ IF /\ Phase(c) = "hello"
        /\ s # None
        /\ Verifies(flight, Keys(s, c), <<"hello", ServerHello>>)
     THEN Becomes(c, "open", s, <<ChangeCipher, Finished(Keys(s, c)), Application(Keys(s, c))>>)
     ELSE Becomes(c, "rejected", None, <<>>)

ReadChange(c, flight) ==
  /\ flight.kind = "change"
  /\ IF /\ Phase(c) = "keyed"
        /\ Verifies(flight, Keys(c, c), <<"hello", ServerHello, "keyExchange", "finished">>)
     THEN Becomes(c, "open", c, <<Application(Keys(c, c))>>)
     ELSE Becomes(c, "rejected", None, <<>>)

\* Content is numbered from 1: the Finished was number 0.
ReadContent(c, flight) ==
  /\ flight.kind = "content"
  /\ IF /\ Phase(c) = "open"
        /\ flight.keys = Keys(peer[c].session, c)
        /\ flight.sequence = peer[c].contents + 1
     THEN /\ peer' = [peer EXCEPT ![c].phase = IF flight.last THEN "done" ELSE @,
                                  ![c].contents = @ + 1]
          /\ UNCHANGED sent
     ELSE Becomes(c, "rejected", None, <<>>)

\* Once the server has changed its cipher a client takes nothing in clear.
IsReadable(c, flight) ==
  flight.keys = IF Phase(c) = "open" THEN Keys(peer[c].session, c) ELSE NoKeys

ReadAlert(c, flight) ==
  /\ flight.kind = "alert"
  /\ Becomes(c, IF IsReadable(c, flight) THEN "alerted" ELSE "unread", peer[c].session, <<>>)

Read(c) ==
  /\ out[c] # <<>>
  /\ LET flight == Head(out[c]) IN
       \/ ReadHelloNew(c, flight)
       \/ ReadHelloResume(c, flight)
       \/ ReadChange(c, flight)
       \/ ReadContent(c, flight)
       \/ ReadAlert(c, flight)
  /\ out' = [out EXCEPT ![c] = Tail(@)]
  /\ UNCHANGED <<conns, connUsed, next, sessions, sessUsed, job, running, http, over, late, begun, short>>

-----------------------------------------------------------------------------
(***************************************************************************)
(* TCP                                                                     *)
(***************************************************************************)
IsOpen(c) == Phase(c) \notin {"new", "gone"} /\ c \notin over

\* The server has taken the premaster secret of c, and found no Finished put by.
IsCollected(c) ==
  \E i \in EntriesOf(conns, c) :
    /\ conns[i].toDo = "WAIT_DECRYPT_MASTER_SECRET"
    /\ \E k \in SessionsOf(conns[i].sessionId) : sessions[k].valid

\* The first n of the records a client has sent arrive as one segment.
Deliver(c, n, tick) ==
  /\ IsOpen(c)
  /\ n = Len(sent[c]) \/ sent[c][n].type \in Cuts
  /\ TlsRequest(c, SubSeq(sent[c], 1, n), c \notin begun, tick)
  /\ sent' = [sent EXCEPT ![c] = SubSeq(@, n + 1, Len(@))]
  /\ begun' = begun \cup {c}
  /\ late' = IF IsCollected(c) THEN late \cup {c} ELSE late
  /\ UNCHANGED <<peer, short>>

\* A client that has what it wants, or has refused, sends no more: its FIN.
ClientFinishedSending(c) == Phase(c) \in {"done", "alerted", "unread", "rejected"}

Poll(c, tick) ==
  /\ IsOpen(c)
  /\ TlsResponse(c, ClientFinishedSending(c), tick)
  /\ UNCHANGED clientVars

\* The connection is gone: closed at its end, or the client gave up.
Disconnect(c) ==
  /\ \/ c \in over /\ out[c] = <<>>
     \/ c \in Impatient /\ Phase(c) \in {"hello", "keyed", "open", "careless", "astray"}
  /\ TlsReset(c)
  /\ peer' = [peer EXCEPT ![c].phase = IF @ = "done" THEN "done" ELSE "gone"]
  /\ sent' = [sent EXCEPT ![c] = <<>>]
  /\ out' = [out EXCEPT ![c] = <<>>]
  /\ over' = over \cup {c}
  /\ UNCHANGED <<late, begun, short>>

\* One step of the call of TlsRequest or TlsRequestMain that is in progress.
Handle ==
  /\ HandleContent
  /\ short' = (short \/ /\ ~ IsDeferred
                         /\ Record.type = "keyExchange"
                         /\ Rsa!InState(job, "free") = {})
  /\ UNCHANGED <<peer, sent, late, begun>>

Collecting == TlsRequestMain /\ UNCHANGED clientVars
Decrypted == CryptoMain /\ UNCHANGED clientVars

-----------------------------------------------------------------------------
Next ==
  \/ \E c \in Clients : \E s \in Clients \cup {None} : Connect(c, s)
  \/ \E c \in Clients : ConnectBadly(c)
  \/ \E c \in Clients : Read(c)
  \/ \E c \in Clients : \E n \in 1 .. Len(sent[c]), tick \in Ticks : Deliver(c, n, tick)
  \/ \E c \in Clients : \E tick \in Ticks : Poll(c, tick)
  \/ \E c \in Clients : Disconnect(c)
  \/ Handle
  \/ Collecting
  \/ Decrypted

Spec == ClientsInit /\ [][Next]_vars

(***************************************************************************)
(* The main loop polls every connection, runs the RSA engine and calls     *)
(* TlsRequestMain on every pass; TCP delivers what was sent; a client      *)
(* reads what it gets.  Clients need not connect, nor give up.             *)
(***************************************************************************)
Fairness ==
  /\ \A c \in Clients :
       /\ WF_vars(Read(c))
       /\ WF_vars(\E n \in 1 .. Len(sent[c]), tick \in Ticks : Deliver(c, n, tick))
       /\ WF_vars(\E tick \in Ticks : Poll(c, tick))
  /\ WF_vars(Handle)
  /\ WF_vars(Collecting)
  /\ WF_vars(Decrypted)

FairSpec == Spec /\ Fairness

-----------------------------------------------------------------------------
(***************************************************************************)
(* Properties                                                              *)
(***************************************************************************)
ToDos == {"WAIT_CLIENT_HELLO", "SEND_SERVER_HELLO_NEW", "SEND_SERVER_HELLO_RESUME",
          "WAIT_CLIENT_CHANGE", "WAIT_DECRYPT_MASTER_SECRET", "SEND_SERVER_CHANGE",
          "APPLICATION", "SEND_ALERT_ILLEGAL_PARAMETER", "SEND_ALERT_INTERNAL_ERROR"}

TypeOK ==
  /\ \A i \in ConnIndex :
       /\ conns[i].id \in Clients \cup {None}
       /\ conns[i].toDo \in ToDos
       /\ conns[i].sessionId \in Clients \cup {None}
       /\ conns[i].slot \in Rsa!Slot \cup {NoSlot}
       /\ conns[i].deferred.type \in {"none", "finished"}
  /\ \A k \in SessIndex : sessions[k].id \in Clients \cup {None}
  /\ job \in [Rsa!Slot -> Rsa!Jobs]
  /\ next \in ConnIndex
  /\ http \subseteq Clients /\ over \subseteq Clients /\ begun \subseteq Clients

\* Nothing the server sends fails at a client that keeps to TLS: the Finished is
\* made with the keys the client derived, over the messages the client saw, and
\* everything after it is numbered as the client counts.  What does fail is the
\* alert in clear on an established connection; it is sent on none whose session
\* is still in the table.
NoClientRejects ==
  \A c \in Clients :
    /\ Phase(c) # "rejected"
    /\ (Phase(c) = "unread" => SessionsOf(peer[c].session) = {})

\* A session that can be resumed holds the master secret its client derived, as
\* long as the RSA engine has had a free slot for every key exchange.
SessionHasItsMaster ==
  ~ short =>
    \A k \in SessIndex : sessions[k].valid => sessions[k].master = Master(sessions[k].id)

\* The slot a connection waits for is at work on that connection's message, again
\* unless slots have run out: RsaStart then takes a result not yet collected.
WaitsForOwnSlot ==
  ~ short =>
    \A i \in ConnIndex :
      Waiting(conns[i]) =>
        /\ conns[i].slot \in Rsa!Slot
        /\ job[conns[i].slot].state # "free"
        /\ job[conns[i].slot].message = conns[i].id

\* A valid session keeps its master secret until its entry is given to another.
ValidSessionIsFixed ==
  [][\A k \in SessIndex :
       sessions[k].valid /\ sessions'[k].id = sessions[k].id => sessions'[k] = sessions[k]]_vars

\* PriKeyDecryptStart yields a slot or -1 ("Returns the slot or -1 on failure -
\* you must check!", rsa.c line 133): a connection never goes on with -1.
SlotIsChecked == \A i \in ConnIndex : conns[i].slot # NoSlot

\* A result in a slot is a result some connection still needs: "call it as soon
\* as you no longer need the result" says rsa.c line 118 of RsaClear.
ResultsAreNeeded ==
  \A s \in Rsa!Slot :
    job[s].state = "done" => \E i \in ConnIndex : Waiting(conns[i]) /\ conns[i].slot = s

\* Once the server has changed its cipher, which an open client knows, nothing
\* goes out in clear: "Record that all outgoing messages are now encrypted" says
\* tls-response.c line 136 of serverEncrypted.
AfterChangeAllIsEncrypted ==
  \A c \in Clients :
    Phase(c) = "open" => \A j \in 1 .. Len(out[c]) : out[c][j].keys # NoKeys

\* A client that says hello, makes no mistake, does not give up and whose flight
\* is not overtaken by the decryption gets its response.
Served ==
  \A c \in Clients :
    Phase(c) = "hello" ~> Phase(c) \in {"done", "gone", "careless"} \/ c \in late

\* A client whose key exchange was malformed is told so, whatever else it sent.
RefusedIsTold ==
  \A c \in Clients : Phase(c) = "careless" ~> Phase(c) \in {"alerted", "gone"}

\* The full handshake of crypto/explanation.txt (lines 45 to 57) comes to its
\* end: once the key exchange is decrypted the server answers the Finished.
HandshakeCompletes ==
  \A c \in Clients : Phase(c) = "keyed" ~> Phase(c) \in {"open", "done", "gone"}

=============================================================================
