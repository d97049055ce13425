------------------------------ MODULE WizLights ------------------------------
(***************************************************************************)
(* WizList with the users, the UDP network and the lights (external).      *)
(* Datagrams are lost when they are sent or else arrive, once or twice,    *)
(* in any order.  A light obeys what it is told and answers.               *)
(***************************************************************************)
EXTENDS WizList, FiniteSets

CONSTANTS
  Mixed,     \* no claim is made about what was asked of a light
  Offline,   \* lights that no datagram reaches, though theirs may arrive
  CutShort,  \* entries whose move the power may fail in
  MaxFlying  \* bound: datagrams under way; more are lost

ASSUME WizLightsAssumption ==
  /\ Mixed \notin Switches \cup {Nothing}
  /\ CutShort \subseteq Index

VARIABLES
  flying,  \* commands [to, do] and answers [from] under way
  asked,   \* history: what was asked of each light last; Mixed when something of
           \* an earlier request was still under way, or when an edit of the
           \* list has changed what is outstanding for the light
  heard,   \* history: what each light was told last since then
  torn     \* history: whether a move of the list has been cut short

worldVars == <<flying, asked, heard, torn>>
vars == <<listVars, worldVars>>

Command(mac, do) == [to |-> mac, do |-> do]
Answer(mac) == [from |-> mac]
Commands == {Command(m, do) : m \in Macs, do \in Switches}
Answers == {Answer(m) : m \in Macs}

WorldInit ==
  /\ Init
  /\ flying = {}
  /\ asked = [m \in Macs |-> Nothing]
  /\ heard = [m \in Macs |-> Nothing]
  /\ torn = FALSE

\* What is outstanding for a light.
TodoOf(mac) == IF IsListed(mac) THEN items[First(EntriesOf(mac))].todo ELSE Nothing

\* Something about the light is under way that does not come from a request do.
IsStale(mac, do, waiting) ==
  \/ Answer(mac) \in flying
  \/ \E d \in Switches \ {do} :
       Command(mac, d) \in flying \/ waiting \in {One(mac, d), All(d)}

\* From now on do is what the lights were asked last.
Asking(macs, do) ==
  /\ asked' = [m \in Macs |-> IF m \notin macs THEN asked[m]
                             ELSE IF IsStale(m, do, packet') THEN Mixed ELSE do]
  /\ heard' = [m \in Macs |-> IF m \in macs THEN Nothing ELSE heard[m]]
  /\ UNCHANGED flying

Mixing(macs) ==
  /\ asked' = [m \in Macs |-> IF m \in macs THEN Mixed ELSE asked[m]]
  /\ heard' = [m \in Macs |-> IF m \in macs THEN Nothing ELSE heard[m]]
  /\ UNCHANGED flying

-----------------------------------------------------------------------------
TurnOne(k, do) ==
  WizListTurnIndex(k, do) /\ Asking({items[k].mac}, do) /\ UNCHANGED torn

TurnSome(macs, do) == WizListTurn(macs, do) /\ Asking(macs, do) /\ UNCHANGED torn

TurnAll(do) == WizListTurnAll(do) /\ Asking(Macs, do) /\ UNCHANGED torn

\* An edit mixes up the lights whose outstanding request it changes.
MoveLight(k) ==
  Move(k) /\ Mixing({m \in Macs : TodoOf(m)' # TodoOf(m)}) /\ UNCHANGED torn

\* Deleting a light, and a restart, withdraw the request.
DeleteLight(k) == Delete(k) /\ Asking({items[k].mac}, Nothing) /\ UNCHANGED torn

Restart == WizListInit /\ Asking(Macs, Nothing) /\ UNCHANGED torn

\* So does a restart in the middle of a move, which leaves one MAC in two entries.
TearMove(k) == MoveCutShort(k) /\ Asking(Macs, Nothing) /\ torn' = TRUE

\* A light tells its status.  It may get an entry that has something to do, or
\* have missed a broadcast that nobody repeats to it.
TellStatus(mac) ==
  /\ WizListStatusAdd(mac)
  /\ Mixing({mac} \ {m \in Macs : TodoOf(m)' = asked[m]})
  /\ UNCHANGED torn

\* The packet goes out and reaches the lights in reached.
Send(reached) ==
  /\ PollForPacketToSend
  /\ flying' = flying \cup {Command(m, packet.do) : m \in reached}
  /\ Cardinality(flying') <= MaxFlying
  /\ UNCHANGED <<asked, heard, torn>>

Destinations ==
  CASE packet.kind = "all" -> Macs \ Offline
    [] packet.kind = "one" -> {packet.mac} \ Offline
    [] OTHER -> {}

\* A light obeys; its answer may be lost.  Either may arrive once more.
Obey(mac, do) ==
  /\ Command(mac, do) \in flying
  /\ heard' = [heard EXCEPT ![mac] = IF asked[mac] = Mixed THEN @ ELSE do]
  /\ \E gone \in SUBSET {Command(mac, do)}, back \in SUBSET {Answer(mac)} :
       /\ flying' = (flying \ gone) \cup back
       /\ Cardinality(flying') <= MaxFlying
  /\ UNCHANGED <<listVars, asked, torn>>

ReceiveAnswer(mac) ==
  /\ Answer(mac) \in flying
  /\ WizListReceivedSuccess(mac)
  /\ \E gone \in SUBSET {Answer(mac)} : flying' = flying \ gone
  /\ UNCHANGED <<asked, heard, torn>>

Looking == Look /\ UNCHANGED worldVars
Elapsing(k) == Elapse(k) /\ UNCHANGED worldVars
Sending == \E reached \in SUBSET Destinations : Send(reached)

Next ==
  \/ \E k \in Index, do \in Switches : TurnOne(k, do)
  \/ \E macs \in SUBSET Macs, do \in Switches : TurnSome(macs, do)
  \/ \E do \in Switches : TurnAll(do)
  \/ \E k \in Index : MoveLight(k)
  \/ \E k \in Index : DeleteLight(k)
  \/ Restart
  \/ \E k \in CutShort : TearMove(k)
  \/ Registration /\ UNCHANGED worldVars
  \/ Looking
  \/ \E k \in Index : Elapsing(k)
  \/ Sending
  \/ \E m \in Macs : TellStatus(m)
  \/ \E m \in Macs, do \in Switches : Obey(m, do)
  \/ \E m \in Macs : ReceiveAnswer(m)

Spec == WorldInit /\ [][Next]_vars

(***************************************************************************)
(* WizListMain runs on every pass and the registration, once in twenty     *)
(* seconds, keeps it only from some of them: strong fairness of Look.  The *)
(* library polls for packets and the clock runs on.  A network that loses  *)
(* datagrams does not lose all of them, and lets none arrive for ever.     *)
(***************************************************************************)
Reaching(mac) == \E reached \in SUBSET Destinations : mac \in reached /\ Send(reached)
ObeyLast(mac, do) == Obey(mac, do) /\ Command(mac, do) \notin flying'
ObeyAnswered(mac, do) == Obey(mac, do) /\ Answer(mac) \in flying'
ReceiveLast(mac) == ReceiveAnswer(mac) /\ Answer(mac) \notin flying'

FairSpec ==
  /\ Spec
  /\ SF_vars(Looking)
  /\ WF_vars(Sending)
  /\ \A k \in Index : WF_vars(Elapsing(k))
  /\ \A m \in Macs \ Offline :
       /\ SF_vars(Reaching(m))
       /\ WF_vars(ReceiveLast(m))
       /\ \A do \in Switches : WF_vars(ObeyLast(m, do)) /\ SF_vars(ObeyAnswered(m, do))

-----------------------------------------------------------------------------
\* Every variable keeps its type; in particular no packet is made for an empty
\* entry, though a deleted one may keep something to do.
TypeOK ==
  /\ items \in [Index -> Item]
  /\ looked \in Index
  /\ packet \in Packets
  /\ flying \subseteq Commands \cup Answers

\* No light has two entries, whatever statuses arrive and however the list is
\* edited, through restarts as well: an answer ends the request of the first
\* entry with its MAC, so the other one would be sent for ever.  Only a restart
\* between the two writes of a move gives a light a second entry.
DistinctMacs ==
  ~ torn =>
    \A j, k \in Index : items[j].mac = items[k].mac /\ items[j].mac # NoMac => j = k

\* What WizListMain would send a light, and what waits to be sent to it, is what
\* was asked of it last.
TodoIsAsked ==
  ~ torn =>
    \A m \in Macs : asked[m] # Mixed =>
      /\ TodoOf(m) \in {Nothing, asked[m]}
      /\ \A do \in Switches : packet \in {One(m, do), All(do)} => do = asked[m]

\* A light hears nothing but what was asked of it last: no resend, no packet
\* left waiting and no datagram of an earlier request comes in between, unless
\* it was under way when the request was made.
OnlyAskedIsHeard ==
  ~ torn => \A m \in Macs : heard[m] \in {Nothing, asked[m]}

\* WizListMain stops sending a request only when the light has heard it, not for
\* the answer of another light.
AnsweredIsHeard ==
  ~ torn =>
    \A m \in Macs :
      IsListed(m) /\ asked[m] # Mixed /\ TodoOf(m) = Nothing => heard[m] = asked[m]

\* Once the list is no longer reordered, and if no move was cut short, a light that
\* can be reached hears what is asked of it, and WizListMain stops sending it,
\* unless something else is asked first: lost datagrams, registrations, broadcasts
\* in place of its packet and a light that never answers do not keep it from its
\* turn.
RequestIsMet ==
  <>[][~ \E k \in Index : MoveLight(k)]_vars =>
    \A m \in Macs \ Offline, do \in Switches :
      ~ torn /\ IsListed(m) /\ asked[m] = do ~>
        torn \/ asked[m] # do \/ (heard[m] = do /\ TodoOf(m) = Nothing)

=============================================================================
