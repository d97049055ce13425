--------------------------- MODULE WizLightsProofs ---------------------------
(***************************************************************************)
(* For every set of lights, every length of the list and every number of   *)
(* datagrams under way: the types; that no light ever has two entries; what*)
(* the list sends again, what the lights hear and when it stops asking; and*)
(* what is made of each datagram, whatever is in it.                       *)
(***************************************************************************)
EXTENDS WizLights, WizRecv, BasicProofs

\* What an entry becomes by a request or a look is an entry with the same MAC.
LEMMA RequestedTypes ==
  ASSUME NEW item \in Item, NEW do \in Switches
  PROVE  /\ Requested(item, do) \in Item
         /\ Requested(item, do).mac = item.mac /\ Requested(item, do).todo = do
  BY DEF Item, Requested

LEMMA LookedTypes ==
  ASSUME NEW item \in Item
  PROVE  Looked(item) \in Item /\ Looked(item).mac = item.mac
  BY DEF Item, Looked

LEMMA PacketTypes ==
  /\ NoPacket \in Packets /\ Register \in Packets
  /\ \A do \in Switches : All(do) \in Packets
  /\ \A do \in Switches, m \in Macs : One(m, do) \in Packets
<1>1. NoPacket \in Packets /\ Register \in Packets
  BY DEF Packets
<1>2. \A do \in Switches : All(do) \in Packets
  BY DEF Packets, All
<1>3. \A do \in Switches, m \in Macs : One(m, do) \in Packets
  BY DEF Packets, One
<1> QED
  BY <1>1, <1>2, <1>3

\* Where a packet goes there is a light, and it has something to say.
LEMMA DestinationTypes ==
  ASSUME packet \in Packets, NEW m \in Destinations
  PROVE  m \in Macs /\ packet.do \in Switches
<1>1. CASE packet = NoPacket
  BY <1>1 DEF NoPacket, Destinations
<1>2. CASE packet = Register
  BY <1>2 DEF Register, Destinations
<1>3. ASSUME NEW do \in Switches, packet = All(do)
      PROVE  m \in Macs /\ packet.do \in Switches
  BY <1>3 DEF All, Destinations
<1>4. ASSUME NEW l \in Macs, NEW do \in Switches, packet = One(l, do)
      PROVE  m \in Macs /\ packet.do \in Switches
  BY <1>4 DEF One, Destinations
<1> QED
  BY <1>1, <1>2, <1>3, <1>4 DEF Packets

LEMMA InitTypes == WorldInit => TypeOK
<1> SUFFICES ASSUME WorldInit PROVE TypeOK
  OBVIOUS
<1>1. items \in [Index -> Item]
  BY DEF WorldInit, Init, Loaded, Item
<1>2. looked \in Index
  BY WizListAssumption DEF WorldInit, Init, Index
<1> QED
  BY <1>1, <1>2, PacketTypes DEF TypeOK, WorldInit, Init

\* A step keeps the types.
LEMMA StepTypes == TypeOK /\ [Next]_vars => TypeOK'
<1> SUFFICES ASSUME TypeOK, [Next]_vars PROVE TypeOK'
  OBVIOUS
<1> USE DEF TypeOK
<1>1. ASSUME NEW macs \in SUBSET Macs, NEW do \in Switches, TurnSome(macs, do)
      PROVE  TypeOK'
  <2>1. items' \in [Index -> Item]
    BY <1>1, RequestedTypes DEF TurnSome, WizListTurn
  <2> QED
    BY <1>1, <2>1 DEF TurnSome, WizListTurn, Asking
<1>2. ASSUME NEW do \in Switches, TurnAll(do) PROVE TypeOK'
  <2>1. items' \in [Index -> Item]
    BY <1>2 DEF TurnAll, WizListTurnAll, Item
  <2>2. packet' \in Packets
    BY <1>2, PacketTypes DEF TurnAll, WizListTurnAll
  <2> QED
    BY <1>2, <2>1, <2>2 DEF TurnAll, WizListTurnAll, Asking
<1>3. ASSUME NEW k \in Index, MoveLight(k) PROVE TypeOK'
  <2>1. k - 1 \in Index
    BY <1>3, WizListAssumption DEF MoveLight, Move, Index
  <2>2. items[k] \in Item /\ items[k - 1] \in Item
    BY <2>1
  <2>3. items' \in [Index -> Item]
    BY <1>3, <2>1, <2>2 DEF MoveLight, Move, Item
  <2> QED
    BY <1>3, <2>3 DEF MoveLight, Move, Mixing
<1>4. ASSUME NEW k \in Index, DeleteLight(k) PROVE TypeOK'
  <2>1. items' \in [Index -> Item]
    BY <1>4 DEF DeleteLight, Delete, Item
  <2> QED
    BY <1>4, <2>1 DEF DeleteLight, Delete, Asking
<1>5. CASE Restart
  <2>1. items' \in [Index -> Item]
    BY <1>5 DEF Restart, WizListInit, Loaded, Item
  <2>2. looked' \in Index
    BY <1>5, WizListAssumption DEF Restart, WizListInit, Index
  <2> QED
    BY <1>5, <2>1, <2>2, PacketTypes DEF Restart, WizListInit, Asking
<1>6. CASE Registration /\ UNCHANGED worldVars
  BY <1>6, PacketTypes DEF Registration, worldVars
<1>7. CASE Looking
  <2> DEFINE k == (looked + 1) % MaxItems
  <2>1. k \in Index
    BY WizListAssumption DEF Index
  <2>2. Looked(items[k]) \in Item
    BY <2>1, LookedTypes
  <2>3. items' = [items EXCEPT ![k] = Looked(items[k])] /\ looked' = k
    BY <1>7, <2>1 DEF Looking, Look
  <2>4. items' \in [Index -> Item] /\ looked' \in Index
    BY <2>1, <2>2, <2>3
  <2>5. CASE IsDue(items[k])
    <3>1. items[k].mac \in Macs /\ items[k].todo \in Switches
      BY <2>1, <2>5 DEF IsDue, Item
    <3>2. packet' = One(items[k].mac, items[k].todo)
      BY <1>7, <2>5 DEF Looking, Look
    <3> QED
      BY <1>7, <2>4, <3>1, <3>2, PacketTypes DEF Looking, worldVars
  <2>6. CASE ~ IsDue(items[k])
    BY <1>7, <2>4, <2>6 DEF Looking, Look, worldVars
  <2> QED
    BY <2>5, <2>6
<1>8. ASSUME NEW k \in Index, Elapsing(k) PROVE TypeOK'
  <2>1. items' \in [Index -> Item]
    BY <1>8 DEF Elapsing, Elapse, Item
  <2> QED
    BY <1>8, <2>1 DEF Elapsing, Elapse, worldVars
<1>9. ASSUME NEW reached \in SUBSET Destinations, Send(reached) PROVE TypeOK'
  <2>1. \A m \in reached : Command(m, packet.do) \in Commands
    BY DestinationTypes DEF Commands
  <2>2. flying' \subseteq Commands \cup Answers
    BY <1>9, <2>1 DEF Send, PollForPacketToSend
  <2>3. packet' \in Packets /\ UNCHANGED <<items, looked>>
    BY <1>9, PacketTypes DEF Send, PollForPacketToSend
  <2> QED
    BY <2>2, <2>3
<1>10. ASSUME NEW m \in Macs, TellStatus(m) PROVE TypeOK'
  <2>1. PICK k : items' = [items EXCEPT ![k].mac = m]
    BY <1>10 DEF TellStatus, WizListStatusAdd
  <2>2. items' \in [Index -> Item]
    BY <2>1 DEF Item
  <2> QED
    BY <1>10, <2>2 DEF TellStatus, WizListStatusAdd, Mixing
<1>11. ASSUME NEW m \in Macs, NEW do \in Switches, Obey(m, do) PROVE TypeOK'
  <2>1. Answer(m) \in Answers
    BY DEF Answers
  <2> QED
    BY <1>11, <2>1 DEF Obey, listVars
<1>12. ASSUME NEW m \in Macs, ReceiveAnswer(m) PROVE TypeOK'
  <2>1. items' \in [Index -> Item]
    BY <1>12 DEF ReceiveAnswer, WizListReceivedSuccess, Item
  <2> QED
    BY <1>12, <2>1 DEF ReceiveAnswer, WizListReceivedSuccess
<1>13. ASSUME NEW k \in Index, NEW do \in Switches, TurnOne(k, do) PROVE TypeOK'
  <2>1. items' \in [Index -> Item]
    BY <1>13, RequestedTypes DEF TurnOne, WizListTurnIndex
  <2> QED
    BY <1>13, <2>1 DEF TurnOne, WizListTurnIndex, Asking
<1>14. ASSUME NEW k \in CutShort, TearMove(k) PROVE TypeOK'
  <2>1. k \in Index /\ k - 1 \in Index
    BY <1>14, WizListAssumption, WizLightsAssumption DEF TearMove, MoveCutShort, Index
  <2>2. PICK j \in {k - 1, k} :
          items' = [i \in Index |-> Loaded(items[IF i \in {k - 1, k} THEN j ELSE i].mac)]
    BY <1>14 DEF TearMove, MoveCutShort
  <2>3. items' \in [Index -> Item]
    BY <2>1, <2>2 DEF Loaded, Item
  <2>4. looked' \in Index
    BY <1>14, WizListAssumption DEF TearMove, MoveCutShort, Index
  <2> QED
    BY <1>14, <2>3, <2>4, PacketTypes DEF TearMove, MoveCutShort, Asking
<1>15. CASE UNCHANGED vars
  BY <1>15 DEF vars, listVars, worldVars
<1> QED
  BY <1>1, <1>2, <1>3, <1>4, <1>5, <1>6, <1>7, <1>8, <1>9, <1>10, <1>11, <1>12,
     <1>13, <1>14, <1>15 DEF Next, Sending

\* Every variable keeps its type, for any number of lights and entries.
THEOREM TypeCorrect == Spec => []TypeOK
  BY InitTypes, StepTypes, PTL DEF Spec

-----------------------------------------------------------------------------
(***************************************************************************)
(* As long as no move has been cut short, every light has one entry: this  *)
(* is kept by every other step, and whatever is torn stays so.             *)
(***************************************************************************)

OneEntryEach ==
  \A j, k \in Index : items[j].mac = items[k].mac /\ items[j].mac # NoMac => j = k

LEMMA DistinctIs == DistinctMacs <=> torn \/ OneEntryEach
  BY DEF DistinctMacs, OneEntryEach

LEMMA TornStays == [Next]_vars /\ ~ torn' => ~ torn /\ ~ \E k \in CutShort : TearMove(k)
<1> SUFFICES ASSUME [Next]_vars, ~ torn' PROVE ~ torn /\ ~ \E k \in CutShort : TearMove(k)
  OBVIOUS
<1>1. ~ \E k \in CutShort : TearMove(k)
  BY DEF TearMove
<1>2. UNCHANGED torn
  <2>1. CASE UNCHANGED vars
    BY <2>1 DEF vars, worldVars
  <2>2. CASE Next
    BY <1>1, <2>2 DEF Next, worldVars, TurnOne, TurnSome, TurnAll, MoveLight, DeleteLight,
       Restart, Looking, Elapsing, Sending, Send, TellStatus, Obey, ReceiveAnswer
  <2> QED
    BY <2>1, <2>2
<1> QED
  BY <1>1, <1>2

\* A light has one entry, so the first of them is any of them.
LEMMA OnlyEntry ==
  OneEntryEach =>
    \A m \in Macs, k \in Index :
      items[k].mac = m => EntriesOf(m) = {k} /\ First(EntriesOf(m)) = k
<1> SUFFICES ASSUME OneEntryEach, NEW m \in Macs, NEW k \in Index, items[k].mac = m
             PROVE  EntriesOf(m) = {k} /\ First(EntriesOf(m)) = k
  OBVIOUS
<1>1. EntriesOf(m) = {k}
  BY WizListAssumption DEF OneEntryEach, EntriesOf
<1>2. k <= k
  BY WizListAssumption DEF Index
<1> QED
  BY <1>1, <1>2 DEF First

\* So to turn an entry on or off is to turn a room of one light.
LEMMA TurnOneIsTurnSome ==
  ASSUME TypeOK, OneEntryEach, NEW k \in Index, NEW do \in Switches, TurnOne(k, do)
  PROVE  TurnSome({items[k].mac}, do) /\ {items[k].mac} \in SUBSET Macs
<1> DEFINE mac == items[k].mac
<1>1. mac \in Macs
  BY DEF TurnOne, WizListTurnIndex, TypeOK, Item
<1>2. EntriesOf(mac) = {k} /\ First(EntriesOf(mac)) = k
  BY <1>1, OnlyEntry
<1>3. items' = [items EXCEPT ![k] = Requested(items[k], do)]
  BY DEF TurnOne, WizListTurnIndex
<1>4. items' = [i \in Index |-> IF \E m \in {mac} : i = First(EntriesOf(m))
                               THEN Requested(items[i], do) ELSE items[i]]
  BY <1>2, <1>3 DEF TypeOK
<1>5. IsListed(mac)
  BY <1>2 DEF IsListed
<1> QED
  BY <1>1, <1>4, <1>5 DEF TurnOne, WizListTurnIndex, TurnSome, WizListTurn

\* A step that leaves every MAC where it is does not disturb the list.
SameMacs == \A k \in Index : items'[k].mac = items[k].mac

LEMMA SameMacsDistinct == OneEntryEach /\ SameMacs => OneEntryEach'
  BY DEF OneEntryEach, SameMacs

\* Requests, looks, answers and restarts leave the MACs where they are.
LEMMA StepKeepsMacs ==
  ASSUME TypeOK,
         \/ \E macs \in SUBSET Macs, do \in Switches : TurnSome(macs, do)
         \/ \E do \in Switches : TurnAll(do)
         \/ Restart
         \/ Looking
         \/ \E k \in Index : Elapsing(k)
         \/ \E m \in Macs : ReceiveAnswer(m)
  PROVE  SameMacs
<1> USE DEF TypeOK, SameMacs
<1>1. ASSUME NEW macs \in SUBSET Macs, NEW do \in Switches, TurnSome(macs, do)
      PROVE  SameMacs
  BY <1>1, RequestedTypes DEF TurnSome, WizListTurn
<1>2. ASSUME NEW do \in Switches, TurnAll(do) PROVE SameMacs
  BY <1>2 DEF TurnAll, WizListTurnAll, Item
<1>3. CASE Restart
  BY <1>3 DEF Restart, WizListInit, Loaded
<1>4. CASE Looking
  BY <1>4, LookedTypes DEF Looking, Look
<1>5. ASSUME NEW k \in Index, Elapsing(k) PROVE SameMacs
  BY <1>5 DEF Elapsing, Elapse, Item
<1>6. ASSUME NEW m \in Macs, ReceiveAnswer(m) PROVE SameMacs
  BY <1>6 DEF ReceiveAnswer, WizListReceivedSuccess, Item
<1> QED
  BY <1>1, <1>2, <1>3, <1>4, <1>5, <1>6

\* The other steps move, clear or add one MAC, or do not touch the list.
LEMMA StepDistinct == TypeOK /\ OneEntryEach /\ ~ torn' /\ [Next]_vars => OneEntryEach'
<1> SUFFICES ASSUME TypeOK, OneEntryEach, ~ torn', [Next]_vars PROVE OneEntryEach'
  OBVIOUS
<1> USE DEF TypeOK
<1>1. ASSUME SameMacs PROVE OneEntryEach'
  BY <1>1, SameMacsDistinct
<1>2. ASSUME NEW k \in Index, MoveLight(k) PROVE OneEntryEach'
  <2>1. k - 1 \in Index /\ k - 1 # k
    BY <1>2, WizListAssumption DEF MoveLight, Move, Index
  <2>2. /\ items'[k].mac = items[k - 1].mac
        /\ items'[k - 1].mac = items[k].mac
        /\ \A j \in Index \ {k, k - 1} : items'[j].mac = items[j].mac
    BY <1>2, <2>1 DEF MoveLight, Move, Item
  <2> QED
    BY <2>1, <2>2 DEF OneEntryEach
<1>3. ASSUME NEW k \in Index, DeleteLight(k) PROVE OneEntryEach'
  <2>1. /\ items'[k].mac = NoMac
        /\ \A j \in Index \ {k} : items'[j].mac = items[j].mac
    BY <1>3 DEF DeleteLight, Delete, Item
  <2> QED
    BY <2>1 DEF OneEntryEach
<1>4. ASSUME NEW m \in Macs, TellStatus(m) PROVE OneEntryEach'
  <2>1. PICK k \in NewEntry(m) : items' = [items EXCEPT ![k].mac = m]
    BY <1>4 DEF TellStatus, WizListStatusAdd
  <2>2. \A j \in Index : items[j].mac # m
    BY <2>1 DEF NewEntry, IsListed, EntriesOf
  <2>3. \A j \in Index : items'[j].mac = IF j = k THEN m ELSE items[j].mac
    BY <2>1 DEF Item
  <2> QED
    BY <2>2, <2>3 DEF OneEntryEach
<1>5. ASSUME UNCHANGED items PROVE OneEntryEach'
  BY <1>5 DEF OneEntryEach
<1>6. CASE Registration /\ UNCHANGED worldVars
  BY <1>5, <1>6 DEF Registration
<1>7. CASE Sending
  BY <1>5, <1>7 DEF Sending, Send, PollForPacketToSend
<1>8. ASSUME NEW m \in Macs, NEW do \in Switches, Obey(m, do) PROVE OneEntryEach'
  BY <1>5, <1>8 DEF Obey, listVars
<1>9. ASSUME NEW k \in Index, NEW do \in Switches, TurnOne(k, do) PROVE OneEntryEach'
  BY <1>1, <1>9, TurnOneIsTurnSome, StepKeepsMacs
<1>10. CASE UNCHANGED vars
  BY <1>5, <1>10 DEF vars, listVars
<1> QED
  BY <1>1, <1>2, <1>3, <1>4, <1>6, <1>7, <1>8, <1>9, <1>10, StepKeepsMacs, TornStays
     DEF Next

\* No light gets a second entry, for any number of lights and entries: by no status,
\* edit or restart but one between the two writes of a move.
THEOREM NoLightTwice == Spec => []DistinctMacs
<1>1. WorldInit => DistinctMacs
  BY DEF WorldInit, Init, Loaded, DistinctMacs
<1>2. TypeOK /\ DistinctMacs /\ [Next]_vars => DistinctMacs'
  <2>1. DistinctMacs' <=> torn' \/ OneEntryEach'
    BY DistinctIs, PTL
  <2> QED
    BY <2>1, DistinctIs, TornStays, StepDistinct
<1> QED
  BY <1>1, <1>2, InitTypes, StepTypes, PTL DEF Spec

-----------------------------------------------------------------------------
(* The requests.  OnlyAskedIsHeard and AnsweredIsHeard are not inductive: what a *)
(* light hears next depends on what is under way. *)

\* The history is about lights, and holds requests.
HistoryTypeOK ==
  /\ asked \in [Macs -> Switches \cup {Nothing, Mixed}]
  /\ heard \in [Macs -> Switches \cup {Nothing}]

\* What is outstanding for light m is what was asked of it last, and it stays
\* outstanding until the light has heard it.
ListIsCurrent(m) ==
  \A k \in Index : items[k].mac = m =>
    /\ items[k].todo \in {Nothing, asked[m]}
    /\ items[k].todo = Nothing => heard[m] = asked[m]

\* What is under way to light m, or waits to be sent to it, is what was asked of it
\* last; an answer under way says that it has heard that.
NetIsCurrent(m) ==
  /\ \A do \in Switches : Command(m, do) \in flying => do = asked[m]
  /\ \A do \in Switches : packet = One(m, do) \/ packet = All(do) => do = asked[m]
  /\ Answer(m) \in flying => heard[m] = asked[m]

LightInv(m) ==
  IF asked[m] = Mixed
  THEN heard[m] = Nothing
  ELSE heard[m] \in {Nothing, asked[m]} /\ ListIsCurrent(m) /\ NetIsCurrent(m)

RequestInv == HistoryTypeOK /\ \A m \in Macs : LightInv(m)

-----------------------------------------------------------------------------
\* Datagrams and packets that say different things are different.
LEMMA Messages ==
  ASSUME NEW m \in Macs, NEW do \in Switches, NEW l \in Macs, NEW d \in Switches
  PROVE  /\ Command(m, do) # Answer(l)
         /\ Command(m, do) = Command(l, d) => m = l /\ do = d
         /\ Answer(m) = Answer(l) => m = l
<1>1. Command(m, do) # Answer(l)
  <2>1. DOMAIN Command(m, do) = {"to", "do"} /\ DOMAIN Answer(l) = {"from"}
    BY DEF Command, Answer
  <2> QED
    BY <2>1
<1>2. Command(m, do) = Command(l, d) => m = l /\ do = d
  <2>1. Command(m, do).to = m /\ Command(m, do).do = do
    BY DEF Command
  <2>2. Command(l, d).to = l /\ Command(l, d).do = d
    BY DEF Command
  <2> QED
    BY <2>1, <2>2
<1>3. Answer(m) = Answer(l) => m = l
  <2>1. Answer(m).from = m /\ Answer(l).from = l
    BY DEF Answer
  <2> QED
    BY <2>1
<1> QED
  BY <1>1, <1>2, <1>3

LEMMA PacketsDiffer ==
  ASSUME NEW m \in Macs, NEW do \in Switches, NEW l \in Macs, NEW d \in Switches
  PROVE  /\ One(m, do) = One(l, d) => m = l /\ do = d
         /\ All(do) = All(d) => do = d
         /\ One(m, do) # All(d)
         /\ NoPacket # One(m, do) /\ NoPacket # All(do)
         /\ Register # One(m, do) /\ Register # All(do)
<1>1. One(m, do) = One(l, d) => m = l /\ do = d
  <2>1. One(m, do).mac = m /\ One(m, do).do = do /\ One(l, d).mac = l /\ One(l, d).do = d
    BY DEF One
  <2> QED
    BY <2>1
<1>2. All(do) = All(d) => do = d
  <2>1. All(do).do = do /\ All(d).do = d
    BY DEF All
  <2> QED
    BY <2>1
<1>3. One(m, do).kind = "one" /\ All(do).kind = "all" /\ All(d).kind = "all"
      /\ NoPacket.kind = "none" /\ Register.kind = "register"
  BY DEF One, All, NoPacket, Register
<1> QED
  BY <1>1, <1>2, <1>3

\* What is outstanding for a light is what its entry says.
EntriesSay ==
  \A m \in Macs : /\ \A k \in Index : items[k].mac = m => TodoOf(m) = items[k].todo
                  /\ IsListed(m) <=> \E k \in Index : items[k].mac = m
                  /\ ~ IsListed(m) => TodoOf(m) = Nothing

LEMMA EntryTodo == OneEntryEach => EntriesSay
<1> SUFFICES ASSUME OneEntryEach, NEW m \in Macs
             PROVE  /\ \A k \in Index : items[k].mac = m => TodoOf(m) = items[k].todo
                    /\ IsListed(m) <=> \E k \in Index : items[k].mac = m
                    /\ ~ IsListed(m) => TodoOf(m) = Nothing
  BY DEF EntriesSay
<1>1. IsListed(m) <=> \E k \in Index : items[k].mac = m
  BY DEF IsListed, EntriesOf
<1> QED
  BY <1>1, OnlyEntry DEF TodoOf

LEMMA EntryTodoNext == OneEntryEach' => EntriesSay'
  BY EntryTodo, PTL

LEMMA InitRequests == WorldInit => RequestInv
<1> SUFFICES ASSUME WorldInit PROVE RequestInv
  OBVIOUS
<1> USE DEF WorldInit, Init, Loaded
<1>1. HistoryTypeOK
  BY DEF HistoryTypeOK
<1>2. ASSUME NEW m \in Macs PROVE LightInv(m)
  <2>1. ListIsCurrent(m)
    BY DEF ListIsCurrent
  <2>2. NetIsCurrent(m)
    BY PacketsDiffer DEF NetIsCurrent
  <2> QED
    BY <2>1, <2>2, WizLightsAssumption DEF LightInv
<1> QED
  BY <1>1, <1>2 DEF RequestInv

-----------------------------------------------------------------------------
(***************************************************************************)
(* The steps: requests and edits ask (Asking) or mix up (Mixing), the      *)
(* others leave asked alone.                                               *)
(***************************************************************************)

LEMMA StepHistory == HistoryTypeOK /\ [Next]_vars => HistoryTypeOK'
<1> SUFFICES ASSUME HistoryTypeOK, [Next]_vars PROVE HistoryTypeOK'
  OBVIOUS
<1> USE DEF HistoryTypeOK
<1>1. ASSUME NEW macs, NEW do \in Switches \cup {Nothing}, Asking(macs, do)
      PROVE  HistoryTypeOK'
  BY <1>1 DEF Asking
<1>2. ASSUME NEW macs, Mixing(macs) PROVE HistoryTypeOK'
  BY <1>2 DEF Mixing
<1>3. ASSUME UNCHANGED <<asked, heard>> PROVE HistoryTypeOK'
  BY <1>3
<1>4. ASSUME NEW m \in Macs, NEW do \in Switches, Obey(m, do) PROVE HistoryTypeOK'
  BY <1>4 DEF Obey
<1> QED
  BY <1>1, <1>2, <1>3, <1>4
     DEF Next, TurnOne, TearMove, TurnSome, TurnAll, MoveLight, DeleteLight, Restart, worldVars, vars,
         Looking, Elapsing, Sending, Send, TellStatus, ReceiveAnswer

\* What is not stale when a light is asked is current from then on.
LEMMA AskingNet ==
  ASSUME NEW macs, NEW do \in Switches \cup {Nothing}, Asking(macs, do),
         NEW m \in Macs, m \in macs
  PROVE  /\ heard'[m] = Nothing
         /\ asked'[m] = Mixed \/ (asked'[m] = do /\ NetIsCurrent(m)')
<1>1. heard'[m] = Nothing
  BY DEF Asking
<1>2. ASSUME asked'[m] # Mixed PROVE asked'[m] = do /\ NetIsCurrent(m)'
  <2>1. asked'[m] = do /\ ~ IsStale(m, do, packet') /\ flying' = flying
    BY <1>2 DEF Asking
  <2> QED
    BY <2>1 DEF IsStale, NetIsCurrent
<1> QED
  BY <1>1, <1>2

LEMMA StepRequests ==
  TypeOK /\ OneEntryEach /\ RequestInv /\ ~ torn' /\ [Next]_vars => RequestInv'
<1> SUFFICES ASSUME TypeOK, OneEntryEach, RequestInv, ~ torn', [Next]_vars,
                    NEW m \in Macs
             PROVE  LightInv(m)'
  BY StepHistory DEF RequestInv
<1>1. LightInv(m) /\ HistoryTypeOK
  BY DEF RequestInv
<1>2. OneEntryEach' /\ TypeOK'
  BY StepDistinct, StepTypes
<1>3. asked[m] \in Switches \cup {Nothing, Mixed}
  BY <1>1 DEF HistoryTypeOK
<1>4. ASSUME UNCHANGED <<flying, packet, asked, heard>> PROVE NetIsCurrent(m) => NetIsCurrent(m)'
  BY <1>4 DEF NetIsCurrent
<1>5. ASSUME UNCHANGED items, UNCHANGED <<asked, heard>>
      PROVE  ListIsCurrent(m) => ListIsCurrent(m)'
  BY <1>5 DEF ListIsCurrent
<1>6. ASSUME asked'[m] = Mixed, heard'[m] = Nothing PROVE LightInv(m)'
  BY <1>6 DEF LightInv
<1>7. ASSUME asked'[m] # Mixed, heard'[m] = Nothing, NetIsCurrent(m)', ListIsCurrent(m)'
      PROVE  LightInv(m)'
  BY <1>7 DEF LightInv
<1>11. ASSUME NEW macs \in SUBSET Macs, NEW do \in Switches, TurnSome(macs, do)
       PROVE  LightInv(m)'
  <2>1. Asking(macs, do) /\ UNCHANGED <<looked, packet, flying>>
    BY <1>11 DEF TurnSome, WizListTurn, Asking
  <2>2. \A k \in Index :
          items'[k] = IF \E l \in macs : k = First(EntriesOf(l))
                      THEN Requested(items[k], do) ELSE items[k]
    BY <1>11 DEF TurnSome, WizListTurn
  <2>3. \A k \in Index : items'[k].mac = items[k].mac
    BY <2>2, RequestedTypes DEF TypeOK
  <2>4. \A l \in macs : \E k \in Index : items[k].mac = l /\ First(EntriesOf(l)) = k
    BY <1>11, EntryTodo, OnlyEntry DEF TurnSome, WizListTurn, EntriesSay
  <2>5. CASE m \in macs
    <3>1. \A k \in Index : items'[k].mac = m => items'[k].todo = do
      <4>1. \A k \in Index : items[k].mac = m => k = First(EntriesOf(m))
        BY OnlyEntry
      <4>2. \A k \in Index : Requested(items[k], do).todo = do
        BY RequestedTypes DEF TypeOK
      <4> QED
        BY <2>2, <2>3, <2>5, <4>1, <4>2
    <3>2. asked'[m] = do => ListIsCurrent(m)'
      BY <3>1, WizListAssumption DEF ListIsCurrent
    <3> QED
      BY <2>1, <2>5, <3>2, <1>6, <1>7, AskingNet
  <2>6. CASE m \notin macs
    <3>1. \A k \in Index : items[k].mac = m => items'[k] = items[k]
      BY <2>2, <2>4, <2>6
    <3>2. asked'[m] = asked[m] /\ heard'[m] = heard[m]
      BY <2>1, <2>6 DEF Asking
    <3>3. ListIsCurrent(m) => ListIsCurrent(m)'
      BY <2>3, <3>1, <3>2 DEF ListIsCurrent
    <3>4. NetIsCurrent(m) => NetIsCurrent(m)'
      BY <2>1, <3>2 DEF NetIsCurrent
    <3> QED
      BY <1>1, <3>2, <3>3, <3>4 DEF LightInv
  <2> QED
    BY <2>5, <2>6
<1>12. ASSUME NEW do \in Switches, TurnAll(do) PROVE LightInv(m)'
  <2>1. \A k \in Index : items'[k].mac = m => items'[k].todo = do
    BY <1>12, WizListAssumption DEF TurnAll, WizListTurnAll, TypeOK, Item
  <2>2. asked'[m] = do => ListIsCurrent(m)'
    BY <2>1, WizListAssumption DEF ListIsCurrent
  <2> QED
    BY <1>12, <2>2, <1>6, <1>7, AskingNet DEF TurnAll
<1>13. ASSUME NEW k \in Index, MoveLight(k) PROVE LightInv(m)'
  <2>1. /\ Mixing({l \in Macs : TodoOf(l)' # TodoOf(l)})
        /\ UNCHANGED <<looked, packet, flying>>
    BY <1>13 DEF MoveLight, Move, Mixing
  <2>2. CASE TodoOf(m)' # TodoOf(m)
    BY <2>1, <2>2, <1>6 DEF Mixing
  <2>3. CASE TodoOf(m)' = TodoOf(m)
    <3>1. asked'[m] = asked[m] /\ heard'[m] = heard[m]
      BY <2>1, <2>3 DEF Mixing
    <3>2. k - 1 \in Index
      BY <1>13, WizListAssumption DEF MoveLight, Move, Index
    <3>3. ASSUME NEW j \in Index, items'[j].mac = m
          PROVE  \E i \in Index : items[i].mac = m /\ items[i].todo = items'[j].todo
      <4>1. \E i \in Index : items[i].mac = m
        BY <1>13, <3>2, <3>3 DEF MoveLight, Move, TypeOK, Item
      <4>2. \A i \in Index : items[i].mac = m => TodoOf(m) = items[i].todo
        BY EntryTodo DEF EntriesSay
      <4>3. TodoOf(m)' = items'[j].todo
        BY <1>2, <3>3, EntryTodoNext DEF EntriesSay
      <4> QED
        BY <2>3, <4>1, <4>2, <4>3
    <3>4. ListIsCurrent(m) => ListIsCurrent(m)'
      BY <3>1, <3>3 DEF ListIsCurrent
    <3>5. NetIsCurrent(m) => NetIsCurrent(m)'
      BY <2>1, <3>1 DEF NetIsCurrent
    <3> QED
      BY <1>1, <3>1, <3>4, <3>5 DEF LightInv
  <2> QED
    BY <2>2, <2>3
<1>14. ASSUME NEW k \in Index, DeleteLight(k) PROVE LightInv(m)'
  <2>1. Asking({items[k].mac}, Nothing) /\ UNCHANGED <<looked, packet, flying>>
    BY <1>14 DEF DeleteLight, Delete, Asking
  <2>2. /\ items'[k].mac = NoMac
        /\ \A j \in Index \ {k} : items'[j] = items[j]
    BY <1>14 DEF DeleteLight, Delete, TypeOK, Item
  <2>3. CASE m = items[k].mac
    <3>1. \A j \in Index : items'[j].mac # m
      BY <2>2, <2>3, WizListAssumption DEF OneEntryEach
    <3>2. ListIsCurrent(m)'
      BY <3>1 DEF ListIsCurrent
    <3> QED
      BY <2>1, <2>3, <3>2, <1>6, <1>7, AskingNet
  <2>4. CASE m # items[k].mac
    <3>1. asked'[m] = asked[m] /\ heard'[m] = heard[m]
      BY <2>1, <2>4 DEF Asking
    <3>2. ListIsCurrent(m) => ListIsCurrent(m)'
      BY <2>2, <3>1, WizListAssumption DEF ListIsCurrent
    <3>3. NetIsCurrent(m) => NetIsCurrent(m)'
      BY <2>1, <3>1 DEF NetIsCurrent
    <3> QED
      BY <1>1, <3>1, <3>2, <3>3 DEF LightInv
  <2> QED
    BY <2>3, <2>4
<1>15. CASE Restart
  <2>1. \A k \in Index : items'[k].todo = Nothing
    BY <1>15 DEF Restart, WizListInit, Loaded
  <2>2. asked'[m] = Nothing /\ heard'[m] = Nothing => ListIsCurrent(m)'
    BY <2>1 DEF ListIsCurrent
  <2> QED
    BY <1>15, <2>2, <1>6, <1>7, AskingNet DEF Restart
<1>16. CASE Registration /\ UNCHANGED worldVars
  <2>1. UNCHANGED <<items, flying, asked, heard>> /\ packet' = Register
    BY <1>16 DEF Registration, worldVars
  <2>2. NetIsCurrent(m) => NetIsCurrent(m)'
    BY <2>1, PacketsDiffer DEF NetIsCurrent
  <2> QED
    BY <1>1, <1>5, <2>1, <2>2 DEF LightInv
<1>17. CASE Looking
  <2> DEFINE k == (looked + 1) % MaxItems
  <2>1. k \in Index
    BY WizListAssumption DEF Index, TypeOK
  <2>2. /\ UNCHANGED <<flying, asked, heard>>
        /\ items' = [items EXCEPT ![k] = Looked(items[k])]
        /\ packet = NoPacket
        /\ packet' = IF IsDue(items[k]) THEN One(items[k].mac, items[k].todo) ELSE packet
    BY <1>17, <2>1 DEF Looking, Look, worldVars
  <2>3. \A j \in Index : items'[j].mac = items[j].mac /\ items'[j].todo = items[j].todo
    BY <2>1, <2>2 DEF TypeOK, Item, Looked
  <2>4. ListIsCurrent(m) => ListIsCurrent(m)'
    BY <2>2, <2>3 DEF ListIsCurrent
  <2>5. ListIsCurrent(m) /\ NetIsCurrent(m) => NetIsCurrent(m)'
    <3>1. CASE IsDue(items[k])
      <4>1. items[k].mac \in Macs /\ items[k].todo \in Switches
        BY <2>1, <3>1 DEF IsDue, TypeOK, Item
      <4>2. packet' = One(items[k].mac, items[k].todo)
        BY <2>2, <3>1
      <4>3. \A do \in Switches : packet' # All(do) /\
              (packet' = One(m, do) => items[k].mac = m /\ items[k].todo = do)
        BY <4>1, <4>2, PacketsDiffer
      <4> QED
        BY <2>1, <2>2, <4>1, <4>3, WizListAssumption DEF ListIsCurrent, NetIsCurrent
    <3>2. CASE ~ IsDue(items[k])
      BY <1>4, <2>2, <3>2
    <3> QED
      BY <3>1, <3>2
  <2> QED
    BY <1>1, <2>2, <2>4, <2>5 DEF LightInv
<1>18. ASSUME NEW k \in Index, Elapsing(k) PROVE LightInv(m)'
  <2>1. UNCHANGED <<flying, packet, asked, heard>>
    BY <1>18 DEF Elapsing, Elapse, worldVars
  <2>2. \A j \in Index : items'[j].mac = items[j].mac /\ items'[j].todo = items[j].todo
    BY <1>18 DEF Elapsing, Elapse, TypeOK, Item
  <2>3. ListIsCurrent(m) => ListIsCurrent(m)'
    BY <2>1, <2>2 DEF ListIsCurrent
  <2> QED
    BY <1>1, <1>4, <2>1, <2>3 DEF LightInv
<1>19. ASSUME NEW reached \in SUBSET Destinations, Send(reached) PROVE LightInv(m)'
  <2>1. /\ UNCHANGED <<items, asked, heard>>
        /\ flying' = flying \cup {Command(l, packet.do) : l \in reached}
        /\ packet' = NoPacket
    BY <1>19 DEF Send, PollForPacketToSend
  <2>2. \A l \in reached : l \in Macs /\ packet.do \in Switches
    BY DestinationTypes DEF TypeOK
  <2>3. ASSUME m \in reached PROVE packet = One(m, packet.do) \/ packet = All(packet.do)
    <3>1. CASE packet \in {NoPacket, Register}
      BY <2>3, <3>1 DEF Destinations, NoPacket, Register
    <3>2. ASSUME NEW do \in Switches, packet = All(do) PROVE packet = All(packet.do)
      BY <3>2 DEF All
    <3>3. ASSUME NEW l \in Macs, NEW do \in Switches, packet = One(l, do)
          PROVE  packet = One(m, packet.do)
      <4>1. packet.kind = "one" /\ packet.mac = l /\ packet.do = do
        BY <3>3 DEF One
      <4> QED
        BY <2>3, <3>3, <4>1 DEF Destinations
    <3> QED
      BY <3>1, <3>2, <3>3 DEF TypeOK, Packets
  <2>4. NetIsCurrent(m) => NetIsCurrent(m)'
    BY <2>1, <2>2, <2>3, Messages, PacketsDiffer DEF NetIsCurrent
  <2> QED
    BY <1>1, <1>5, <2>1, <2>4 DEF LightInv
<1>20. ASSUME NEW l \in Macs, TellStatus(l) PROVE LightInv(m)'
  <2>1. PICK k \in NewEntry(l) : items' = [items EXCEPT ![k].mac = l]
    BY <1>20 DEF TellStatus, WizListStatusAdd
  <2>2. /\ Mixing({l} \ {j \in Macs : TodoOf(j)' = asked[j]})
        /\ UNCHANGED <<looked, packet, flying>>
    BY <1>20 DEF TellStatus, WizListStatusAdd, Mixing
  <2>3. \A j \in Index : /\ items'[j].mac = IF j = k THEN l ELSE items[j].mac
                         /\ items'[j].todo = items[j].todo
    BY <2>1 DEF TypeOK, Item
  <2>4. CASE asked'[m] = Mixed /\ heard'[m] = Nothing
    BY <2>4, <1>6
  <2>5. CASE asked'[m] = asked[m] /\ heard'[m] = heard[m]
    <3>1. NetIsCurrent(m) => NetIsCurrent(m)'
      BY <2>2, <2>5 DEF NetIsCurrent
    <3>2. CASE m # l
      <4>1. ListIsCurrent(m) => ListIsCurrent(m)'
        BY <2>3, <2>5, <3>2 DEF ListIsCurrent
      <4> QED
        BY <1>1, <2>5, <3>1, <4>1 DEF LightInv
    <3>3. CASE m = l /\ TodoOf(m)' = asked[m]
      <4>1. \A j \in Index : items'[j].mac = m => items'[j].todo = asked[m]
        BY <1>2, <3>3, EntryTodoNext DEF EntriesSay
      <4>2. LightInv(m) /\ asked[m] # Mixed => ListIsCurrent(m)'
        BY <2>5, <4>1 DEF LightInv, ListIsCurrent
      <4> QED
        BY <1>1, <2>5, <3>1, <4>2 DEF LightInv
    <3>4. CASE m = l /\ TodoOf(m)' # asked[m]
      BY <2>2, <2>5, <3>4, <1>6 DEF Mixing
    <3> QED
      BY <3>2, <3>3, <3>4
  <2> QED
    BY <2>2, <2>4, <2>5 DEF Mixing
<1>21. ASSUME NEW l \in Macs, NEW do \in Switches, Obey(l, do) PROVE LightInv(m)'
  <2>1. /\ UNCHANGED <<items, packet, asked>>
        /\ Command(l, do) \in flying
        /\ heard' = [heard EXCEPT ![l] = IF asked[l] = Mixed THEN heard[l] ELSE do]
        /\ flying' \subseteq flying \cup {Answer(l)}
    BY <1>21 DEF Obey, listVars
  <2>2. CASE asked[m] = Mixed
    BY <1>1, <2>1, <2>2 DEF LightInv, HistoryTypeOK
  <2>3. CASE asked[m] # Mixed
    <3>1. heard[m] \in {Nothing, asked[m]} /\ ListIsCurrent(m) /\ NetIsCurrent(m)
      BY <1>1, <2>3 DEF LightInv
    <3>2. m = l => do = asked[m]
      BY <2>1, <3>1 DEF NetIsCurrent
    <3>3. heard'[m] = IF m = l THEN asked[m] ELSE heard[m]
      BY <1>1, <2>1, <2>3, <3>2 DEF HistoryTypeOK
    <3>4. ListIsCurrent(m)'
      BY <2>1, <3>1, <3>3 DEF ListIsCurrent
    <3>5. NetIsCurrent(m)'
      BY <2>1, <3>1, <3>3, Messages DEF NetIsCurrent
    <3> QED
      BY <2>1, <2>3, <3>1, <3>3, <3>4, <3>5 DEF LightInv
  <2> QED
    BY <2>2, <2>3
<1>22. ASSUME NEW l \in Macs, ReceiveAnswer(l) PROVE LightInv(m)'
  <2>1. /\ UNCHANGED <<packet, asked, heard>>
        /\ Answer(l) \in flying
        /\ flying' \subseteq flying
    BY <1>22 DEF ReceiveAnswer, WizListReceivedSuccess
  <2>2. NetIsCurrent(m) => NetIsCurrent(m)'
    BY <2>1 DEF NetIsCurrent
  <2>3. \A k \in Index :
          /\ items'[k].mac = items[k].mac
          /\ items'[k].todo = IF k \in Answering(l) THEN Nothing ELSE items[k].todo
    BY <1>22 DEF ReceiveAnswer, WizListReceivedSuccess, TypeOK, Item
  <2>4. \A k \in Answering(l) : k \in Index => items[k].mac = l
    BY EntryTodo, OnlyEntry DEF Answering, EntriesSay
  <2>5. ListIsCurrent(m) /\ NetIsCurrent(m) => ListIsCurrent(m)'
    BY <2>1, <2>3, <2>4 DEF ListIsCurrent, NetIsCurrent
  <2> QED
    BY <1>1, <2>1, <2>2, <2>5 DEF LightInv
<1>23. ASSUME NEW k \in Index, NEW do \in Switches, TurnOne(k, do) PROVE LightInv(m)'
  BY <1>11, <1>23, TurnOneIsTurnSome
<1>24. CASE UNCHANGED vars
  BY <1>1, <1>4, <1>5, <1>24 DEF vars, listVars, worldVars, LightInv
<1> QED
  BY <1>11, <1>12, <1>13, <1>14, <1>15, <1>16, <1>17, <1>18, <1>19, <1>20, <1>21,
     <1>22, <1>23, <1>24, TornStays DEF Next, Sending

LEMMA RequestsHold == Spec => [](torn \/ (OneEntryEach /\ RequestInv))
<1> DEFINE Inv == torn \/ (OneEntryEach /\ RequestInv)
<1>1. WorldInit => Inv
  BY InitRequests DEF WorldInit, Init, Loaded, OneEntryEach
<1>2. TypeOK /\ Inv /\ [Next]_vars => Inv'
  BY TornStays, StepDistinct, StepRequests
<1> QED
  BY <1>1, <1>2, InitTypes, StepTypes, PTL DEF Spec

-----------------------------------------------------------------------------
\* What WizListMain sends a light, again and again, and what waits to be sent to it,
\* is what was asked of it last, for any number of lights, entries and datagrams
\* under way.
THEOREM NothingElseIsSent == Spec => []TodoIsAsked
<1>1. torn \/ (OneEntryEach /\ RequestInv) => TodoIsAsked
  <2> SUFFICES ASSUME OneEntryEach, RequestInv, NEW m \in Macs, asked[m] # Mixed
               PROVE  /\ TodoOf(m) \in {Nothing, asked[m]}
                      /\ \A do \in Switches : packet \in {One(m, do), All(do)} => do = asked[m]
    BY DEF TodoIsAsked
  <2>1. ListIsCurrent(m) /\ NetIsCurrent(m)
    BY DEF RequestInv, LightInv
  <2>2. TodoOf(m) \in {Nothing, asked[m]}
    BY <2>1, EntryTodo DEF EntriesSay, ListIsCurrent
  <2> QED
    BY <2>1, <2>2 DEF NetIsCurrent
<1> QED
  BY <1>1, RequestsHold, PTL

\* A light hears nothing but what was asked of it last: no resend, no packet left
\* waiting and no datagram of an earlier request comes in between.
THEOREM NothingElseIsHeard == Spec => []OnlyAskedIsHeard
<1>1. torn \/ (OneEntryEach /\ RequestInv) => OnlyAskedIsHeard
  BY DEF RequestInv, LightInv, OnlyAskedIsHeard
<1> QED
  BY <1>1, RequestsHold, PTL

\* The list stops asking a light only when the light has heard it.
THEOREM AskedUntilHeard == Spec => []AnsweredIsHeard
<1>1. torn \/ (OneEntryEach /\ RequestInv) => AnsweredIsHeard
  <2> SUFFICES ASSUME OneEntryEach, RequestInv,
                      NEW m \in Macs, IsListed(m), asked[m] # Mixed, TodoOf(m) = Nothing
               PROVE  heard[m] = asked[m]
    BY DEF AnsweredIsHeard
  <2>1. ListIsCurrent(m)
    BY DEF RequestInv, LightInv
  <2> QED
    BY <2>1, EntryTodo DEF EntriesSay, ListIsCurrent
<1> QED
  BY <1>1, RequestsHold, PTL

-----------------------------------------------------------------------------
(* WizRecv: a datagram is read a character or a text at a time. *)

LEMMA Characters ==
  /\ Begin # End /\ Begin # Colon /\ Begin # Comma /\ End # Colon /\ End # Comma /\ Colon # Comma
  /\ Blank \notin Punctuation /\ Blank \notin Names
BY Zenon DEF Begin, End, Colon, Comma, Blank, Punctuation, Names

\* The pair under way, when the texts are those of T.
Pairs(T) == [name : T, value : T, open : {"name", "value"}, fields : [Names -> T]]

LEMMA DecodeTypes ==
  ASSUME NEW T, Blank \in T, NEW x \in Pairs(T), NEW token \in T
  PROVE  DecodeToken(x, token) \in Pairs(T)
<1>1. HandleNameValue(x) \in [Names -> T]
  BY DEF HandleNameValue, Pairs
<1>2. \A f \in [Names -> T] : Fresh(f) \in Pairs(T)
  BY DEF Fresh, Pairs
<1>3. CASE token \in {Begin, End, Comma}
  <2>1. DecodeToken(x, token) = Fresh(HandleNameValue(x))
    BY <1>3, Characters DEF DecodeToken, Punctuation
  <2> QED
    BY <1>1, <1>2, <2>1
<1>4. CASE token = Colon
  <2>1. DecodeToken(x, token) = [x EXCEPT !.open = "value", !.value = Blank]
    BY <1>4 DEF DecodeToken, Punctuation
  <2> QED
    BY <2>1 DEF Pairs
<1>5. CASE token \notin Punctuation /\ x.open = "name"
  <2>1. DecodeToken(x, token) = [x EXCEPT !.name = token]
    BY <1>5 DEF DecodeToken, Punctuation
  <2> QED
    BY <2>1 DEF Pairs
<1>6. CASE token \notin Punctuation /\ x.open = "value"
  <2>1. DecodeToken(x, token) = [x EXCEPT !.value = token]
    BY <1>6 DEF DecodeToken, Punctuation
  <2> QED
    BY <2>1 DEF Pairs
<1>7. x.open \in {"name", "value"}
  BY DEF Pairs
<1> QED
  BY <1>3, <1>4, <1>5, <1>6, <1>7 DEF Punctuation

\* A datagram of so many texts and characters of T.
IsPacket(datagram, last, T) ==
  last \in Nat /\ datagram \in Seq(T) /\ Len(datagram) = last

\* Decoding goes from pair to pair, a character or text at a time.
LEMMA Decoding ==
  ASSUME NEW T, Blank \in T, NEW kept \in [Names -> T], NEW datagram, NEW last \in Nat,
         IsPacket(datagram, last, T)
  PROVE  \E after \in [0 .. last -> Pairs(T)] :
           /\ after[0] = Fresh(kept)
           /\ \A n \in 1 .. last : after[n] = DecodeToken(after[n - 1], datagram[n])
           /\ DecodedFrom(kept, datagram) = HandleNameValue(after[last])
<1> DEFINE X == Pairs(T)
           step == [p \in (0 .. last) \X X |->
                      IF p[1] = 0 THEN p[2] ELSE DecodeToken(p[2], datagram[p[1]])]
           start == Fresh(kept)
           IsRun(g) == g = [n \in 0 .. last |->
                              IF n = 0 THEN start ELSE DecodeToken(g[n - 1], datagram[n])]
<1>1. start \in X
  BY DEF Fresh, Pairs
<1>2. IsStepUpTo(step, last, X)
  <2> SUFFICES ASSUME NEW n \in 0 .. last, NEW x \in X, n # 0 PROVE DecodeToken(x, datagram[n]) \in X
    BY DEF IsStepUpTo, IsStep
  <2>1. datagram[n] \in T
    BY DEF IsPacket
  <2> QED
    BY <2>1, DecodeTypes
<1>3. \A n \in 0 .. last, x \in X : n # 0 => step[<<n, x>>] = DecodeToken(x, datagram[n])
  OBVIOUS
<1> HIDE DEF step, X, start
<1>4. PICK f \in [0 .. last -> X] :
        f[0] = start /\ \A n \in 1 .. last : f[n] = step[<<n, f[n - 1]>>]
  BY <1>1, <1>2, RecursionUpTo
<1>6. \A n \in 0 .. last : f[n] = IF n = 0 THEN start ELSE DecodeToken(f[n - 1], datagram[n])
  <2> SUFFICES ASSUME NEW n \in 0 .. last, n # 0 PROVE f[n] = DecodeToken(f[n - 1], datagram[n])
    BY <1>4
  <2>1. n - 1 \in 0 .. last
    OBVIOUS
  <2>2. f[n] = step[<<n, f[n - 1]>>] /\ f[n - 1] \in X
    BY <1>4, <2>1
  <2> QED
    BY <1>3, <2>2
<1>7. IsRun(f)
  <2>1. f = [n \in 0 .. last |-> f[n]]
    BY <1>4
  <2> QED
    BY <1>6, <2>1
<1> DEFINE after == CHOOSE g : IsRun(g)
<1>8. IsRun(after)
  BY <1>7
<1>9. DecodedFrom(kept, datagram) = HandleNameValue(after[last])
  BY DEF DecodedFrom, start, IsPacket
<1> HIDE DEF after
<1>10. \A n \in 0 .. last : after[n] = IF n = 0 THEN start ELSE DecodeToken(after[n - 1], datagram[n])
  BY <1>8
<1>11. after[0] = Fresh(kept)
  BY <1>10 DEF start
<1>12. \A n \in 1 .. last : after[n] = DecodeToken(after[n - 1], datagram[n])
  BY <1>10
<1>13. after \in [0 .. last -> X]
  <2> DEFINE Good == {n \in Nat : n <= last => after[n] \in X}
  <2>1. 0 \in Good
    BY <1>1, <1>11 DEF start
  <2>2. ASSUME NEW n \in Nat, n \in Good PROVE n + 1 \in Good
    <3> SUFFICES ASSUME n + 1 <= last PROVE after[n + 1] \in X
      OBVIOUS
    <3>1. (n + 1) - 1 = n /\ n + 1 \in 1 .. last
      OBVIOUS
    <3>2. after[n] \in X /\ datagram[n + 1] \in T
      BY <2>2, <3>1 DEF IsPacket
    <3>3. after[n + 1] = DecodeToken(after[n], datagram[n + 1])
      BY <1>12, <3>1
    <3> QED
      BY <3>2, <3>3, DecodeTypes DEF X
  <2> HIDE DEF Good
  <2>3. Nat \subseteq Good
    BY <2>1, <2>2, Induction
  <2>4. \A n \in 0 .. last : after[n] \in X
    BY <2>3 DEF Good
  <2>5. after = [n \in 0 .. last |-> after[n]]
    BY <1>8
  <2> QED
    BY <2>4, <2>5
<1> QED
  BY <1>9, <1>11, <1>12, <1>13 DEF X

-----------------------------------------------------------------------------
(* What a light sends. *)

\* The characters and texts of a datagram.
IsTexts(T, method, inner) ==
  Punctuation \cup {Blank, "method", "env", "pro", method, inner} \subseteq T

\* How many characters and texts the members of an object take.
Width(n) == IF n = 0 THEN 0 ELSE 4 * n - 1

\* M is the n members, one after the other.
AreMembers(M, members, n) ==
  /\ \A k \in 1 .. n : /\ M[4 * k - 3] = members[k][1]
                       /\ M[4 * k - 2] = Colon
                       /\ M[4 * k - 1] = members[k][2]
  /\ \A k \in 1 .. n - 1 : M[4 * k] = Comma

LEMMA MembersAre ==
  ASSUME NEW T, Punctuation \subseteq T, NEW members \in Seq(T \X T), NEW n \in Nat, n = Len(members)
  PROVE  /\ IsPacket(Members(members), Width(n), T)
         /\ AreMembers(Members(members), members, n)
<1>1. members = <<>> <=> n = 0
  OBVIOUS
<1>2. Width(n) \in Nat
  BY DEF Width
<1> DEFINE Of(i) == LET member == members[(i + 3) \div 4]
                    IN  CASE i % 4 = 1 -> member[1] [] i % 4 = 2 -> Colon [] i % 4 = 3 -> member[2]
                          [] i % 4 = 0 -> Comma
<1>3. Members(members) = [i \in 1 .. Width(n) |-> Of(i)]
  BY <1>1 DEF Members, Width
<1>4. ASSUME NEW k \in 1 .. n
      PROVE  /\ Of(4 * k - 3) = members[k][1] /\ Of(4 * k - 2) = Colon
             /\ Of(4 * k - 1) = members[k][2] /\ Of(4 * k) = Comma
  <2>1. /\ (4 * k - 3) % 4 = 1 /\ ((4 * k - 3) + 3) \div 4 = k
        /\ (4 * k - 2) % 4 = 2
        /\ (4 * k - 1) % 4 = 3 /\ ((4 * k - 1) + 3) \div 4 = k
        /\ (4 * k) % 4 = 0
    OBVIOUS
  <2>2. \A i \in Int : /\ i % 4 = 1 => Of(i) = members[(i + 3) \div 4][1]
                       /\ i % 4 = 2 => Of(i) = Colon
                       /\ i % 4 = 3 => Of(i) = members[(i + 3) \div 4][2]
                       /\ i % 4 = 0 => Of(i) = Comma
    OBVIOUS
  <2> HIDE DEF Of
  <2>3. 4 * k \in Int /\ 4 * k - 3 \in Int /\ 4 * k - 2 \in Int /\ 4 * k - 1 \in Int
    OBVIOUS
  <2>4. Of(4 * k - 3) = members[k][1]
    BY <2>1, <2>2, <2>3
  <2>5. Of(4 * k - 1) = members[k][2]
    BY <2>1, <2>2, <2>3
  <2>6. Of(4 * k - 2) = Colon /\ Of(4 * k) = Comma
    BY <2>1, <2>2, <2>3
  <2> QED
    BY <2>4, <2>5, <2>6
<1>5. ASSUME NEW i \in 1 .. Width(n) PROVE Of(i) \in T
  <2>1. /\ i % 4 \in {0, 1, 2, 3} /\ (i + 3) \div 4 \in 1 .. n
    BY DEF Width
  <2>2. members[(i + 3) \div 4] \in T \X T
    BY <2>1
  <2>3. /\ members[(i + 3) \div 4][1] \in T /\ members[(i + 3) \div 4][2] \in T
        /\ Colon \in T /\ Comma \in T
    BY <2>2 DEF Punctuation
  <2> QED
    BY <2>1, <2>3
<1> HIDE DEF Of
<1>6. Members(members) \in Seq(T) /\ Len(Members(members)) = Width(n)
  BY <1>2, <1>3, <1>5
<1>7. \A k \in 1 .. n : /\ 4 * k - 3 \in 1 .. Width(n) /\ 4 * k - 2 \in 1 .. Width(n)
                        /\ 4 * k - 1 \in 1 .. Width(n)
                        /\ (k # n => 4 * k \in 1 .. Width(n))
  BY DEF Width
<1>8. \A i \in 1 .. Width(n) : Members(members)[i] = Of(i)
  BY <1>3
<1>9. \A k \in 1 .. n : /\ Members(members)[4 * k - 3] = members[k][1]
                        /\ Members(members)[4 * k - 2] = Colon
                        /\ Members(members)[4 * k - 1] = members[k][2]
  BY <1>4, <1>7, <1>8
<1>10. \A k \in 1 .. n - 1 : Members(members)[4 * k] = Comma
  <2> SUFFICES ASSUME NEW k \in 1 .. n - 1 PROVE Members(members)[4 * k] = Comma
    OBVIOUS
  <2>1. k \in 1 .. n /\ k # n
    OBVIOUS
  <2> QED
    BY <1>4, <1>7, <1>8, <2>1
<1> QED
  BY <1>2, <1>6, <1>9, <1>10 DEF IsPacket, AreMembers

\* Two packets are the parts of a third.
AreParts(s, m, t, n, whole, T) ==
  /\ IsPacket(whole, m + n, T)
  /\ \A i \in 1 .. m : whole[i] = s[i]
  /\ \A i \in m + 1 .. m + n : whole[i] = t[i - m]

LEMMA Joined ==
  ASSUME NEW T, NEW s, NEW t, NEW m, NEW n, IsPacket(s, m, T), IsPacket(t, n, T)
  PROVE  AreParts(s, m, t, n, s \o t, T)
<1>0. s \in Seq(T) /\ t \in Seq(T) /\ Len(s) = m /\ Len(t) = n /\ m + n \in Nat
  BY DEF IsPacket
<1>1. s \o t \in Seq(T) /\ Len(s \o t) = Len(s) + Len(t)
  BY <1>0, ConcatProperties
<1>2. \A i \in 1 .. Len(s) : (s \o t)[i] = s[i]
  BY <1>0, ConcatProperties
<1>3. \A i \in Len(s) + 1 .. Len(s) + Len(t) : (s \o t)[i] = t[i - Len(s)]
  BY <1>0, ConcatProperties
<1> QED
  BY <1>0, <1>1, <1>2, <1>3 DEF IsPacket, AreParts

\* The inner object: its name, and its w characters and texts between the brackets.
IsObject(object, inner, M, w, T) ==
  /\ IsPacket(object, 4 + w, T)
  /\ object[1] = inner /\ object[2] = Colon /\ object[3] = Begin
  /\ \A i \in 1 .. w : object[3 + i] = M[i]
  /\ object[4 + w] = End

LEMMA ObjectIs ==
  ASSUME NEW T, NEW method, NEW inner, IsTexts(T, method, inner), NEW M, NEW w, IsPacket(M, w, T)
  PROVE  IsObject(<<inner, Colon, Begin>> \o M \o <<End>>, inner, M, w, T)
<1> DEFINE opening == <<inner, Colon, Begin>>
           end == <<End>>
           a == opening \o M
           object == a \o end
<1>1. /\ IsPacket(opening, 3, T) /\ IsPacket(end, 1, T) /\ end[1] = End
      /\ opening[1] = inner /\ opening[2] = Colon /\ opening[3] = Begin
  BY DEF IsTexts, Punctuation, IsPacket
<1> HIDE DEF opening, end
<1>2. AreParts(opening, 3, M, w, a, T)
  BY <1>1, Joined
<1> HIDE DEF a
<1>3. AreParts(a, 3 + w, end, 1, object, T)
  <2>1. IsPacket(a, 3 + w, T)
    BY <1>2 DEF AreParts
  <2> QED
    BY <1>1, <2>1, Joined
<1>4. object = <<inner, Colon, Begin>> \o M \o <<End>>
  BY DEF object, a, opening, end
<1> HIDE DEF object
<1>5. w \in Nat
  BY DEF IsPacket
<1>6. object[1] = inner /\ object[2] = Colon /\ object[3] = Begin
  BY <1>1, <1>2, <1>3, <1>5 DEF AreParts
<1>7. \A i \in 1 .. w : object[3 + i] = M[i]
  <2> SUFFICES ASSUME NEW i \in 1 .. w PROVE object[3 + i] = M[i]
    OBVIOUS
  <2>1. 3 + i \in 1 .. 3 + w /\ 3 + i \in 3 + 1 .. 3 + w /\ (3 + i) - 3 = i
    BY <1>5
  <2>2. object[3 + i] = a[3 + i]
    BY <1>3, <2>1 DEF AreParts
  <2>3. a[3 + i] = M[(3 + i) - 3]
    BY <1>2, <2>1 DEF AreParts
  <2> QED
    BY <2>1, <2>2, <2>3
<1>8. IsPacket(object, 4 + w, T) /\ object[4 + w] = End
  <2>1. (3 + w) + 1 = 4 + w /\ 4 + w \in (3 + w) + 1 .. (3 + w) + 1 /\ (4 + w) - (3 + w) = 1
    BY <1>5
  <2> QED
    BY <1>1, <1>3, <2>1 DEF AreParts
<1> QED
  BY <1>4, <1>6, <1>7, <1>8 DEF IsObject

\* The method and the environment.
IsOuter(outer, method, T) ==
  /\ IsPacket(outer, 7, T)
  /\ outer[1] = "method" /\ outer[2] = Colon /\ outer[3] = method /\ outer[4] = Comma
  /\ outer[5] = "env" /\ outer[6] = Colon /\ outer[7] = "pro"

LEMMA OuterIs ==
  ASSUME NEW T, NEW method, NEW inner, IsTexts(T, method, inner)
  PROVE  IsOuter(<<"method", Colon, method, Comma, "env", Colon, "pro">>, method, T)
BY DEF IsTexts, Punctuation, IsPacket, IsOuter

\* One character.
IsMark(mark, character, T) == IsPacket(mark, 1, T) /\ mark[1] = character

LEMMA MarkIs ==
  ASSUME NEW T, Punctuation \subseteq T, NEW character \in Punctuation
  PROVE  IsMark(<<character>>, character, T)
BY DEF IsPacket, IsMark

\* A datagram: the method before the object, or the object before the method.
IsMethodFirst(p, method, inner, M, w, T) ==
  /\ IsPacket(p, 14 + w, T)
  /\ p[1] = Begin /\ p[2] = "method" /\ p[3] = Colon /\ p[4] = method /\ p[5] = Comma
  /\ p[6] = "env" /\ p[7] = Colon /\ p[8] = "pro" /\ p[9] = Comma
  /\ p[10] = inner /\ p[11] = Colon /\ p[12] = Begin
  /\ \A i \in 1 .. w : p[12 + i] = M[i]
  /\ p[13 + w] = End /\ p[14 + w] = End

IsMethodLast(p, method, inner, M, w, T) ==
  /\ IsPacket(p, 14 + w, T)
  /\ p[1] = Begin /\ p[2] = inner /\ p[3] = Colon /\ p[4] = Begin
  /\ \A i \in 1 .. w : p[4 + i] = M[i]
  /\ p[5 + w] = End /\ p[6 + w] = Comma /\ p[7 + w] = "method" /\ p[8 + w] = Colon
  /\ p[9 + w] = method /\ p[10 + w] = Comma /\ p[11 + w] = "env" /\ p[12 + w] = Colon
  /\ p[13 + w] = "pro" /\ p[14 + w] = End

LEMMA FirstIs ==
  ASSUME NEW T, NEW method, NEW outer, IsOuter(outer, method, T), NEW inner, NEW M, NEW w \in Nat,
         NEW object, IsObject(object, inner, M, w, T), NEW begin, IsMark(begin, Begin, T),
         NEW comma, IsMark(comma, Comma, T), NEW end, IsMark(end, End, T)
  PROVE  IsMethodFirst(begin \o (outer \o comma \o object) \o end, method, inner, M, w, T)
<1> DEFINE b == outer \o comma
           c == b \o object
           d == begin \o c
           p == d \o end
<1>1. /\ IsPacket(outer, 7, T) /\ IsPacket(comma, 1, T) /\ IsPacket(begin, 1, T)
      /\ IsPacket(end, 1, T) /\ IsPacket(object, 4 + w, T)
  BY DEF IsOuter, IsObject, IsMark
<1>2. AreParts(outer, 7, comma, 1, b, T)
  BY <1>1, Joined
<1> HIDE DEF b
<1>3. IsPacket(b, 8, T)
  <2>1. 7 + 1 = 8
    OBVIOUS
  <2> QED
    BY <1>2, <2>1 DEF AreParts
<1>4. AreParts(b, 8, object, 4 + w, c, T)
  BY <1>1, <1>3, Joined
<1> HIDE DEF c
<1>5. IsPacket(c, 12 + w, T)
  <2>1. 8 + (4 + w) = 12 + w
    OBVIOUS
  <2> QED
    BY <1>4, <2>1 DEF AreParts
<1>6. AreParts(begin, 1, c, 12 + w, d, T)
  BY <1>1, <1>5, Joined
<1> HIDE DEF d
<1>7. IsPacket(d, 13 + w, T)
  <2>1. 1 + (12 + w) = 13 + w
    OBVIOUS
  <2> QED
    BY <1>6, <2>1 DEF AreParts
<1>8. AreParts(d, 13 + w, end, 1, p, T)
  BY <1>1, <1>7, Joined
<1>9. p = begin \o (outer \o comma \o object) \o end
  BY DEF p, d, c, b
<1> HIDE DEF p
<1>10. p[1] = Begin
  <2>1. p[1] = d[1] /\ d[1] = begin[1]
    BY <1>6, <1>8 DEF AreParts
  <2> QED
    BY <2>1 DEF IsMark
<1>11. ASSUME NEW i \in 2 .. 13 + w PROVE p[i] = c[i - 1]
  <2>1. i \in 1 .. 13 + w /\ i \in 1 + 1 .. 1 + (12 + w)
    OBVIOUS
  <2> QED
    BY <1>6, <1>8, <2>1 DEF AreParts
<1>12. ASSUME NEW i \in 1 .. 7 PROVE p[1 + i] = outer[i]
  <2>1. 1 + i \in 2 .. 13 + w /\ (1 + i) - 1 = i /\ i \in 1 .. 8
    OBVIOUS
  <2>2. p[1 + i] = c[i]
    BY <1>11, <2>1
  <2>3. c[i] = b[i] /\ b[i] = outer[i]
    BY <1>2, <1>4, <2>1 DEF AreParts
  <2> QED
    BY <2>2, <2>3
<1>13. /\ p[2] = "method" /\ p[3] = Colon /\ p[4] = method /\ p[5] = Comma
       /\ p[6] = "env" /\ p[7] = Colon /\ p[8] = "pro"
  <2>1. /\ p[1 + 1] = outer[1] /\ p[1 + 2] = outer[2] /\ p[1 + 3] = outer[3] /\ p[1 + 4] = outer[4]
        /\ p[1 + 5] = outer[5] /\ p[1 + 6] = outer[6] /\ p[1 + 7] = outer[7]
    BY <1>12
  <2> QED
    BY <2>1 DEF IsOuter
<1>14. p[9] = Comma
  <2>1. 9 \in 2 .. 13 + w /\ 9 - 1 = 8 /\ 8 \in 7 + 1 .. 7 + 1 /\ 8 - 7 = 1
    OBVIOUS
  <2>2. p[9] = c[8]
    BY <1>11, <2>1
  <2>3. c[8] = b[8] /\ b[8] = comma[1]
    BY <1>2, <1>4, <2>1 DEF AreParts
  <2> QED
    BY <2>2, <2>3 DEF IsMark
<1>15. ASSUME NEW i \in 1 .. 4 + w PROVE p[9 + i] = object[i]
  <2>1. /\ 9 + i \in 2 .. 13 + w /\ (9 + i) - 1 = 8 + i
        /\ 8 + i \in 8 + 1 .. 8 + (4 + w) /\ (8 + i) - 8 = i
    OBVIOUS
  <2>2. p[9 + i] = c[8 + i]
    BY <1>11, <2>1
  <2>3. c[8 + i] = object[i]
    BY <1>4, <2>1 DEF AreParts
  <2> QED
    BY <2>2, <2>3
<1>16. /\ p[10] = inner /\ p[11] = Colon /\ p[12] = Begin /\ p[13 + w] = End
  <2>1. /\ 9 + 1 = 10 /\ 9 + 2 = 11 /\ 9 + 3 = 12 /\ 9 + (4 + w) = 13 + w
        /\ 1 \in 1 .. 4 + w /\ 2 \in 1 .. 4 + w /\ 3 \in 1 .. 4 + w /\ 4 + w \in 1 .. 4 + w
    OBVIOUS
  <2>2. p[10] = object[1] /\ p[11] = object[2] /\ p[12] = object[3] /\ p[13 + w] = object[4 + w]
    BY <1>15, <2>1
  <2> QED
    BY <2>2 DEF IsObject
<1>17. \A i \in 1 .. w : p[12 + i] = M[i]
  <2> SUFFICES ASSUME NEW i \in 1 .. w PROVE p[12 + i] = M[i]
    OBVIOUS
  <2>1. 9 + (3 + i) = 12 + i /\ 3 + i \in 1 .. 4 + w
    OBVIOUS
  <2>2. p[12 + i] = object[3 + i]
    BY <1>15, <2>1
  <2> QED
    BY <2>2 DEF IsObject
<1>18. p[14 + w] = End /\ IsPacket(p, 14 + w, T)
  <2>1. (13 + w) + 1 = 14 + w /\ 14 + w \in (13 + w) + 1 .. (13 + w) + 1 /\ (14 + w) - (13 + w) = 1
    OBVIOUS
  <2> QED
    BY <1>8, <2>1 DEF AreParts, IsMark
<1> QED
  BY <1>9, <1>10, <1>13, <1>14, <1>16, <1>17, <1>18 DEF IsMethodFirst

LEMMA LastIs ==
  ASSUME NEW T, NEW method, NEW outer, IsOuter(outer, method, T), NEW inner, NEW M, NEW w \in Nat,
         NEW object, IsObject(object, inner, M, w, T), NEW begin, IsMark(begin, Begin, T),
         NEW comma, IsMark(comma, Comma, T), NEW end, IsMark(end, End, T)
  PROVE  IsMethodLast(begin \o (object \o comma \o outer) \o end, method, inner, M, w, T)
<1> DEFINE b == object \o comma
           c == b \o outer
           d == begin \o c
           p == d \o end
<1>1. /\ IsPacket(outer, 7, T) /\ IsPacket(comma, 1, T) /\ IsPacket(begin, 1, T)
      /\ IsPacket(end, 1, T) /\ IsPacket(object, 4 + w, T)
  BY DEF IsOuter, IsObject, IsMark
<1>2. AreParts(object, 4 + w, comma, 1, b, T)
  BY <1>1, Joined
<1> HIDE DEF b
<1>3. IsPacket(b, 5 + w, T)
  <2>1. (4 + w) + 1 = 5 + w
    OBVIOUS
  <2> QED
    BY <1>2, <2>1 DEF AreParts
<1>4. AreParts(b, 5 + w, outer, 7, c, T)
  BY <1>1, <1>3, Joined
<1> HIDE DEF c
<1>5. IsPacket(c, 12 + w, T)
  <2>1. (5 + w) + 7 = 12 + w
    OBVIOUS
  <2> QED
    BY <1>4, <2>1 DEF AreParts
<1>6. AreParts(begin, 1, c, 12 + w, d, T)
  BY <1>1, <1>5, Joined
<1> HIDE DEF d
<1>7. IsPacket(d, 13 + w, T)
  <2>1. 1 + (12 + w) = 13 + w
    OBVIOUS
  <2> QED
    BY <1>6, <2>1 DEF AreParts
<1>8. AreParts(d, 13 + w, end, 1, p, T)
  BY <1>1, <1>7, Joined
<1>9. p = begin \o (object \o comma \o outer) \o end
  BY DEF p, d, c, b
<1> HIDE DEF p
<1>10. p[1] = Begin
  <2>1. p[1] = d[1] /\ d[1] = begin[1]
    BY <1>6, <1>8 DEF AreParts
  <2> QED
    BY <2>1 DEF IsMark
<1>11. ASSUME NEW i \in 2 .. 13 + w PROVE p[i] = c[i - 1]
  <2>1. i \in 1 .. 13 + w /\ i \in 1 + 1 .. 1 + (12 + w)
    OBVIOUS
  <2> QED
    BY <1>6, <1>8, <2>1 DEF AreParts
<1>12. ASSUME NEW i \in 1 .. 4 + w PROVE p[1 + i] = object[i]
  <2>1. 1 + i \in 2 .. 13 + w /\ (1 + i) - 1 = i /\ i \in 1 .. 5 + w
    OBVIOUS
  <2>2. p[1 + i] = c[i]
    BY <1>11, <2>1
  <2>3. c[i] = b[i] /\ b[i] = object[i]
    BY <1>2, <1>4, <2>1 DEF AreParts
  <2> QED
    BY <2>2, <2>3
<1>13. /\ p[2] = inner /\ p[3] = Colon /\ p[4] = Begin /\ p[5 + w] = End
  <2>1. /\ 1 + 1 = 2 /\ 1 + 2 = 3 /\ 1 + 3 = 4 /\ 1 + (4 + w) = 5 + w
        /\ 1 \in 1 .. 4 + w /\ 2 \in 1 .. 4 + w /\ 3 \in 1 .. 4 + w /\ 4 + w \in 1 .. 4 + w
    OBVIOUS
  <2>2. p[2] = object[1] /\ p[3] = object[2] /\ p[4] = object[3] /\ p[5 + w] = object[4 + w]
    BY <1>12, <2>1
  <2> QED
    BY <2>2 DEF IsObject
<1>14. \A i \in 1 .. w : p[4 + i] = M[i]
  <2> SUFFICES ASSUME NEW i \in 1 .. w PROVE p[4 + i] = M[i]
    OBVIOUS
  <2>1. 1 + (3 + i) = 4 + i /\ 3 + i \in 1 .. 4 + w
    OBVIOUS
  <2>2. p[4 + i] = object[3 + i]
    BY <1>12, <2>1
  <2> QED
    BY <2>2 DEF IsObject
<1>15. p[6 + w] = Comma
  <2>1. /\ 6 + w \in 2 .. 13 + w /\ (6 + w) - 1 = 5 + w /\ 5 + w \in 1 .. 5 + w
        /\ 5 + w \in (4 + w) + 1 .. (4 + w) + 1 /\ (5 + w) - (4 + w) = 1
    OBVIOUS
  <2>2. p[6 + w] = c[5 + w]
    BY <1>11, <2>1
  <2>3. c[5 + w] = b[5 + w] /\ b[5 + w] = comma[1]
    BY <1>2, <1>4, <2>1 DEF AreParts
  <2> QED
    BY <2>2, <2>3 DEF IsMark
<1>16. ASSUME NEW i \in 1 .. 7 PROVE p[(6 + w) + i] = outer[i]
  <2>1. /\ (6 + w) + i \in 2 .. 13 + w /\ ((6 + w) + i) - 1 = (5 + w) + i
        /\ (5 + w) + i \in (5 + w) + 1 .. (5 + w) + 7 /\ ((5 + w) + i) - (5 + w) = i
    OBVIOUS
  <2>2. p[(6 + w) + i] = c[(5 + w) + i]
    BY <1>11, <2>1
  <2>3. c[(5 + w) + i] = outer[i]
    BY <1>4, <2>1 DEF AreParts
  <2> QED
    BY <2>2, <2>3
<1>17. /\ p[7 + w] = "method" /\ p[8 + w] = Colon /\ p[9 + w] = method /\ p[10 + w] = Comma
       /\ p[11 + w] = "env" /\ p[12 + w] = Colon /\ p[13 + w] = "pro"
  <2>1. /\ (6 + w) + 1 = 7 + w /\ (6 + w) + 2 = 8 + w /\ (6 + w) + 3 = 9 + w /\ (6 + w) + 4 = 10 + w
        /\ (6 + w) + 5 = 11 + w /\ (6 + w) + 6 = 12 + w /\ (6 + w) + 7 = 13 + w
    OBVIOUS
  <2>2. 1 \in 1 .. 7 /\ 2 \in 1 .. 7 /\ 3 \in 1 .. 7 /\ 4 \in 1 .. 7 /\ 5 \in 1 .. 7 /\ 6 \in 1 .. 7
        /\ 7 \in 1 .. 7
    OBVIOUS
  <2>3. /\ p[7 + w] = outer[1] /\ p[8 + w] = outer[2] /\ p[9 + w] = outer[3] /\ p[10 + w] = outer[4]
        /\ p[11 + w] = outer[5] /\ p[12 + w] = outer[6] /\ p[13 + w] = outer[7]
    BY <1>16, <2>1, <2>2
  <2> QED
    BY <2>3 DEF IsOuter
<1>18. p[14 + w] = End /\ IsPacket(p, 14 + w, T)
  <2>1. (13 + w) + 1 = 14 + w /\ 14 + w \in (13 + w) + 1 .. (13 + w) + 1 /\ (14 + w) - (13 + w) = 1
    OBVIOUS
  <2> QED
    BY <1>8, <2>1 DEF AreParts, IsMark
<1> QED
  BY <1>9, <1>10, <1>13, <1>14, <1>15, <1>17, <1>18 DEF IsMethodLast

LEMMA RenderedIs ==
  ASSUME NEW T, NEW method, NEW inner, IsTexts(T, method, inner), NEW members, NEW w \in Nat,
         IsPacket(Members(members), w, T)
  PROVE  /\ IsMethodFirst(Rendered(method, inner, members, FALSE), method, inner, Members(members), w, T)
         /\ IsMethodLast(Rendered(method, inner, members, TRUE), method, inner, Members(members), w, T)
<1> DEFINE M == Members(members)
           outer == <<"method", Colon, method, Comma, "env", Colon, "pro">>
           object == <<inner, Colon, Begin>> \o M \o <<End>>
           begin == <<Begin>>
           comma == <<Comma>>
           end == <<End>>
<1>1. IsOuter(outer, method, T)
  BY OuterIs
<1>2. IsObject(object, inner, M, w, T)
  BY ObjectIs
<1>3. IsMark(begin, Begin, T) /\ IsMark(comma, Comma, T) /\ IsMark(end, End, T)
  <2>1. Punctuation \subseteq T /\ Begin \in Punctuation /\ Comma \in Punctuation /\ End \in Punctuation
    BY DEF IsTexts, Punctuation
  <2> QED
    BY <2>1, MarkIs
<1>4. Rendered(method, inner, members, FALSE) = begin \o (outer \o comma \o object) \o end
  BY DEF Rendered
<1>5. Rendered(method, inner, members, TRUE) = begin \o (object \o comma \o outer) \o end
  BY DEF Rendered
<1> HIDE DEF M, outer, object, begin, comma, end
<1>6. IsMethodFirst(begin \o (outer \o comma \o object) \o end, method, inner, M, w, T)
  BY <1>1, <1>2, <1>3, FirstIs
<1>7. IsMethodLast(begin \o (object \o comma \o outer) \o end, method, inner, M, w, T)
  BY <1>1, <1>2, <1>3, LastIs
<1> QED
  BY <1>4, <1>5, <1>6, <1>7 DEF M

-----------------------------------------------------------------------------
(* What is read of it. *)

\* What is kept of a pair: a name that is not known is dropped.
With(f, name, value) == IF name \in Names THEN [f EXCEPT ![name] = value] ELSE f

\* A pair of texts is read to the character that ends it.
LEMMA PairRead ==
  ASSUME NEW f, NEW name, name \notin Punctuation, NEW value, value \notin Punctuation,
         NEW mark \in {Begin, End, Comma}
  PROVE  DecodeToken(DecodeToken(DecodeToken(DecodeToken(Fresh(f), name), Colon), value), mark)
           = Fresh(With(f, name, value))
<1>1. Colon \in Punctuation /\ Colon \notin {Begin, End, Comma} /\ {Begin, End, Comma} \subseteq Punctuation
  BY Characters DEF Punctuation
<1>2. DecodeToken(Fresh(f), name) = [name |-> name, value |-> Blank, open |-> "name", fields |-> f]
  BY <1>1 DEF DecodeToken, Fresh
<1>3. DecodeToken([name |-> name, value |-> Blank, open |-> "name", fields |-> f], Colon)
        = [name |-> name, value |-> Blank, open |-> "value", fields |-> f]
  BY <1>1 DEF DecodeToken
<1>4. DecodeToken([name |-> name, value |-> Blank, open |-> "value", fields |-> f], value)
        = [name |-> name, value |-> value, open |-> "value", fields |-> f]
  BY <1>1 DEF DecodeToken
<1>5. DecodeToken([name |-> name, value |-> value, open |-> "value", fields |-> f], mark)
        = Fresh(With(f, name, value))
  BY <1>1 DEF DecodeToken, HandleNameValue, With
<1> QED
  BY <1>2, <1>3, <1>4, <1>5

\* A name whose value is an object is told nothing.
LEMMA ObjectRead ==
  ASSUME NEW f, NEW name, name \notin Punctuation
  PROVE  DecodeToken(DecodeToken(DecodeToken(Fresh(f), name), Colon), Begin)
           = Fresh(With(f, name, Blank))
<1>1. Colon \in Punctuation /\ Colon \notin {Begin, End, Comma} /\ {Begin, End, Comma} \subseteq Punctuation
  BY Characters DEF Punctuation
<1>2. DecodeToken(Fresh(f), name) = [name |-> name, value |-> Blank, open |-> "name", fields |-> f]
  BY <1>1 DEF DecodeToken, Fresh
<1>3. DecodeToken([name |-> name, value |-> Blank, open |-> "name", fields |-> f], Colon)
        = [name |-> name, value |-> Blank, open |-> "value", fields |-> f]
  BY <1>1 DEF DecodeToken
<1>4. DecodeToken([name |-> name, value |-> Blank, open |-> "value", fields |-> f], Begin)
        = Fresh(With(f, name, Blank))
  BY <1>1 DEF DecodeToken, HandleNameValue, With
<1> QED
  BY <1>2, <1>3, <1>4

\* Nothing comes of a pair that was not begun.
LEMMA MarkRead ==
  ASSUME NEW f, NEW mark \in {Begin, End, Comma}
  PROVE  /\ DecodeToken(Fresh(f), mark) = Fresh(f)
         /\ HandleNameValue(Fresh(f)) = f
<1>1. Fresh(f).name = Blank /\ Fresh(f).fields = f
  BY DEF Fresh
<1>2. HandleNameValue(Fresh(f)) = f
  BY <1>1, Characters DEF HandleNameValue
<1>3. DecodeToken(Fresh(f), mark) = Fresh(HandleNameValue(Fresh(f)))
  BY Characters DEF DecodeToken, Punctuation
<1> QED
  BY <1>2, <1>3

\* The pairs under way, from character to character of a datagram.
IsReading(after, datagram, last) ==
  \A i \in 1 .. last : after[i] = DecodeToken(after[i - 1], datagram[i])

LEMMA PairAt ==
  ASSUME NEW after, NEW datagram, NEW last \in Nat, IsReading(after, datagram, last),
         NEW i \in Nat, i + 4 <= last, NEW f, after[i] = Fresh(f),
         NEW name, name \notin Punctuation, datagram[i + 1] = name, datagram[i + 2] = Colon,
         NEW value, value \notin Punctuation, datagram[i + 3] = value,
         datagram[i + 4] \in {Begin, End, Comma}
  PROVE  after[i + 4] = Fresh(With(f, name, value))
<1>1. /\ i + 1 \in 1 .. last /\ i + 2 \in 1 .. last /\ i + 3 \in 1 .. last /\ i + 4 \in 1 .. last
      /\ (i + 1) - 1 = i /\ (i + 2) - 1 = i + 1 /\ (i + 3) - 1 = i + 2 /\ (i + 4) - 1 = i + 3
  OBVIOUS
<1>2. /\ after[i + 1] = DecodeToken(after[i], datagram[i + 1])
      /\ after[i + 2] = DecodeToken(after[i + 1], datagram[i + 2])
      /\ after[i + 3] = DecodeToken(after[i + 2], datagram[i + 3])
      /\ after[i + 4] = DecodeToken(after[i + 3], datagram[i + 4])
  BY <1>1 DEF IsReading
<1> QED
  BY <1>2, PairRead

LEMMA ObjectAt ==
  ASSUME NEW after, NEW datagram, NEW last \in Nat, IsReading(after, datagram, last),
         NEW i \in Nat, i + 3 <= last, NEW f, after[i] = Fresh(f),
         NEW name, name \notin Punctuation, datagram[i + 1] = name, datagram[i + 2] = Colon,
         datagram[i + 3] = Begin
  PROVE  after[i + 3] = Fresh(With(f, name, Blank))
<1>1. /\ i + 1 \in 1 .. last /\ i + 2 \in 1 .. last /\ i + 3 \in 1 .. last
      /\ (i + 1) - 1 = i /\ (i + 2) - 1 = i + 1 /\ (i + 3) - 1 = i + 2
  OBVIOUS
<1>2. /\ after[i + 1] = DecodeToken(after[i], datagram[i + 1])
      /\ after[i + 2] = DecodeToken(after[i + 1], datagram[i + 2])
      /\ after[i + 3] = DecodeToken(after[i + 2], datagram[i + 3])
  BY <1>1 DEF IsReading
<1> QED
  BY <1>2, ObjectRead

LEMMA MarkAt ==
  ASSUME NEW after, NEW datagram, NEW last \in Nat, IsReading(after, datagram, last),
         NEW i \in Nat, i + 1 <= last, NEW f, after[i] = Fresh(f),
         datagram[i + 1] \in {Begin, End, Comma}
  PROVE  after[i + 1] = Fresh(f)
<1>1. i + 1 \in 1 .. last /\ (i + 1) - 1 = i
  OBVIOUS
<1>2. after[i + 1] = DecodeToken(after[i], datagram[i + 1])
  BY <1>1 DEF IsReading
<1> QED
  BY <1>2, MarkRead

\* f is what base becomes by the first j members.
IsTold(f, base, members, j, T) ==
  /\ f \in [Names -> T]
  /\ \A name \in Names : \A k \in 1 .. j : members[k][1] = name => f[name] = members[k][2]
  /\ \A name \in Names : (\A k \in 1 .. j : members[k][1] # name) => f[name] = base[name]

LEMMA ToldOneMore ==
  ASSUME NEW T, NEW members, IsReport(members), members \in Seq(T \X T), NEW j \in Nat, j < Len(members),
         NEW base, NEW f, IsTold(f, base, members, j, T)
  PROVE  IsTold(With(f, members[j + 1][1], members[j + 1][2]), base, members, j + 1, T)
<1> DEFINE member == members[j + 1]
           g == With(f, member[1], member[2])
<1>1. /\ j + 1 \in DOMAIN members /\ 1 .. j \subseteq DOMAIN members
      /\ 1 .. j + 1 = 1 .. j \cup {j + 1}
      /\ \A k \in 1 .. j : k # j + 1
  OBVIOUS
<1>2. member \in T \X T
  BY <1>1
<1>3. member[2] \in T
  BY <1>2
<1>4. g \in [Names -> T]
  BY <1>3 DEF With, IsTold
<1>5. \A name \in Names : g[name] = IF name = member[1] THEN member[2] ELSE f[name]
  BY DEF With, IsTold
<1>6. \A k \in 1 .. j : members[k][1] # member[1]
  BY <1>1 DEF IsReport
<1> HIDE DEF g
<1>7. ASSUME NEW name \in Names, NEW k \in 1 .. j + 1, members[k][1] = name
      PROVE  g[name] = members[k][2]
  <2>1. CASE k = j + 1
    BY <1>5, <1>7, <2>1
  <2>2. CASE k \in 1 .. j
    BY <1>5, <1>6, <1>7, <2>2 DEF IsTold
  <2> QED
    BY <1>1, <2>1, <2>2
<1>8. ASSUME NEW name \in Names, \A k \in 1 .. j + 1 : members[k][1] # name
      PROVE  g[name] = base[name]
  <2>1. member[1] # name /\ \A k \in 1 .. j : members[k][1] # name
    BY <1>1, <1>8
  <2> QED
    BY <1>5, <2>1 DEF IsTold
<1>9. IsTold(g, base, members, j + 1, T)
  BY <1>4, <1>7, <1>8 DEF IsTold
<1> QED
  BY <1>9 DEF g

\* Where the members of an object begin, and what is read of them.
AreAt(datagram, o, members, last, T) ==
  /\ o \in Nat /\ o + Width(Len(members)) + 1 <= last
  /\ \A k \in 1 .. Len(members) : /\ datagram[o + (4 * k - 3)] = members[k][1]
                                  /\ datagram[o + (4 * k - 2)] = Colon
                                  /\ datagram[o + (4 * k - 1)] = members[k][2]
  /\ \A k \in 1 .. Len(members) - 1 : datagram[o + 4 * k] = Comma
  /\ datagram[o + Width(Len(members)) + 1] = End

LEMMA MembersAt ==
  ASSUME NEW T, Punctuation \subseteq T, NEW members, members \in Seq(T \X T), NEW datagram, NEW last \in Nat,
         NEW o \in Nat, NEW w, w = Width(Len(members)), (o + w) + 1 <= last,
         \A i \in 1 .. w : datagram[o + i] = Members(members)[i], datagram[(o + w) + 1] = End
  PROVE  AreAt(datagram, o, members, last, T)
<1> DEFINE n == Len(members)
           M == Members(members)
<1>1. n \in Nat
  OBVIOUS
<1>2. /\ \A k \in 1 .. n : /\ M[4 * k - 3] = members[k][1]
                            /\ M[4 * k - 2] = Colon
                            /\ M[4 * k - 1] = members[k][2]
      /\ \A k \in 1 .. n - 1 : M[4 * k] = Comma
  <2>1. n \in Nat /\ n = Len(members)
    OBVIOUS
  <2> HIDE DEF n
  <2>2. AreMembers(M, members, n)
    BY <2>1, MembersAre
  <2> QED
    BY <2>2 DEF AreMembers
<1>3. w = IF n = 0 THEN 0 ELSE 4 * n - 1
  BY DEF Width
<1> HIDE DEF n
<1>4. /\ \A k \in 1 .. n : 4 * k - 3 \in 1 .. w /\ 4 * k - 2 \in 1 .. w /\ 4 * k - 1 \in 1 .. w
      /\ \A k \in 1 .. n - 1 : 4 * k \in 1 .. w
  BY <1>1, <1>3
<1> HIDE DEF M
<1>5. \A i \in 1 .. w : datagram[o + i] = M[i]
  BY DEF M
<1>6. /\ \A k \in 1 .. n : /\ datagram[o + (4 * k - 3)] = members[k][1]
                            /\ datagram[o + (4 * k - 2)] = Colon
                            /\ datagram[o + (4 * k - 1)] = members[k][2]
      /\ \A k \in 1 .. n - 1 : datagram[o + 4 * k] = Comma
  <2>1. ASSUME NEW k \in 1 .. n
        PROVE  /\ datagram[o + (4 * k - 3)] = M[4 * k - 3]
               /\ datagram[o + (4 * k - 2)] = M[4 * k - 2]
               /\ datagram[o + (4 * k - 1)] = M[4 * k - 1]
    BY <1>4, <1>5
  <2>2. ASSUME NEW k \in 1 .. n - 1 PROVE datagram[o + 4 * k] = M[4 * k]
    BY <1>4, <1>5
  <2> QED
    BY <1>2, <2>1, <2>2
<1> QED
  BY <1>6 DEF AreAt, n

LEMMA MembersRead ==
  ASSUME NEW T, NEW members, IsReport(members), members \in Seq(T \X T),
         NEW after, NEW datagram, NEW last \in Nat, IsReading(after, datagram, last),
         NEW o, AreAt(datagram, o, members, last, T),
         NEW base \in [Names -> T], after[o] = Fresh(base)
  PROVE  \E f : /\ IsTold(f, base, members, Len(members), T)
                /\ after[o + Width(Len(members)) + 1] = Fresh(f)
<1> DEFINE n == Len(members)
           ReadTo(j) == \E f : IsTold(f, base, members, j, T) /\ after[o + 4 * j] = Fresh(f)
           Good == {j \in Nat : j <= n => ReadTo(j)}
<1>0. n \in Nat /\ o \in Nat
  BY DEF AreAt
<1>1. 0 \in Good
  <2>1. IsTold(base, base, members, 0, T)
    BY DEF IsTold
  <2>2. o + 4 * 0 = o
    BY <1>0
  <2> QED
    BY <2>1, <2>2
<1>2. ASSUME NEW j \in Nat, j \in Good PROVE j + 1 \in Good
  <2> SUFFICES ASSUME j + 1 <= n PROVE ReadTo(j + 1)
    OBVIOUS
  <2>1. PICK f : IsTold(f, base, members, j, T) /\ after[o + 4 * j] = Fresh(f)
    BY <1>0, <1>2
  <2> DEFINE i == o + 4 * j
             name == members[j + 1][1]
             value == members[j + 1][2]
  <2>2. /\ j + 1 \in 1 .. n /\ j + 1 \in DOMAIN members /\ j < n
        /\ o + (4 * (j + 1) - 3) = i + 1 /\ o + (4 * (j + 1) - 2) = i + 2
        /\ o + (4 * (j + 1) - 1) = i + 3 /\ o + 4 * (j + 1) = i + 4
    BY <1>0
  <2>3. datagram[i + 1] = name /\ datagram[i + 2] = Colon /\ datagram[i + 3] = value
    BY <2>2 DEF AreAt
  <2>4. i + 4 <= last /\ datagram[i + 4] \in {Begin, End, Comma}
    <3>1. CASE j + 1 = n
      <4>1. o + Width(n) + 1 = i + 4
        <5>1. Width(n) = 4 * n - 1
          BY <3>1 DEF Width
        <5>2. o + (4 * n - 1) + 1 = o + 4 * n
          BY <1>0
        <5> QED
          BY <2>2, <3>1, <5>1, <5>2
      <4>2. i + 4 <= last /\ datagram[i + 4] = End
        BY <4>1 DEF AreAt
      <4> QED
        BY <4>2
    <3>2. CASE j + 1 # n
      <4>1. j + 1 \in 1 .. n - 1 /\ Width(n) \in Nat /\ i + 4 <= o + Width(n) + 1
        BY <1>0, <3>2 DEF Width
      <4>2. datagram[i + 4] = Comma /\ o + Width(n) + 1 <= last
        BY <2>2, <4>1 DEF AreAt
      <4>3. i + 4 <= last
        BY <1>0, <4>1, <4>2
      <4> QED
        BY <4>2, <4>3
    <3> QED
      BY <3>1, <3>2
  <2>5. name \notin Punctuation /\ value \notin Punctuation
    BY <2>2 DEF IsReport
  <2>6. i \in Nat
    BY <1>0
  <2>7. after[i] = Fresh(f)
    BY <2>1
  <2> HIDE DEF i, name, value
  <2>8. after[i + 4] = Fresh(With(f, name, value))
    BY <2>3, <2>4, <2>5, <2>6, <2>7, PairAt
  <2>9. IsTold(With(f, name, value), base, members, j + 1, T)
    BY <2>1, <2>2, ToldOneMore DEF name, value
  <2> QED
    BY <2>2, <2>8, <2>9
<1> HIDE DEF Good
<1>3. Nat \subseteq Good
  BY <1>1, <1>2, Induction
<1>4. PICK f : IsTold(f, base, members, n, T) /\ after[o + 4 * n] = Fresh(f)
  BY <1>0, <1>3 DEF Good
<1>5. CASE n = 0
  <2>1. o + 4 * n = o /\ o + Width(n) + 1 = o + 1
    BY <1>0, <1>5 DEF Width
  <2>2. o + 1 <= last /\ datagram[o + 1] \in {Begin, End, Comma}
    BY <2>1 DEF AreAt
  <2>3. after[o] = Fresh(f)
    BY <1>4, <2>1
  <2>4. after[o + 1] = Fresh(f)
    BY <1>0, <2>2, <2>3, MarkAt
  <2> QED
    BY <1>4, <2>1, <2>4
<1>6. CASE n # 0
  <2>1. o + Width(n) + 1 = o + 4 * n
    BY <1>0, <1>6 DEF Width
  <2> QED
    BY <1>4, <2>1
<1> QED
  BY <1>5, <1>6

-----------------------------------------------------------------------------
\* What a datagram tells, in either order: its method, and each of its members.
IsRead(f, method, members, T) ==
  /\ f \in [Names -> T]
  /\ f["method"] = method
  /\ \A name \in Names \ {"method", "env"} :
       /\ \A k \in DOMAIN members : members[k][1] = name => f[name] = members[k][2]
       /\ (\A k \in DOMAIN members : members[k][1] # name) => f[name] = Blank

\* The texts of a datagram.
IsDatagram(method, inner, members, T) ==
  /\ IsTexts(T, method, inner) /\ method \notin Punctuation
  /\ inner \notin Punctuation /\ inner # "method"
  /\ members \in Seq(T \X T) /\ IsReport(members)

LEMMA WithTypes ==
  ASSUME NEW T, NEW f \in [Names -> T], NEW name, NEW value \in T
  PROVE  /\ With(f, name, value) \in [Names -> T]
         /\ \A other \in Names : With(f, name, value)[other] = IF other = name THEN value ELSE f[other]
BY DEF With

LEMMA TextsAre ==
  /\ "method" \notin Punctuation /\ "env" \notin Punctuation /\ "pro" \notin Punctuation
  /\ "method" \in Names /\ "env" \in Names /\ "method" # "env"
BY Zenon DEF Punctuation, Begin, End, Colon, Comma, Names

LEMMA MethodFirstRead ==
  ASSUME NEW T, NEW method, NEW inner, NEW members, IsDatagram(method, inner, members, T),
         NEW datagram, NEW w \in Nat, w = Width(Len(members)),
         IsMethodFirst(datagram, method, inner, Members(members), w, T)
  PROVE  IsRead(DecodedFrom(Clear, datagram), method, members, T)
<1> DEFINE last == 14 + w
<1>1. /\ Blank \in T /\ method \in T /\ "pro" \in T /\ Punctuation \subseteq T
      /\ Begin \in Punctuation /\ End \in Punctuation /\ Comma \in Punctuation
  BY DEF IsDatagram, IsTexts, Punctuation
<1>2. Clear \in [Names -> T] /\ \A name \in Names : Clear[name] = Blank
  BY <1>1 DEF Clear
<1>3. last \in Nat /\ IsPacket(datagram, last, T)
  BY DEF IsMethodFirst
<1> HIDE DEF last
<1>4. PICK after \in [0 .. last -> Pairs(T)] :
        /\ after[0] = Fresh(Clear)
        /\ \A i \in 1 .. last : after[i] = DecodeToken(after[i - 1], datagram[i])
        /\ DecodedFrom(Clear, datagram) = HandleNameValue(after[last])
  BY <1>1, <1>2, <1>3, Decoding
<1>5. IsReading(after, datagram, last)
  BY <1>4 DEF IsReading
<1>6. after[1] = Fresh(Clear)
  <2>1. 0 + 1 = 1 /\ 0 + 1 <= last
    BY DEF last
  <2>2. datagram[0 + 1] \in {Begin, End, Comma}
    BY <2>1 DEF IsMethodFirst
  <2> QED
    BY <1>3, <1>4, <1>5, <2>1, <2>2, MarkAt
<1> DEFINE f1 == With(Clear, "method", method)
           f2 == With(f1, "env", "pro")
           f3 == With(f2, inner, Blank)
<1>7. f1 \in [Names -> T] /\ f2 \in [Names -> T] /\ f3 \in [Names -> T]
  BY <1>1, <1>2, WithTypes
<1>8. /\ \A other \in Names : f1[other] = IF other = "method" THEN method ELSE Blank
      /\ \A other \in Names : f2[other] = IF other = "env" THEN "pro" ELSE f1[other]
      /\ \A other \in Names : f3[other] = IF other = inner THEN Blank ELSE f2[other]
  BY <1>1, <1>2, <1>7, WithTypes
<1> HIDE DEF f1, f2, f3
<1>9. after[5] = Fresh(f1)
  <2>1. 1 + 1 = 2 /\ 1 + 2 = 3 /\ 1 + 3 = 4 /\ 1 + 4 = 5 /\ 1 + 4 <= last
    BY DEF last
  <2>2. /\ datagram[1 + 1] = "method" /\ datagram[1 + 2] = Colon /\ datagram[1 + 3] = method
        /\ datagram[1 + 4] \in {Begin, End, Comma}
    BY <2>1 DEF IsMethodFirst
  <2>3. method \notin Punctuation
    BY DEF IsDatagram
  <2>4. after[1 + 4] = Fresh(With(Clear, "method", method))
    BY <1>3, <1>5, <1>6, <2>1, <2>2, <2>3, PairAt, TextsAre
  <2> QED
    BY <2>1, <2>4 DEF f1
<1>10. after[9] = Fresh(f2)
  <2>1. 5 + 1 = 6 /\ 5 + 2 = 7 /\ 5 + 3 = 8 /\ 5 + 4 = 9 /\ 5 + 4 <= last
    BY DEF last
  <2>2. /\ datagram[5 + 1] = "env" /\ datagram[5 + 2] = Colon /\ datagram[5 + 3] = "pro"
        /\ datagram[5 + 4] \in {Begin, End, Comma}
    BY <2>1 DEF IsMethodFirst
  <2>3. after[5 + 4] = Fresh(With(f1, "env", "pro"))
    BY <1>3, <1>5, <1>9, <2>1, <2>2, PairAt, TextsAre
  <2> QED
    BY <2>1, <2>3 DEF f2
<1>11. after[12] = Fresh(f3)
  <2>1. 9 + 1 = 10 /\ 9 + 2 = 11 /\ 9 + 3 = 12 /\ 9 + 3 <= last
    BY DEF last
  <2>2. datagram[9 + 1] = inner /\ datagram[9 + 2] = Colon /\ datagram[9 + 3] = Begin
    BY <2>1 DEF IsMethodFirst
  <2>3. inner \notin Punctuation
    BY DEF IsDatagram
  <2>4. after[9 + 3] = Fresh(With(f2, inner, Blank))
    BY <1>3, <1>5, <1>10, <2>1, <2>2, <2>3, ObjectAt
  <2> QED
    BY <2>1, <2>4 DEF f3
<1>12. AreAt(datagram, 12, members, last, T)
  <2>1. (12 + w) + 1 = 13 + w /\ (12 + w) + 1 <= last
    BY DEF last
  <2>2. datagram[(12 + w) + 1] = End /\ \A i \in 1 .. w : datagram[12 + i] = Members(members)[i]
    BY <2>1 DEF IsMethodFirst
  <2>3. members \in Seq(T \X T)
    BY DEF IsDatagram
  <2> QED
    BY <1>1, <1>3, <2>1, <2>2, <2>3, MembersAt
<1>13. PICK f4 : IsTold(f4, f3, members, Len(members), T) /\ after[13 + w] = Fresh(f4)
  <2>1. members \in Seq(T \X T) /\ IsReport(members)
    BY DEF IsDatagram
  <2>2. 12 + w + 1 = 13 + w
    OBVIOUS
  <2>3. \E f : IsTold(f, f3, members, Len(members), T) /\ after[12 + w + 1] = Fresh(f)
    BY <1>3, <1>5, <1>7, <1>11, <1>12, <2>1, MembersRead
  <2> QED
    BY <2>2, <2>3
<1>14. after[last] = Fresh(f4)
  <2>1. (13 + w) + 1 = last /\ (13 + w) + 1 <= last /\ 13 + w \in Nat
    BY DEF last
  <2>2. datagram[(13 + w) + 1] \in {Begin, End, Comma}
    BY <2>1 DEF IsMethodFirst, last
  <2>3. after[(13 + w) + 1] = Fresh(f4)
    BY <1>3, <1>5, <1>13, <2>1, <2>2, MarkAt
  <2> QED
    BY <2>1, <2>3
<1>15. DecodedFrom(Clear, datagram) = f4
  BY <1>4, <1>14, MarkRead
<1>16. f4["method"] = method
  <2>1. \A k \in 1 .. Len(members) : members[k][1] # "method"
    BY DEF IsDatagram, IsReport
  <2>2. f4["method"] = f3["method"]
    BY <1>13, <2>1, TextsAre DEF IsTold
  <2>3. inner # "method"
    BY DEF IsDatagram
  <2> QED
    BY <1>8, <2>2, <2>3, TextsAre
<1>17. ASSUME NEW name \in Names \ {"method", "env"} PROVE f3[name] = Blank
  BY <1>8
<1>18. DOMAIN members = 1 .. Len(members)
  BY DEF IsDatagram
<1> QED
  BY <1>13, <1>15, <1>16, <1>17, <1>18 DEF IsRead, IsTold

LEMMA MethodLastRead ==
  ASSUME NEW T, NEW method, NEW inner, NEW members, IsDatagram(method, inner, members, T),
         NEW datagram, NEW w \in Nat, w = Width(Len(members)),
         IsMethodLast(datagram, method, inner, Members(members), w, T)
  PROVE  IsRead(DecodedFrom(Clear, datagram), method, members, T)
<1> DEFINE last == 14 + w
<1>1. /\ Blank \in T /\ method \in T /\ "pro" \in T /\ Punctuation \subseteq T
      /\ Begin \in Punctuation /\ End \in Punctuation /\ Comma \in Punctuation
  BY DEF IsDatagram, IsTexts, Punctuation
<1>2. Clear \in [Names -> T] /\ \A name \in Names : Clear[name] = Blank
  BY <1>1 DEF Clear
<1>3. last \in Nat /\ IsPacket(datagram, last, T)
  <2>1. last \in Nat
    OBVIOUS
  <2> HIDE DEF last
  <2>2. IsPacket(datagram, last, T)
    BY Zenon DEF IsMethodLast, last
  <2> QED
    BY <2>1, <2>2
<1> HIDE DEF last
<1>4. PICK after \in [0 .. last -> Pairs(T)] :
        /\ after[0] = Fresh(Clear)
        /\ \A i \in 1 .. last : after[i] = DecodeToken(after[i - 1], datagram[i])
        /\ DecodedFrom(Clear, datagram) = HandleNameValue(after[last])
  BY <1>1, <1>2, <1>3, Decoding
<1>5. IsReading(after, datagram, last)
  BY <1>4 DEF IsReading
<1>6. after[1] = Fresh(Clear)
  <2>1. 0 + 1 = 1 /\ 0 + 1 <= last
    BY DEF last
  <2>2. datagram[0 + 1] \in {Begin, End, Comma}
    BY <2>1 DEF IsMethodLast
  <2> QED
    BY <1>3, <1>4, <1>5, <2>1, <2>2, MarkAt
<1> DEFINE f1 == With(Clear, inner, Blank)
<1>7. f1 \in [Names -> T] /\ \A name \in Names : f1[name] = Blank
  <2>1. /\ With(Clear, inner, Blank) \in [Names -> T]
        /\ \A other \in Names :
             With(Clear, inner, Blank)[other] = IF other = inner THEN Blank ELSE Clear[other]
    BY <1>1, <1>2 DEF With
  <2> QED
    BY <1>2, <2>1
<1> HIDE DEF f1
<1>8. after[4] = Fresh(f1)
  <2>1. 1 + 1 = 2 /\ 1 + 2 = 3 /\ 1 + 3 = 4 /\ 1 + 3 <= last
    BY DEF last
  <2>2. datagram[1 + 1] = inner /\ datagram[1 + 2] = Colon /\ datagram[1 + 3] = Begin
    BY <2>1 DEF IsMethodLast
  <2>3. inner \notin Punctuation
    BY DEF IsDatagram
  <2>4. after[1 + 3] = Fresh(With(Clear, inner, Blank))
    BY <1>3, <1>5, <1>6, <2>1, <2>2, <2>3, ObjectAt
  <2> QED
    BY <2>1, <2>4 DEF f1
<1>9. AreAt(datagram, 4, members, last, T)
  <2>1. (4 + w) + 1 = 5 + w /\ (4 + w) + 1 <= last
    BY DEF last
  <2>2. datagram[(4 + w) + 1] = End /\ \A i \in 1 .. w : datagram[4 + i] = Members(members)[i]
    BY <2>1 DEF IsMethodLast
  <2>3. members \in Seq(T \X T)
    BY DEF IsDatagram
  <2> QED
    BY <1>1, <1>3, <2>1, <2>2, <2>3, MembersAt
<1>10. PICK f2 : IsTold(f2, f1, members, Len(members), T) /\ after[5 + w] = Fresh(f2)
  <2>1. members \in Seq(T \X T) /\ IsReport(members)
    BY DEF IsDatagram
  <2>2. 4 + Width(Len(members)) + 1 = 5 + w
    OBVIOUS
  <2>3. \E f : /\ IsTold(f, f1, members, Len(members), T)
               /\ after[4 + Width(Len(members)) + 1] = Fresh(f)
    <3> DEFINE o == 4
               m == Width(Len(members))
               end == o + m + 1
    <3>1. AreAt(datagram, o, members, last, T) /\ after[o] = Fresh(f1)
      BY <1>8, <1>9
    <3> HIDE DEF o
    <3>2. \E f : IsTold(f, f1, members, Len(members), T) /\ after[o + m + 1] = Fresh(f)
      BY <1>3, <1>5, <1>7, <2>1, <3>1, MembersRead
    <3> QED
      BY <3>2 DEF o
  <2> QED
    BY <2>2, <2>3
<1>11. after[6 + w] = Fresh(f2)
  <2>1. (5 + w) + 1 = 6 + w /\ (5 + w) + 1 <= last /\ 5 + w \in Nat
    BY DEF last
  <2>2. datagram[(5 + w) + 1] \in {Begin, End, Comma}
    BY <2>1 DEF IsMethodLast
  <2>3. after[(5 + w) + 1] = Fresh(f2)
    BY <1>3, <1>5, <1>10, <2>1, <2>2, MarkAt
  <2> QED
    BY <2>1, <2>3
<1> DEFINE f3 == With(f2, "method", method)
           f4 == With(f3, "env", "pro")
<1>12. f2 \in [Names -> T] /\ f3 \in [Names -> T] /\ f4 \in [Names -> T]
  BY <1>1, <1>10, WithTypes DEF IsTold
<1>13. /\ \A other \in Names : f3[other] = IF other = "method" THEN method ELSE f2[other]
       /\ \A other \in Names : f4[other] = IF other = "env" THEN "pro" ELSE f3[other]
  BY <1>1, <1>12, WithTypes
<1> HIDE DEF f3, f4
<1>14. after[10 + w] = Fresh(f3)
  <2>1. /\ (6 + w) + 1 = 7 + w /\ (6 + w) + 2 = 8 + w /\ (6 + w) + 3 = 9 + w /\ (6 + w) + 4 = 10 + w
        /\ (6 + w) + 4 <= last /\ 6 + w \in Nat
    BY DEF last
  <2>2. /\ datagram[(6 + w) + 1] = "method" /\ datagram[(6 + w) + 2] = Colon /\ datagram[(6 + w) + 3] = method
        /\ datagram[(6 + w) + 4] \in {Begin, End, Comma}
    BY <2>1 DEF IsMethodLast
  <2>3. method \notin Punctuation
    BY DEF IsDatagram
  <2>4. after[(6 + w) + 4] = Fresh(With(f2, "method", method))
    <3> DEFINE i == 6 + w
    <3>1. i \in Nat /\ i + 4 <= last
      BY <2>1
    <3>2. after[i] = Fresh(f2)
      BY <1>11
    <3>3. datagram[i + 1] = "method" /\ datagram[i + 2] = Colon /\ datagram[i + 3] = method
          /\ datagram[i + 4] \in {Begin, End, Comma}
      BY <2>2
    <3> HIDE DEF i
    <3>4. after[i + 4] = Fresh(With(f2, "method", method))
      BY <1>3, <1>5, <3>1, <3>2, <3>3, <2>3, PairAt, TextsAre
    <3> QED
      BY <3>4 DEF i
  <2> QED
    BY <2>1, <2>4 DEF f3
<1>15. after[last] = Fresh(f4)
  <2>1. /\ (10 + w) + 1 = 11 + w /\ (10 + w) + 2 = 12 + w /\ (10 + w) + 3 = 13 + w /\ (10 + w) + 4 = 14 + w
        /\ (10 + w) + 4 <= last /\ 10 + w \in Nat /\ (10 + w) + 4 = last
    BY DEF last
  <2>2. /\ datagram[(10 + w) + 1] = "env" /\ datagram[(10 + w) + 2] = Colon /\ datagram[(10 + w) + 3] = "pro"
        /\ datagram[(10 + w) + 4] \in {Begin, End, Comma}
    BY <2>1 DEF IsMethodLast
  <2>3. after[(10 + w) + 4] = Fresh(With(f3, "env", "pro"))
    <3> DEFINE i == 10 + w
    <3>1. i \in Nat /\ i + 4 <= last
      BY <2>1
    <3>2. after[i] = Fresh(f3)
      BY <1>14
    <3>3. datagram[i + 1] = "env" /\ datagram[i + 2] = Colon /\ datagram[i + 3] = "pro"
          /\ datagram[i + 4] \in {Begin, End, Comma}
      BY <2>2
    <3> HIDE DEF i
    <3>4. after[i + 4] = Fresh(With(f3, "env", "pro"))
      BY <1>3, <1>5, <3>1, <3>2, <3>3, PairAt, TextsAre
    <3> QED
      BY <3>4 DEF i
  <2> QED
    BY <2>1, <2>3 DEF f4
<1>16. DecodedFrom(Clear, datagram) = f4
  BY <1>4, <1>15, MarkRead
<1>17. f4["method"] = method
  BY <1>13, TextsAre
<1>18. ASSUME NEW name \in Names \ {"method", "env"} PROVE f4[name] = f2[name] /\ f1[name] = Blank
  BY <1>7, <1>13
<1>19. DOMAIN members = 1 .. Len(members)
  BY DEF IsDatagram
<1> QED
  BY <1>10, <1>12, <1>16, <1>17, <1>18, <1>19 DEF IsRead, IsTold

LEMMA DatagramRead ==
  ASSUME NEW T, NEW method, NEW inner, NEW members, IsDatagram(method, inner, members, T),
         NEW innerFirst \in BOOLEAN
  PROVE  IsRead(Decoded(Rendered(method, inner, members, innerFirst)), method, members, T)
<1> DEFINE w == Width(Len(members))
           datagram == Rendered(method, inner, members, innerFirst)
<1>1. IsPacket(Members(members), w, T)
  <2>1. Punctuation \subseteq T /\ members \in Seq(T \X T) /\ Len(members) \in Nat
    BY DEF IsDatagram, IsTexts
  <2> QED
    BY <2>1, MembersAre
<1>2. w \in Nat /\ IsTexts(T, method, inner)
  BY <1>1 DEF IsPacket, IsDatagram
<1>3. \/ IsMethodFirst(datagram, method, inner, Members(members), w, T)
      \/ IsMethodLast(datagram, method, inner, Members(members), w, T)
  BY <1>1, <1>2, RenderedIs
<1>4. IsRead(DecodedFrom(Clear, datagram), method, members, T)
  <2> HIDE DEF datagram
  <2> QED
    BY <1>2, <1>3, MethodFirstRead, MethodLastRead
<1> QED
  BY <1>4 DEF Decoded

-----------------------------------------------------------------------------
\* Every text and character that a datagram may hold.
AllTexts ==
  STRING \cup Punctuation
    \cup {Blank, "method", "env", "pro", "params", "result", "error", "success", "true", "false",
          "code", "-32700", "message", "Parse error"}

LEMMA TextsOfAnswers ==
  /\ "params" \notin Punctuation /\ "result" \notin Punctuation /\ "error" \notin Punctuation
  /\ "success" \notin Punctuation /\ "true" \notin Punctuation /\ "false" \notin Punctuation
  /\ "code" \notin Punctuation /\ "-32700" \notin Punctuation
  /\ "message" \notin Punctuation /\ "Parse error" \notin Punctuation
BY Zenon DEF Punctuation, Begin, End, Colon, Comma

LEMMA PairsOfMore ==
  ASSUME NEW S, NEW T, S \subseteq T, NEW members \in Seq(S \X S)
  PROVE  members \in Seq(T \X T)
<1>1. S \X S \subseteq T \X T
  OBVIOUS
<1> DEFINE A == S \X S
           B == T \X T
<1>2. members \in Seq(A) /\ A \subseteq B
  BY <1>1
<1> HIDE DEF A, B
<1>3. members \in Seq(B)
  BY <1>2
<1> QED
  BY <1>3 DEF B

\* What a light sends is a datagram.
LEMMA ReportIs ==
  ASSUME NEW method \in WizMethods, NEW members \in WizStatuses
  PROVE  IsDatagram(method, "params", members, AllTexts)
<1>1. IsTexts(AllTexts, method, "params") /\ method \notin Punctuation
  BY WizRecvAssumption DEF IsTexts, AllTexts
<1>2. members \in Seq(STRING \X STRING) /\ IsReport(members)
  BY WizRecvAssumption
<1>3. members \in Seq(AllTexts \X AllTexts)
  <2>1. STRING \subseteq AllTexts
    BY DEF AllTexts
  <2> QED
    BY <1>2, <2>1, PairsOfMore
<1> QED
  BY <1>1, <1>2, <1>3, TextsOfAnswers DEF IsDatagram

LEMMA ResultIs ==
  ASSUME NEW method \in WizMethods, NEW answer \in {"true", "false"}
  PROVE  IsDatagram(method, "result", <<<<"success", answer>>>>, AllTexts)
<1>1. IsTexts(AllTexts, method, "result") /\ method \notin Punctuation
  BY WizRecvAssumption DEF IsTexts, AllTexts
<1>2. "success" \in AllTexts /\ answer \in AllTexts /\ answer \notin Punctuation
  BY TextsOfAnswers DEF AllTexts
<1> DEFINE members == <<<<"success", answer>>>>
<1>3. members \in Seq(AllTexts \X AllTexts) /\ Len(members) = 1
  BY <1>2
<1>4. IsReport(members)
  <2>1. DOMAIN members = {1} /\ members[1][1] = "success" /\ members[1][2] = answer
    OBVIOUS
  <2>2. "success" # "method" /\ "success" \notin Punctuation
    BY TextsOfAnswers
  <2> HIDE DEF members
  <2> QED
    BY <1>2, <2>1, <2>2 DEF IsReport
<1> QED
  BY <1>1, <1>3, <1>4, TextsOfAnswers DEF IsDatagram

LEMMA ErrorIs ==
  ASSUME NEW method \in WizMethods
  PROVE  IsDatagram(method, "error", <<<<"code", "-32700">>, <<"message", "Parse error">>>>, AllTexts)
<1>1. IsTexts(AllTexts, method, "error") /\ method \notin Punctuation
  BY WizRecvAssumption DEF IsTexts, AllTexts
<1>2. /\ "code" \in AllTexts /\ "-32700" \in AllTexts /\ "message" \in AllTexts
      /\ "Parse error" \in AllTexts
  BY DEF AllTexts
<1> DEFINE code == <<"code", "-32700">>
           message == <<"message", "Parse error">>
           members == <<code, message>>
<1>3. members \in Seq(AllTexts \X AllTexts) /\ DOMAIN members = {1, 2}
  <2>1. code \in AllTexts \X AllTexts /\ message \in AllTexts \X AllTexts
    BY <1>2
  <2> HIDE DEF code, message
  <2> QED
    BY <2>1
<1>4. IsReport(members)
  <2>1. /\ members[1][1] = "code" /\ members[1][2] = "-32700"
        /\ members[2][1] = "message" /\ members[2][2] = "Parse error"
    OBVIOUS
  <2>2. "code" # "method" /\ "message" # "method" /\ "code" # "message"
    OBVIOUS
  <2>3. DOMAIN members = {1, 2}
    BY <1>3
  <2> HIDE DEF members
  <2> QED
    BY <2>1, <2>2, <2>3, TextsOfAnswers DEF IsReport
<1> QED
  BY <1>1, <1>3, <1>4, TextsOfAnswers DEF IsDatagram

\* What the members tell of name, if they tell anything.
Tells(members, name) ==
  LET told == {k \in DOMAIN members : members[k][1] = name}
  IN  IF told = {} THEN Blank ELSE members[CHOOSE k \in told : TRUE][2]

LEMMA TellsIs ==
  ASSUME NEW T, NEW f, NEW method, NEW members, IsRead(f, method, members, T), IsReport(members),
         NEW name \in Names \ {"method", "env"}
  PROVE  f[name] = Tells(members, name)
<1> DEFINE told == {k \in DOMAIN members : members[k][1] = name}
<1>1. CASE told = {}
  <2>1. \A k \in DOMAIN members : members[k][1] # name
    BY <1>1
  <2> QED
    BY <1>1, <2>1 DEF IsRead, Tells
<1>2. CASE told # {}
  <2> DEFINE k == CHOOSE j \in told : TRUE
  <2>1. k \in told
    BY <1>2
  <2>2. Tells(members, name) = members[k][2]
    BY <1>2 DEF Tells
  <2> HIDE DEF k
  <2> QED
    BY <2>1, <2>2 DEF IsRead
<1> QED
  BY <1>1, <1>2

\* What was passed is what the light said.
PassedIsSaid(call, method, members) ==
  call =
    CASE method = "syncPilot" ->
           [call |-> "status", rssi |-> Tells(members, "rssi"), state |-> Tells(members, "state"),
            sceneId |-> Tells(members, "sceneId"), dimming |-> Tells(members, "dimming")]
      [] method = "setPilot" /\ Tells(members, "success") = "true" -> [call |-> "success"]
      [] OTHER -> NothingPassed

LEMMA PassedIs ==
  ASSUME NEW T, NEW f, NEW method, NEW members, IsRead(f, method, members, T), IsReport(members)
  PROVE  PassedIsSaid(Passed(f), method, members)
<1>1. /\ f["rssi"] = Tells(members, "rssi") /\ f["state"] = Tells(members, "state")
      /\ f["sceneId"] = Tells(members, "sceneId") /\ f["dimming"] = Tells(members, "dimming")
      /\ f["success"] = Tells(members, "success")
  <2>1. {"rssi", "state", "sceneId", "dimming", "success"} \subseteq Names \ {"method", "env"}
    BY Zenon DEF Names
  <2> QED
    BY <2>1, TellsIs
<1>2. f["method"] = method
  BY DEF IsRead
<1> QED
  BY <1>1, <1>2 DEF PassedIsSaid, Passed

\* For all that lights may report, in whatever order: the list is told of what
\* this datagram said, and of nothing else.
THEOREM OnlyWhatIsSaidIsPassedAlways == WizRecvSpec => []OnlyWhatIsSaidIsPassed
<1>1. OnlyWhatIsSaidIsPassed <=> PassedIsSaid(passed, meant.method, meant.members)
  BY DEF OnlyWhatIsSaidIsPassed, PassedIsSaid, Said, Tells
<1>2. WizRecvInit => OnlyWhatIsSaidIsPassed
  <2>1. Blank # "syncPilot" /\ Blank # "setPilot"
    BY Zenon DEF Blank
  <2> QED
    BY <1>1, <2>1 DEF WizRecvInit, PassedIsSaid
<1>3. ASSUME NEW method, NEW inner, NEW members, IsDatagram(method, inner, members, AllTexts),
             NEW innerFirst \in BOOLEAN, Receive(method, inner, members, innerFirst)
      PROVE  OnlyWhatIsSaidIsPassed'
  <2> DEFINE f == Decoded(Rendered(method, inner, members, innerFirst))
  <2>1. passed' = Passed(f) /\ meant' = [method |-> method, inner |-> inner, members |-> members]
    BY <1>3 DEF Receive
  <2>2. IsRead(f, method, members, AllTexts) /\ IsReport(members)
    BY <1>3, DatagramRead DEF IsDatagram
  <2> HIDE DEF f
  <2>3. PassedIsSaid(passed', method, members)
    BY <2>1, <2>2, PassedIs
  <2>4. meant'.method = method /\ meant'.members = members
    BY <2>1
  <2>5. PassedIsSaid(passed, meant.method, meant.members)'
    BY <2>3, <2>4 DEF PassedIsSaid
  <2> QED
    BY <2>5 DEF OnlyWhatIsSaidIsPassed, PassedIsSaid, Said, Tells
<1>4. OnlyWhatIsSaidIsPassed /\ [WizRecvNext]_wizRecvVars => OnlyWhatIsSaidIsPassed'
  <2> SUFFICES ASSUME OnlyWhatIsSaidIsPassed, [WizRecvNext]_wizRecvVars
               PROVE  OnlyWhatIsSaidIsPassed'
    OBVIOUS
  <2>1. ASSUME NEW method \in WizMethods, NEW innerFirst \in BOOLEAN, NEW members \in WizStatuses,
               Receive(method, "params", members, innerFirst)
        PROVE  OnlyWhatIsSaidIsPassed'
    BY <1>3, <2>1, ReportIs
  <2>2. ASSUME NEW method \in WizMethods, NEW innerFirst \in BOOLEAN, NEW answer \in {"true", "false"},
               Receive(method, "result", <<<<"success", answer>>>>, innerFirst)
        PROVE  OnlyWhatIsSaidIsPassed'
    BY <1>3, <2>2, ResultIs
  <2>3. ASSUME NEW method \in WizMethods, NEW innerFirst \in BOOLEAN,
               Receive(method, "error", <<<<"code", "-32700">>, <<"message", "Parse error">>>>, innerFirst)
        PROVE  OnlyWhatIsSaidIsPassed'
    BY <1>3, <2>3, ErrorIs
  <2>4. CASE UNCHANGED wizRecvVars
    BY <2>4 DEF wizRecvVars, OnlyWhatIsSaidIsPassed, Said
  <2> QED
    BY <2>1, <2>2, <2>3, <2>4 DEF WizRecvNext
<1> QED
  BY <1>2, <1>4, PTL DEF WizRecvSpec

=============================================================================
