------------------------------- MODULE WizList -------------------------------
(***************************************************************************)
(* The list of Wiz lights (wiz/wiz/wiz-list.c), the one packet waiting to  *)
(* be sent (wiz-send.c) and what a received datagram does (wiz-recv.c).    *)
(* The list keeps the request outstanding for each light; WizListMain      *)
(* looks at one entry per pass of the main loop and sends the request,     *)
(* again every half second until the light has answered.                   *)
(*                                                                         *)
(* A name or a room is only a label: switching a room is switching any set *)
(* of listed lights.  Signal, dimming, on and the time of the last status  *)
(* are only shown.                                                         *)
(***************************************************************************)
EXTENDS Integers

CONSTANTS
  Macs,     \* the lights there are
  NoMac,    \* the MAC of an empty entry
  Switches, \* what can be asked: DO_TURN_ON and DO_TURN_OFF
  Nothing,  \* DO_NOTHING
  MaxItems  \* WIZ_LIST_MAX_ITEMS

ASSUME WizListAssumption ==
  /\ NoMac \notin Macs
  /\ Nothing \notin Switches
  /\ MaxItems \in Nat \ {0}

VARIABLES
  items,  \* items[]: mac, todo and, for requestMadeTai, whether the request was
          \* made less than half a second ago
  looked, \* the entry WizListMain looked at last: its static i
  packet  \* todo and _mac of wiz-send.c

listVars == <<items, looked, packet>>

Index == 0 .. MaxItems - 1

NoPacket == [kind |-> "none"]
Register == [kind |-> "register"]
All(do) == [kind |-> "all", do |-> do]
One(mac, do) == [kind |-> "one", do |-> do, mac |-> mac]

Packets == {NoPacket, Register} \cup {All(do) : do \in Switches}
                                \cup {One(m, do) : m \in Macs, do \in Switches}

Item == [mac : Macs \cup {NoMac}, todo : Switches \cup {Nothing},
         lately : BOOLEAN]

EntriesOf(mac) == {k \in Index : items[k].mac = mac}
IsListed(mac) == EntriesOf(mac) # {}
First(S) == CHOOSE k \in S : \A j \in S : k <= j

\* Entry k as it is when FRAM is read at start-up.
Loaded(mac) == [mac |-> mac, todo |-> Nothing, lately |-> FALSE]

Init ==
  /\ items = [k \in Index |-> Loaded(NoMac)]
  /\ looked = MaxItems - 1
  /\ packet = NoPacket

-----------------------------------------------------------------------------
(***************************************************************************)
(* Requests: from the web pages and the schedule                           *)
(***************************************************************************)

\* Mutant: a request does not replace the one that is outstanding.
RequestedLater(item, do) ==
  IF item.todo = Nothing THEN [item EXCEPT !.todo = do, !.lately = FALSE] ELSE item

Requested(item, do) == [item EXCEPT !.todo = do, !.lately = FALSE]

\* WizListTurnIndex: an entry of the page.
WizListTurnIndex(k, do) ==
  /\ items[k].mac # NoMac
  /\ items' = [items EXCEPT ![k] = Requested(@, do)]
  /\ UNCHANGED <<looked, packet>>

\* WizListTurnRoom: each light of the room, in the first entry with its MAC.
WizListTurn(macs, do) ==
  /\ macs # {}
  /\ \A m \in macs : IsListed(m)
  /\ items' = [k \in Index |-> IF \E m \in macs : k = First(EntriesOf(m))
                               THEN Requested(items[k], do) ELSE items[k]]
  /\ UNCHANGED <<looked, packet>>

\* The broadcast counts as the first request to every light; it takes the place
\* of a packet that has not been sent.
WizListTurnAll(do) ==
  /\ items' = [k \in Index |-> IF items[k].mac = NoMac THEN items[k]
                               ELSE [items[k] EXCEPT !.todo = do, !.lately = TRUE]]
  /\ packet' = All(do)
  /\ UNCHANGED looked

-----------------------------------------------------------------------------
(***************************************************************************)
(* Edits                                                                   *)
(***************************************************************************)

\* WizListMoveUp of entry k, or WizListMoveDown of the one above it: todo and
\* requestMadeTai stay where they are.
Move(k) ==
  /\ k > 0
  /\ items' = [items EXCEPT ![k].mac = items[k - 1].mac, ![k - 1].mac = items[k].mac]
  /\ UNCHANGED <<looked, packet>>

\* ldel: the MAC and the name are cleared, the rest is not.
Delete(k) ==
  /\ items[k].mac # NoMac
  /\ items' = [items EXCEPT ![k].mac = NoMac]
  /\ UNCHANGED <<looked, packet>>

\* The power fails; WizListInit reads back what is in FRAM.
WizListInit ==
  /\ items' = [k \in Index |-> Loaded(items[k].mac)]
  /\ looked' = MaxItems - 1
  /\ packet' = NoPacket

\* The power fails between the two writes of a move: WizListMoveUp has written
\* entry k already, WizListMoveDown entry k - 1, and both hold the same MAC when
\* WizListInit reads them back.  (A MAC of six bytes is one write.)
MoveCutShort(k) ==
  /\ k > 0
  /\ \E j \in {k - 1, k} :
       items' = [i \in Index |-> Loaded(items[IF i \in {k - 1, k} THEN j ELSE i].mac)]
  /\ looked' = MaxItems - 1
  /\ packet' = NoPacket

-----------------------------------------------------------------------------
(***************************************************************************)
(* WizListMain and the network                                             *)
(***************************************************************************)

\* "This will set WizSendBusy": once in twenty seconds.
Registration ==
  /\ packet = NoPacket
  /\ packet' = Register
  /\ UNCHANGED <<items, looked>>

\* Mutant: an entry without a light may have something to do.
IsDueAnywhere(item) == item.todo # Nothing /\ ~ item.lately

\* A request is due when it was never made, or not lately.
IsDue(item) ==
  /\ item.todo # Nothing
  /\ item.mac # NoMac
  /\ ~ item.lately

\* Mutant: what has been sent is not kept for sending again.
LookedOnce(item) == IF IsDue(item) THEN [item EXCEPT !.todo = Nothing] ELSE item

Looked(item) == IF IsDue(item) THEN [item EXCEPT !.lately = TRUE] ELSE item

Look ==
  LET k == (looked + 1) % MaxItems IN
  /\ packet = NoPacket
  /\ looked' = k
  /\ packet' = IF IsDue(items[k]) THEN One(items[k].mac, items[k].todo) ELSE packet
  /\ items' = [items EXCEPT ![k] = Looked(@)]

\* Half a second has gone by since the request of entry k.
Elapse(k) ==
  /\ items[k].lately
  /\ items' = [items EXCEPT ![k].lately = FALSE]
  /\ UNCHANGED <<looked, packet>>

\* pollForPacketToSend: whatever becomes of the packet, it is not kept.
PollForPacketToSend ==
  /\ packet # NoPacket
  /\ packet' = NoPacket
  /\ UNCHANGED <<items, looked>>

\* Mutant: a light gets an entry whether or not it has one.
NewEntryAlways(mac) == IF EntriesOf(NoMac) = {} THEN {} ELSE {First(EntriesOf(NoMac))}

\* The entry given to a light that is not listed: the first empty one.
NewEntry(mac) == IF IsListed(mac) THEN {} ELSE NewEntryAlways(mac)

\* A status is shown.  If it is the first of the light it changes the list.
WizListStatusAdd(mac) ==
  /\ \E k \in NewEntry(mac) : items' = [items EXCEPT ![k].mac = mac]
  /\ UNCHANGED <<looked, packet>>

\* Mutant: the answer is taken to be that of the entry looked at last.
AnsweringLooked(mac) == {looked}
Answering(mac) == IF IsListed(mac) THEN {First(EntriesOf(mac))} ELSE {}

\* An answer says only which light it is from.
WizListReceivedSuccess(mac) ==
  /\ items' = [k \in Index |-> IF k \in Answering(mac)
                               THEN [items[k] EXCEPT !.todo = Nothing, !.lately = FALSE]
                               ELSE items[k]]
  /\ UNCHANGED <<looked, packet>>

=============================================================================
