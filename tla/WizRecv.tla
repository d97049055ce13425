------------------------------- MODULE WizRecv -------------------------------
(***************************************************************************)
(* wiz/wiz/wiz-recv.c: what is made of a light's datagram.  It is JSON, one*)
(* object in another, and the code reads it without a stack: a character   *)
(* goes to the name or to the value, whichever is open, and each bracket or*)
(* comma ends a pair.  What the names stand for is kept in variables that  *)
(* outlive the packet.  WizLights says what comes of it; this is why a     *)
(* datagram may stand for one answer there.                                *)
(*                                                                         *)
(* A packet is a sequence of brackets, colons, commas and texts; the quotes*)
(* go unread.  Texts are shorter than the code's 20 characters.            *)
(***************************************************************************)
EXTENDS Integers, Sequences

CONSTANTS
  WizStatuses,   \* sequences of <<name, value>> a light may report in "params"
  WizMethods     \* methods of the datagrams

\* The characters that are not part of a text, and the empty text.
Begin == "{"
End == "}"
Colon == ":"
Comma == ","
Blank == ""

Punctuation == {Begin, End, Colon, Comma}

\* A light's report tells each thing once and does not name the method again.
IsReport(members) ==
  /\ \A k \in DOMAIN members :
       members[k][1] \notin Punctuation \cup {"method"} /\ members[k][2] \notin Punctuation
  /\ \A j, k \in DOMAIN members : members[j][1] = members[k][1] => j = k

ASSUME WizRecvAssumption ==
  /\ WizStatuses \subseteq Seq(STRING \X STRING) /\ \A s \in WizStatuses : IsReport(s)
  /\ WizMethods \subseteq STRING \ Punctuation

VARIABLES
  fields,   \* method, rssi, state, success ...: the value of each name
  meant,     \* what the light meant: [method, inner, members]
  passed    \* what was called: WizListStatusAdd, WizListReceivedSuccess or nothing

wizRecvVars == <<fields, meant, passed>>

Names == {"method", "env", "mac", "rssi", "src", "mqttCd", "ts", "state", "sceneId", "temp",
          "dimming", "id", "result", "success"}

Clear == [n \in Names |-> Blank]
NothingPassed == [call |-> "none"]

WizRecvInit ==
  /\ fields = Clear /\ passed = NothingPassed
  /\ meant = [method |-> Blank, inner |-> Blank, members |-> <<>>]

-----------------------------------------------------------------------------
\* The pair under way: the texts that were read to its name and to its value, and
\* which of them is open.
Fresh(kept) == [name |-> Blank, value |-> Blank, open |-> "name", fields |-> kept]

\* handleNameValue: a name that is not known, or is of no interest, is ignored.
HandleNameValue(x) ==
  IF x.name \in Names THEN [x.fields EXCEPT ![x.name] = x.value] ELSE x.fields

\* One turn of decodePacket's loop.
DecodeToken(x, token) ==
  CASE token \in {Begin, End, Comma} -> Fresh(HandleNameValue(x))
    [] token = Colon -> [x EXCEPT !.open = "value", !.value = Blank]
    [] token \notin Punctuation /\ x.open = "name" -> [x EXCEPT !.name = token]
    [] token \notin Punctuation /\ x.open = "value" -> [x EXCEPT !.value = token]

\* decodePacket to the end of the packet, which ends a pair too.
DecodedFrom(kept, packet) ==
  LET after[n \in 0 .. Len(packet)] ==
        IF n = 0 THEN Fresh(kept) ELSE DecodeToken(after[n - 1], packet[n])
  IN  HandleNameValue(after[Len(packet)])

\* Mutant: what an earlier packet left is not cleared.
DecodedOnto(packet) == DecodedFrom(fields, packet)

Decoded(packet) == DecodedFrom(Clear, packet)

\* ... and what it does then.
Passed(f) ==
  CASE f["method"] = "syncPilot" ->
         [call |-> "status", rssi |-> f["rssi"], state |-> f["state"],
          sceneId |-> f["sceneId"], dimming |-> f["dimming"]]
    [] f["method"] = "setPilot" /\ f["success"] = "true" -> [call |-> "success"]
    [] OTHER -> NothingPassed

-----------------------------------------------------------------------------
\* The lights, which are not in this repository: {"method":m,"env":"pro","inner":{..}},
\* the inner object first or last.
Members(members) ==
  [i \in 1 .. IF members = <<>> THEN 0 ELSE 4 * Len(members) - 1 |->
     LET member == members[(i + 3) \div 4]
     IN  CASE i % 4 = 1 -> member[1] [] i % 4 = 2 -> Colon [] i % 4 = 3 -> member[2]
           [] i % 4 = 0 -> Comma]

Rendered(method, inner, members, innerFirst) ==
  LET outer == <<"method", Colon, method, Comma, "env", Colon, "pro">>
      object == <<inner, Colon, Begin>> \o Members(members) \o <<End>>
  IN  <<Begin>> \o (IF innerFirst THEN object \o <<Comma>> \o outer ELSE outer \o <<Comma>> \o object)
        \o <<End>>

Receive(method, inner, members, innerFirst) ==
  LET f == Decoded(Rendered(method, inner, members, innerFirst))
  IN  /\ meant' = [method |-> method, inner |-> inner, members |-> members]
      /\ fields' = f /\ passed' = Passed(f)

WizRecvNext ==
  \E method \in WizMethods, innerFirst \in BOOLEAN :
    \/ \E members \in WizStatuses : Receive(method, "params", members, innerFirst)
    \/ \E answer \in {"true", "false"} :
         Receive(method, "result", <<<<"success", answer>>>>, innerFirst)
    \/ Receive(method, "error", <<<<"code", "-32700">>, <<"message", "Parse error">>>>, innerFirst)

WizRecvSpec == WizRecvInit /\ [][WizRecvNext]_wizRecvVars

-----------------------------------------------------------------------------
\* What the light says of name, if it says anything.
Said(name) ==
  LET told == {k \in DOMAIN meant.members : meant.members[k][1] = name}
  IN  IF told = {} THEN Blank ELSE meant.members[CHOOSE k \in told : TRUE][2]

\* The list is told of a status exactly as the light reported it in this datagram -
\* what it leaves out is blank, never that of a datagram before it, perhaps another
\* light's - and of a success only when this datagram reports one.
OnlyWhatIsSaidIsPassed ==
  passed =
    CASE meant.method = "syncPilot" ->
           [call |-> "status", rssi |-> Said("rssi"), state |-> Said("state"),
            sceneId |-> Said("sceneId"), dimming |-> Said("dimming")]
      [] meant.method = "setPilot" /\ Said("success") = "true" -> [call |-> "success"]
      [] OTHER -> NothingPassed

=============================================================================
