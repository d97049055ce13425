------------------------------- MODULE WizSched -------------------------------
(***************************************************************************)
(* The schedule (wiz/wiz/wiz-sched.c): once in each minute WizSchedMain    *)
(* goes through the items and turns rooms on and off.  An event is a       *)
(* minute of the day in local time, or lies so many minutes after (before) *)
(* sunrise or sunset.                                                      *)
(*                                                                         *)
(* A name is a room, everyone ('*') or empty.  What the list of lights     *)
(* does for a room is in WizList (WizListTurn, WizListTurnAll); here       *)
(* turned is what it was asked last.                                       *)
(***************************************************************************)
EXTENDS Integers

CONSTANTS
  Rooms,
  Everyone,    \* '*'
  NoName,      \* the name of an item that is not used
  MaxItems,    \* WIZ_SCHED_MAX_ITEMS
  MaxLights,   \* WIZ_LIST_MAX_ITEMS
  Day,         \* minutes in a day: 1440
  DstMinutes,  \* TM_DST_OFFSET * 60
  StdMinutes,  \* TM_STD_OFFSET * 60
  Events,      \* the events that are entered
  Behind,      \* what may be read as an item behind the end of items[]
  On, Off, Nothing

ASSUME WizSchedAssumption ==
  /\ Everyone \notin Rooms /\ NoName \notin Rooms /\ Everyone # NoName
  /\ MaxItems \in Nat \ {0} /\ MaxLights \in Nat /\ MaxItems <= MaxLights
  /\ Day \in Nat \ {0} /\ Day % 4 = 0
  /\ DstMinutes \in 0 .. Day - 1 /\ StdMinutes \in 0 .. Day - 1
  /\ On # Off
  /\ Events \subseteq [datum : {"U", "L", "R", "S"}, minutes : Int]
  /\ Behind \subseteq [name : Rooms \cup {Everyone, NoName}, on : Events, off : Events]

VARIABLES
  items,    \* items[]
  scanned,  \* the static minutesLastScan
  turned,   \* what was asked of each room last
  isSet,    \* ClkTimeIsSet
  clock     \* what ClkNowTmUtc, WizSunRiseMinutes and WizSunSetMinutes say:
            \* minute, isDst, sunrise, sunset

schedVars == <<items, scanned, turned>>

Index == 0 .. MaxItems - 1
Names == Rooms \cup {Everyone, NoName}
NoEvent == [datum |-> "none", minutes |-> 0]
Item == [name : Names, on : Events \cup {NoEvent}, off : Events \cup {NoEvent}]

-----------------------------------------------------------------------------
(***************************************************************************)
(* Minutes                                                                 *)
(***************************************************************************)

Offset(isDst) == IF isDst THEN DstMinutes ELSE StdMinutes

\* Mutant: no carry over midnight.
LocalToUtcNoCarry(minutes) == minutes - Offset(clock.isDst)

WizSchedMinutesLocalToUtc(minutes) ==
  LET utc == minutes - Offset(clock.isDst) IN IF utc < 0 THEN utc + Day ELSE utc

\* getOnMinuteUtc and getOffMinuteUtc: what an offset puts before or after the
\* day stays there.
MinuteUtc(event) ==
  CASE event.datum = "U" -> event.minutes
    [] event.datum = "L" -> WizSchedMinutesLocalToUtc(event.minutes)
    [] event.datum = "R" -> event.minutes + clock.sunrise
    [] event.datum = "S" -> event.minutes + clock.sunset
    [] OTHER -> -1

EighteenHours == 3 * (Day \div 4)
SixHours == Day \div 4

\* Mutant: no limit to how long on lasts.
SubtractAnyLength(a, b) == (a - b) % Day

SubtractMinutes(a, b) ==
  LET d == a - b
      e == IF d >= EighteenHours THEN d - Day ELSE d
  IN  IF e < - SixHours THEN e + Day ELSE e

-----------------------------------------------------------------------------
(***************************************************************************)
(* WizSchedMain                                                            *)
(***************************************************************************)

NamesRoom(item, r) == item.name \in {r, Everyone}

Turn(was, item, do) ==
  [r \in Rooms |-> IF NamesRoom(item, r) THEN do ELSE was[r]]

At(event, was, item, do) ==
  IF MinuteUtc(event) = clock.minute THEN Turn(was, item, do) ELSE was

\* "Don't switch on for short or negative durations": nor off.
IsActive(item) ==
  /\ item.name # NoName
  /\ SubtractMinutes(MinuteUtc(item.off), MinuteUtc(item.on)) >= 1

\* Mutant: off is forgotten.
DoScheduleOn(was, item) ==
  IF IsActive(item) THEN At(item.on, was, item, On) ELSE was

DoSchedule(was, item) ==
  IF IsActive(item) THEN At(item.off, At(item.on, was, item, On), item, Off)
                    ELSE was

\* All the items, in order.
Scan ==
  LET after[k \in 0 .. MaxItems] ==
        IF k = 0 THEN turned ELSE DoSchedule(after[k - 1], items[k - 1])
  IN  after[MaxItems]

\* "Start of new minute one-shot"
WizSchedMain ==
  /\ isSet
  /\ scanned # clock.minute
  /\ scanned' = clock.minute
  /\ turned' = Scan
  /\ UNCHANGED items

\* FRAM keeps the items; what it held before may be any of them.
Init ==
  /\ items \in [Index -> Item]
  /\ scanned = -1
  /\ turned = [r \in Rooms |-> Nothing]

WizSchedInit ==
  /\ scanned' = -1
  /\ UNCHANGED <<items, turned>>

-----------------------------------------------------------------------------
(***************************************************************************)
(* Edits from the web page                                                 *)
(***************************************************************************)

SetName(k, name) == items' = [items EXCEPT ![k].name = name]

WizSchedSetOnEvent(k, event) == items' = [items EXCEPT ![k].on = event]

WizSchedSetOffEvent(k, event) == items' = [items EXCEPT ![k].off = event]

Delete(k) ==
  items' = [items EXCEPT ![k] = [name |-> NoName, on |-> NoEvent, off |-> NoEvent]]

\* The web page takes the schedule to be as long as the list of lights: the first
\* index behind the schedule exchanges its last item with whatever lies there.
WizSchedMoveUp(k) ==
  /\ k > 0 /\ k - 1 \in Index
  /\ IF k \in Index
     THEN items' = [items EXCEPT ![k] = items[k - 1], ![k - 1] = items[k]]
     ELSE \E behind \in Behind : items' = [items EXCEPT ![k - 1] = behind]

\* So does the code, and the last item of the schedule may be moved down.
WizSchedMoveDown(k) ==
  /\ k < MaxLights - 1
  /\ IF k + 1 \in Index
     THEN items' = [items EXCEPT ![k] = items[k + 1], ![k + 1] = items[k]]
     ELSE \E behind \in Behind : items' = [items EXCEPT ![k] = behind]

\* Any other edit of an index behind the schedule changes only what lies there, in
\* memory and, as no address was ever set for it, somewhere in FRAM; neither is
\* modelled.
Edit ==
  /\ \/ \E k \in Index :
          \/ \E name \in Names : SetName(k, name)
          \/ \E event \in Events : WizSchedSetOnEvent(k, event)
          \/ \E event \in Events : WizSchedSetOffEvent(k, event)
          \/ Delete(k)
          \/ WizSchedMoveDown(k)
     \/ \E k \in 0 .. MaxLights - 1 : WizSchedMoveUp(k)
  /\ UNCHANGED <<scanned, turned>>

=============================================================================
