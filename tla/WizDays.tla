------------------------------- MODULE WizDays -------------------------------
(***************************************************************************)
(* WizSched with the days that go by, the user and the power (external).   *)
(***************************************************************************)
EXTENDS WizSched, FiniteSetsExt

CONSTANTS
  Suns,     \* sunrise and sunset of the days there are
  ChangeAt  \* the minute at which daylight saving begins or ends

ASSUME WizDaysAssumption == Suns \subseteq [sunrise : Int, sunset : Int]

VARIABLE
  onFor  \* history: how many minutes ago each item turned each room on; -1 when it
         \* did not, or when the room has been turned off since, or it is forgotten

vars == <<schedVars, isSet, clock, onFor>>

Unknown == [r \in Rooms |-> [k \in Index |-> -1]]

WorldInit ==
  /\ Init
  /\ isSet = FALSE
  /\ clock \in {[minute |-> 0, isDst |-> dst, sunrise |-> s.sunrise,
                 sunset |-> s.sunset] : dst \in BOOLEAN, s \in Suns}
  /\ onFor = Unknown

-----------------------------------------------------------------------------
\* An event that happens every day, unless it is changed.
IsInDay(event) ==
  \/ event.datum \in {"U", "L"} /\ event.minutes \in 0 .. Day - 1
  \/ event.datum = "R" /\ clock.sunrise + event.minutes \in 0 .. Day - 1
  \/ event.datum = "S" /\ clock.sunset + event.minutes \in 0 .. Day - 1

\* What turns a room on has an end that comes.
HasEnds(r) == \A k \in Index :
  NamesRoom(items[k], r) => IsInDay(items[k].on) /\ IsInDay(items[k].off)

TurnsOnNow(k, r) ==
  /\ NamesRoom(items[k], r)
  /\ IsActive(items[k])
  /\ MinuteUtc(items[k].on) = clock.minute

\* What an item says at its off event, one further down may overrule in the same
\* minute.
IsOverruled(k, r) ==
  /\ MinuteUtc(items[k].off) = clock.minute
  /\ \E j \in Index : j > k /\ TurnsOnNow(j, r)

Scanning ==
  /\ WizSchedMain
  /\ onFor' = [r \in Rooms |-> [k \in Index |->
       IF turned'[r] # On \/ IsOverruled(k, r) THEN -1
       ELSE IF TurnsOnNow(k, r) /\ MinuteUtc(items[k].off) \in 0 .. Day - 1 THEN 0
       ELSE onFor[r][k]]]
  /\ UNCHANGED <<isSet, clock>>

\* How long after on off comes, and how long ago on was.
Lasts(item) == (MinuteUtc(item.off) - MinuteUtc(item.on)) % Day
Since(item) == (clock.minute - MinuteUtc(item.on)) % Day

\* By the clock as it is, the item is on.
IsStillOn(item) ==
  /\ IsActive(item)
  /\ {MinuteUtc(item.on), MinuteUtc(item.off)} \subseteq 0 .. Day - 1
  /\ Since(item) <= Lasts(item)

IsShifted(item) ==
  \/ MinuteUtc(item.on)' # MinuteUtc(item.on)
  \/ MinuteUtc(item.off)' # MinuteUtc(item.off)

\* Where daylight saving or the next day's sun has shifted its events, an item is
\* on for as long as it would be by the shifted ones.
OnForAfter(r, k) ==
  IF onFor[r][k] = -1 THEN -1
  ELSE IF ~ IsShifted(items[k]) THEN onFor[r][k] + 1
  ELSE IF IsStillOn(items[k])' THEN Since(items[k])' ELSE -1

\* The main loop takes less than a minute to come round.
Tick ==
  LET minute == (clock.minute + 1) % Day IN
  /\ isSet => scanned = clock.minute
  /\ \E dst \in IF minute = ChangeAt THEN BOOLEAN ELSE {clock.isDst},
        s \in IF minute = 0 THEN Suns
              ELSE {[sunrise |-> clock.sunrise, sunset |-> clock.sunset]} :
       clock' = [minute |-> minute, isDst |-> dst,
                 sunrise |-> s.sunrise, sunset |-> s.sunset]
  /\ UNCHANGED <<schedVars, isSet>>
  /\ onFor' = [r \in Rooms |-> [k \in Index |-> OnForAfter(r, k)]]

SetClock ==
  /\ ~ isSet
  /\ isSet' = TRUE
  /\ UNCHANGED <<schedVars, clock, onFor>>

Restart ==
  /\ WizSchedInit
  /\ isSet' = FALSE
  /\ onFor' = Unknown
  /\ UNCHANGED clock

Editing ==
  /\ Edit
  /\ onFor' = [r \in Rooms |-> [k \in Index |->
       IF items'[k] = items[k] THEN onFor[r][k] ELSE -1]]
  /\ UNCHANGED <<isSet, clock>>

Next == Scanning \/ Tick \/ SetClock \/ Restart \/ Editing

Spec == WorldInit /\ [][Next]_vars

-----------------------------------------------------------------------------
\* Every variable keeps its type; a room is not on for a day.
TypeOK ==
  /\ items \in [Index -> Item]
  /\ scanned \in -1 .. Day - 1
  /\ turned \in [Rooms -> {On, Off, Nothing}]
  /\ isSet \in BOOLEAN
  /\ clock.minute \in 0 .. Day - 1
  /\ onFor \in [Rooms -> [Index -> -1 .. Day - 1]]

\* Every item turns off again, within eighteen hours, what it turned on, over
\* midnight and whatever other items do in between or are edited to do: doSchedule
\* does not switch on when the off event would not follow.  An on event in the very
\* minute of its off event, of an item further down, keeps the room on.  Nothing is
\* said of an item that is itself edited or moved while it is on, of a restart, nor
\* of one that the next day's sun or daylight saving makes too long or puts its off
\* event before now.
OnEnds == \A r \in Rooms, k \in Index : onFor[r][k] < EighteenHours

(***************************************************************************)
(* The same by the clocks: an event comes when the clock of its datum      *)
(* reads its minutes.                                                      *)
(***************************************************************************)
Reading(datum) ==
  CASE datum = "U" -> clock.minute
    [] datum = "L" -> (clock.minute + Offset(clock.isDst)) % Day
    [] datum = "R" -> clock.minute - clock.sunrise
    [] datum = "S" -> clock.minute - clock.sunset

IsNow(event) == Reading(event.datum) = event.minutes

Deciding(r) ==
  {k \in Index : /\ NamesRoom(items[k], r)
                 /\ Lasts(items[k]) \in 1 .. EighteenHours - 1
                 /\ IsNow(items[k].on) \/ IsNow(items[k].off)}

\* A scan turns a room as the last item says that names it and has an event now,
\* and leaves the other rooms; items with an event outside the day left aside.
ScanFollowsClock ==
  [][scanned' \notin {scanned, -1} =>
       \A r \in Rooms : HasEnds(r) =>
         turned'[r] = IF Deciding(r) = {} THEN turned[r]
                      ELSE IF IsNow(items[Max(Deciding(r))].on) THEN On ELSE Off]_vars

\* "Positive durations upto and including 18 hours are ok".
EighteenHoursIsOk ==
  [][scanned' \notin {scanned, -1} =>
       \A r \in Rooms :
         /\ HasEnds(r)
         /\ \E k \in Index : /\ \A j \in Index \ {k} : items[j].name = NoName
                             /\ NamesRoom(items[k], r)
                             /\ Lasts(items[k]) = EighteenHours
                             /\ IsNow(items[k].on)
         => turned'[r] = On]_vars

\* "Cannot move further down": the last item stays where it is.
LastStaysLast ==
  [][\A k \in Index : WizSchedMoveDown(k) /\ k = MaxItems - 1 => UNCHANGED items]_vars

=============================================================================
