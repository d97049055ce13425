---------------------------- MODULE WizDaysProofs ----------------------------
(***************************************************************************)
(* For a day and a schedule of any length, any rooms and any events.       *)
(***************************************************************************)
EXTENDS WizDays, BasicProofs

-----------------------------------------------------------------------------
(* Minutes *)

LEMMA ModDay ==
  ASSUME NEW x \in Int
  PROVE  /\ x % Day \in 0 .. Day - 1
         /\ x \in 0 .. Day - 1 => x % Day = x
         /\ x \in Day .. Day + Day - 1 => x % Day = x - Day
         /\ x \in - Day .. -1 => x % Day = x + Day
  BY WizSchedAssumption, Z3

\* The sum and the difference of two minutes of the day.
LEMMA SumInDay ==
  ASSUME NEW x \in 0 .. Day - 1, NEW y \in 0 .. Day - 1
  PROVE  (x + y) % Day = IF x + y < Day THEN x + y ELSE (x + y) - Day
<1>1. Day \in Nat \ {0}
  BY WizSchedAssumption
<1>2. CASE x + y < Day
  <2>1. x + y \in Int /\ x + y \in 0 .. Day - 1
    BY <1>1, <1>2
  <2>2. (x + y) % Day = x + y
    BY <2>1, ModDay, Zenon
  <2> QED
    BY <1>2, <2>2
<1>3. CASE ~ (x + y < Day)
  <2>1. x + y \in Int /\ x + y \in Day .. Day + Day - 1
    BY <1>1, <1>3
  <2>2. (x + y) % Day = (x + y) - Day
    BY <2>1, ModDay, Zenon
  <2> QED
    BY <1>3, <2>2
<1> QED
  BY <1>2, <1>3

LEMMA DifferenceInDay ==
  ASSUME NEW x \in 0 .. Day - 1, NEW y \in 0 .. Day - 1
  PROVE  (x - y) % Day = IF x >= y THEN x - y ELSE x - y + Day
<1>1. Day \in Nat \ {0}
  BY WizSchedAssumption
<1>2. CASE x >= y
  <2>1. x - y \in Int /\ x - y \in 0 .. Day - 1
    BY <1>1, <1>2
  <2>2. (x - y) % Day = x - y
    BY <2>1, ModDay, Zenon
  <2> QED
    BY <1>2, <2>2
<1>3. CASE ~ (x >= y)
  <2>1. x - y \in Int /\ x - y \in - Day .. -1
    BY <1>1, <1>3
  <2>2. (x - y) % Day = x - y + Day
    BY <2>1, ModDay, Zenon
  <2> QED
    BY <1>3, <2>2
<1> QED
  BY <1>2, <1>3

ClockOK ==
  /\ clock \in [minute : 0 .. Day - 1, isDst : BOOLEAN, sunrise : Int, sunset : Int]

LEMMA OffsetInDay == Offset(clock.isDst) \in 0 .. Day - 1
  BY WizSchedAssumption DEF Offset

\* An event of the day is at a minute of the day, and the clock of its datum
\* reads its minutes then and only then.
LEMMA EventInDay ==
  ASSUME ClockOK, NEW event \in Events \cup {NoEvent}, IsInDay(event)
  PROVE  /\ MinuteUtc(event) \in 0 .. Day - 1
         /\ IsNow(event) <=> MinuteUtc(event) = clock.minute
<1>1. /\ event.datum \in {"U", "L", "R", "S"} /\ event.minutes \in Int
      /\ Day \in Nat \ {0}
  BY WizSchedAssumption DEF IsInDay, NoEvent
<1>2. clock.minute \in 0 .. Day - 1 /\ clock.sunrise \in Int /\ clock.sunset \in Int
  BY DEF ClockOK
<1>3. CASE event.datum = "L"
  <2> DEFINE offset == Offset(clock.isDst)
             now == clock.minute
  <2>1. offset \in 0 .. Day - 1
    BY OffsetInDay
  <2>2. event.minutes \in 0 .. Day - 1
    BY <1>3 DEF IsInDay
  <2>3. MinuteUtc(event) = IF event.minutes - offset < 0 THEN event.minutes - offset + Day
                                                         ELSE event.minutes - offset
    BY <1>3 DEF MinuteUtc, WizSchedMinutesLocalToUtc
  <2>4. IsNow(event) <=> (now + offset) % Day = event.minutes
    BY <1>3 DEF IsNow, Reading
  <2>5. (now + offset) % Day = IF now + offset < Day THEN now + offset ELSE (now + offset) - Day
    BY <1>2, <2>1, SumInDay
  <2> HIDE DEF offset, now
  <2>6. now \in 0 .. Day - 1
    BY <1>2 DEF now
  <2>7. MinuteUtc(event) \in 0 .. Day - 1
    BY <1>1, <2>1, <2>2, <2>3
  <2>8. IsNow(event) <=> MinuteUtc(event) = now
    <3>1. CASE now + offset < Day
      BY <1>1, <2>1, <2>2, <2>3, <2>4, <2>5, <2>6, <3>1
    <3>2. CASE now + offset >= Day
      BY <1>1, <2>1, <2>2, <2>3, <2>4, <2>5, <2>6, <3>2
    <3> QED
      BY <1>1, <2>1, <2>6, <3>1, <3>2
  <2> QED
    BY <2>7, <2>8 DEF now
<1>4. CASE event.datum = "U"
  BY <1>2, <1>4 DEF IsInDay, IsNow, Reading, MinuteUtc
<1>5. CASE event.datum = "R"
  BY <1>1, <1>2, <1>5 DEF IsInDay, IsNow, Reading, MinuteUtc
<1>6. CASE event.datum = "S"
  BY <1>1, <1>2, <1>6 DEF IsInDay, IsNow, Reading, MinuteUtc
<1> QED
  BY <1>1, <1>3, <1>4, <1>5, <1>6

\* SubtractMinutes gives a positive difference where it is the time from b to a
\* and less than eighteen hours, and else none.
LEMMA PositiveDifference ==
  ASSUME NEW a \in 0 .. Day - 1, NEW b \in 0 .. Day - 1
  PROVE  /\ SubtractMinutes(a, b) >= 1 <=> (a - b) % Day \in 1 .. EighteenHours - 1
         /\ (a - b) % Day \in 0 .. Day - 1
         /\ (b + ((a - b) % Day)) % Day = a
<1>1. /\ Day \in Nat \ {0} /\ Day % 4 = 0 /\ a \in Int /\ b \in Int /\ a - b \in Int
      /\ a - b \in - Day .. Day - 1
  BY WizSchedAssumption
<1>2. PICK q \in Nat : Day = 4 * q /\ Day \div 4 = q /\ q > 0
  BY <1>1
<1>3. EighteenHours = 3 * q /\ SixHours = q
  BY <1>2 DEF EighteenHours, SixHours
<1>4. (a - b) % Day = IF a >= b THEN a - b ELSE a - b + Day
  BY DifferenceInDay
<1>5. SubtractMinutes(a, b) >= 1 <=> (a - b) % Day \in 1 .. EighteenHours - 1
  BY <1>1, <1>2, <1>3, <1>4 DEF SubtractMinutes
<1>6. (a - b) % Day \in 0 .. Day - 1
  BY <1>1, <1>4
<1>7. PICK d \in 0 .. Day - 1 : d = (a - b) % Day
  BY <1>6
<1>8. (b + d) % Day = IF b + d < Day THEN b + d ELSE (b + d) - Day
  BY SumInDay
<1>9. (b + d) % Day = a
  BY <1>1, <1>4, <1>7, <1>8
<1> QED
  BY <1>5, <1>6, <1>7, <1>9

\* An item whose events are in the day is active if it lasts less than eighteen
\* hours.
LEMMA ActiveItem ==
  ASSUME ClockOK, NEW item \in Item, item.name # NoName,
         IsInDay(item.on), IsInDay(item.off)
  PROVE  /\ IsActive(item) <=> Lasts(item) \in 1 .. EighteenHours - 1
         /\ Lasts(item) \in 0 .. Day - 1
         /\ MinuteUtc(item.on) \in 0 .. Day - 1
         /\ (MinuteUtc(item.on) + Lasts(item)) % Day = MinuteUtc(item.off)
<1>1. item.on \in Events \cup {NoEvent} /\ item.off \in Events \cup {NoEvent}
  BY DEF Item
<1>2. MinuteUtc(item.on) \in 0 .. Day - 1 /\ MinuteUtc(item.off) \in 0 .. Day - 1
  BY <1>1, EventInDay
<1> QED
  BY <1>2, PositiveDifference DEF IsActive, Lasts

-----------------------------------------------------------------------------
(* A scan *)

\* What the rooms have been asked after each number of items up to n.
IsScanOf(after, n) ==
  after = [k \in 0 .. n |-> IF k = 0 THEN turned
                            ELSE DoSchedule(after[k - 1], items[k - 1])]

\* The recursion of Scan has a solution.
LEMMA ScanExists == \E after : IsScanOf(after, MaxItems)
<1> DEFINE S == {n \in 0 .. MaxItems : ~ \E after : IsScanOf(after, n)}
<1>0. MaxItems \in Nat \ {0}
  BY WizSchedAssumption
<1>1. S \subseteq Nat /\ S \subseteq 0 .. MaxItems
  BY <1>0
<1>2. \A n \in 0 .. MaxItems : n \notin S => \E after : IsScanOf(after, n)
  OBVIOUS
<1>3. \A n \in S : ~ \E after : IsScanOf(after, n)
  OBVIOUS
<1> HIDE DEF S
<1>4. ASSUME S # {} PROVE FALSE
  <2>1. PICK n \in S : \A k \in S : n <= k
    BY <1>1, <1>4, Least
  <2>2. n \in 0 .. MaxItems
    BY <1>1
  <2>3. CASE n = 0
    <3> DEFINE first == [k \in 0 .. n |-> turned]
    <3>1. IsScanOf(first, n)
      BY <2>3 DEF IsScanOf
    <3> QED
      BY <3>1, <1>3
  <2>4. CASE n # 0
    <3>1. n - 1 \in 0 .. MaxItems /\ n - 1 \notin S
      BY <2>1, <2>2, <2>4, <1>0
    <3>2. PICK before : IsScanOf(before, n - 1)
      BY <3>1, <1>2
    <3>3. PICK after : after = [k \in 0 .. n |-> IF k = n THEN DoSchedule(before[n - 1], items[n - 1])
                                                           ELSE before[k]]
      OBVIOUS
    <3>4. ASSUME NEW k \in 0 .. n
          PROVE  after[k] = IF k = 0 THEN turned ELSE DoSchedule(after[k - 1], items[k - 1])
      <4>1. CASE k = n
        BY <2>2, <2>4, <3>3, <4>1
      <4>2. CASE k # n
        <5>1. k \in 0 .. n - 1
          BY <2>2, <4>2
        <5>2. before[k] = IF k = 0 THEN turned ELSE DoSchedule(before[k - 1], items[k - 1])
          BY <3>2, <5>1 DEF IsScanOf
        <5>3. after[k] = before[k]
          BY <3>3, <4>2
        <5>4. k # 0 => after[k - 1] = before[k - 1]
          BY <2>2, <3>3, <5>1
        <5> QED
          BY <5>2, <5>3, <5>4
      <4> QED
        BY <4>1, <4>2
    <3>5. DOMAIN after = 0 .. n /\ after = [k \in 0 .. n |-> after[k]]
      BY <3>3
    <3>6. IsScanOf(after, n)
      BY <3>4, <3>5 DEF IsScanOf
    <3> QED
      BY <3>6, <1>3
  <2> QED
    BY <2>3, <2>4
<1>5. MaxItems \in 0 .. MaxItems /\ MaxItems \notin S
  BY <1>0, <1>4
<1> QED
  BY <1>2, <1>5 DEF IsScanOf

LEMMA ScanIs == \E after : IsScanOf(after, MaxItems) /\ Scan = after[MaxItems]
  BY ScanExists DEF Scan, IsScanOf

Asked == {On, Off, Nothing}

\* An item says of a room what its event says, and leaves the others; its two
\* events are not at one minute.
LEMMA ItemSays ==
  ASSUME ClockOK, NEW item \in Item, NEW was \in [Rooms -> Asked], NEW r \in Rooms,
         NamesRoom(item, r) => IsInDay(item.on) /\ IsInDay(item.off)
  PROVE  DoSchedule(was, item)[r] =
           IF /\ NamesRoom(item, r)
              /\ Lasts(item) \in 1 .. EighteenHours - 1
              /\ IsNow(item.on) \/ IsNow(item.off)
           THEN IF IsNow(item.on) THEN On ELSE Off
           ELSE was[r]
<1>1. CASE ~ NamesRoom(item, r)
  BY <1>1 DEF DoSchedule, At, Turn
<1>2. CASE NamesRoom(item, r)
  <2>1. item.name # NoName
    BY <1>2, WizSchedAssumption DEF NamesRoom
  <2>2. IsActive(item) <=> Lasts(item) \in 1 .. EighteenHours - 1
    BY <1>2, <2>1, ActiveItem
  <2>3. item.on \in Events \cup {NoEvent} /\ item.off \in Events \cup {NoEvent}
    BY DEF Item
  <2>4. /\ IsNow(item.on) <=> MinuteUtc(item.on) = clock.minute
        /\ IsNow(item.off) <=> MinuteUtc(item.off) = clock.minute
        /\ MinuteUtc(item.on) \in 0 .. Day - 1 /\ MinuteUtc(item.off) \in 0 .. Day - 1
    BY <1>2, <2>3, EventInDay
  <2>5. Lasts(item) \in 1 .. EighteenHours - 1 => ~ (IsNow(item.on) /\ IsNow(item.off))
    <3>1. MinuteUtc(item.on) = MinuteUtc(item.off) => Lasts(item) = 0
      BY <2>4, DifferenceInDay DEF Lasts
    <3> QED
      BY <2>4, <3>1
  <2>6. CASE ~ IsActive(item)
    BY <2>2, <2>6 DEF DoSchedule
  <2>7. CASE IsActive(item)
    <3>1. DoSchedule(was, item) = At(item.off, At(item.on, was, item, On), item, Off)
      BY <2>7 DEF DoSchedule
    <3>2. At(item.on, was, item, On)[r] = IF IsNow(item.on) THEN On ELSE was[r]
      BY <1>2, <2>4 DEF At, Turn
    <3>3. DoSchedule(was, item)[r] = IF IsNow(item.off) THEN Off ELSE At(item.on, was, item, On)[r]
      BY <1>2, <2>4, <3>1 DEF At, Turn
    <3> QED
      BY <1>2, <2>2, <2>5, <2>7, <3>2, <3>3
  <2> QED
    BY <2>6, <2>7
<1> QED
  BY <1>1, <1>2

LEMMA ItemTypes ==
  ASSUME NEW item, NEW was \in [Rooms -> Asked]
  PROVE  DoSchedule(was, item) \in [Rooms -> Asked]
  BY DEF DoSchedule, At, Turn, Asked

\* After k items a room has been asked what the last of them to decide says.
SaysUpTo(after, k, r) ==
  /\ (\A j \in Deciding(r) : ~ (j < k)) => after[k][r] = turned[r]
  /\ \A j \in Deciding(r) :
       j < k /\ (\A i \in Deciding(r) : i < k => i <= j) =>
         after[k][r] = IF IsNow(items[j].on) THEN On ELSE Off

LEMMA ScanTypes ==
  ASSUME turned \in [Rooms -> Asked], NEW after, IsScanOf(after, MaxItems)
  PROVE  \A k \in 0 .. MaxItems : after[k] \in [Rooms -> Asked]
<1> DEFINE S == {k \in 0 .. MaxItems : after[k] \notin [Rooms -> Asked]}
<1>0. MaxItems \in Nat \ {0}
  BY WizSchedAssumption
<1>1. S \subseteq Nat /\ S \subseteq 0 .. MaxItems
  BY <1>0
<1>2. \A k \in 0 .. MaxItems : k \in S <=> after[k] \notin [Rooms -> Asked]
  OBVIOUS
<1> HIDE DEF S
<1>3. ASSUME S # {} PROVE FALSE
  <2>1. PICK k \in S : \A j \in S : k <= j
    BY <1>1, <1>3, Least
  <2>2. k \in 0 .. MaxItems
    BY <1>1
  <2>3. after[k] = IF k = 0 THEN turned ELSE DoSchedule(after[k - 1], items[k - 1])
    BY <2>2 DEF IsScanOf
  <2>4. CASE k = 0
    BY <1>2, <2>2, <2>3, <2>4
  <2>5. CASE k # 0
    <3>1. k - 1 \in 0 .. MaxItems /\ k - 1 \notin S
      BY <1>0, <2>1, <2>2, <2>5
    <3>2. after[k - 1] \in [Rooms -> Asked]
      BY <1>2, <3>1
    <3> QED
      BY <1>2, <2>2, <2>3, <2>5, <3>2, ItemTypes
  <2> QED
    BY <2>4, <2>5
<1> QED
  BY <1>2, <1>3

LEMMA ScanSaysUpTo ==
  ASSUME ClockOK, items \in [Index -> Item], turned \in [Rooms -> Asked],
         NEW r \in Rooms, HasEnds(r), NEW after, IsScanOf(after, MaxItems)
  PROVE  \A k \in 0 .. MaxItems : SaysUpTo(after, k, r)
<1> DEFINE S == {k \in 0 .. MaxItems : ~ SaysUpTo(after, k, r)}
<1>0. MaxItems \in Nat \ {0} /\ Deciding(r) \subseteq Index
  BY WizSchedAssumption DEF Deciding
<1>1. S \subseteq Nat /\ S \subseteq 0 .. MaxItems
  BY <1>0
<1>2. \A k \in 0 .. MaxItems : k \in S <=> ~ SaysUpTo(after, k, r)
  OBVIOUS
<1> HIDE DEF S
<1>3. ASSUME S # {} PROVE FALSE
  <2>1. PICK k \in S : \A j \in S : k <= j
    BY <1>1, <1>3, Least
  <2>2. k \in 0 .. MaxItems
    BY <1>1
  <2>3. after[k] = IF k = 0 THEN turned ELSE DoSchedule(after[k - 1], items[k - 1])
    BY <2>2 DEF IsScanOf
  <2>4. CASE k = 0
    <3>1. SaysUpTo(after, k, r)
      BY <1>0, <2>3, <2>4 DEF SaysUpTo, Index
    <3> QED
      BY <1>2, <2>2, <3>1
  <2>5. CASE k # 0
    <3>1. k - 1 \in 0 .. MaxItems /\ k - 1 \notin S /\ k - 1 \in Index
      BY <1>0, <2>1, <2>2, <2>5 DEF Index
    <3>2. SaysUpTo(after, k - 1, r)
      BY <1>2, <3>1
    <3>3. after[k - 1] \in [Rooms -> Asked]
      BY <3>1, ScanTypes
    <3> DEFINE item == items[k - 1]
    <3>4. item \in Item
      BY <3>1
    <3>5. NamesRoom(item, r) => IsInDay(item.on) /\ IsInDay(item.off)
      BY <3>1 DEF HasEnds
    <3>6. k - 1 \in Deciding(r) <=> /\ NamesRoom(item, r)
                                    /\ Lasts(item) \in 1 .. EighteenHours - 1
                                    /\ IsNow(item.on) \/ IsNow(item.off)
      BY <3>1 DEF Deciding
    <3>7. after[k][r] = IF k - 1 \in Deciding(r) THEN IF IsNow(item.on) THEN On ELSE Off
                                                 ELSE after[k - 1][r]
      BY <2>3, <2>5, <3>3, <3>4, <3>5, <3>6, ItemSays
    <3> HIDE DEF item
    <3>8. \A j \in Deciding(r) : j < k <=> j < k - 1 \/ j = k - 1
      BY <1>0, <2>2 DEF Index
    <3>9. \A j \in Deciding(r) : j <= k - 1 <=> ~ (j > k - 1)
      BY <1>0, <2>2 DEF Index
    <3>10. CASE k - 1 \in Deciding(r)
      <4>1. \A j \in Deciding(r) : j < k /\ (\A i \in Deciding(r) : i < k => i <= j) => j = k - 1
        BY <1>0, <2>2, <3>8, <3>10 DEF Index
      <4>2. ~ \A j \in Deciding(r) : ~ (j < k)
        BY <3>8, <3>10
      <4>3. SaysUpTo(after, k, r)
        BY <3>7, <3>10, <4>1, <4>2 DEF SaysUpTo, item
      <4> QED
        BY <1>2, <2>2, <4>3
    <3>11. CASE k - 1 \notin Deciding(r)
      <4>1. \A j \in Deciding(r) : j < k <=> j < k - 1
        BY <3>8, <3>11
      <4>2. after[k][r] = after[k - 1][r]
        BY <3>7, <3>11
      <4>3. SaysUpTo(after, k, r)
        BY <3>2, <4>1, <4>2 DEF SaysUpTo
      <4> QED
        BY <1>2, <2>2, <4>3
    <3> QED
      BY <3>10, <3>11
  <2> QED
    BY <2>4, <2>5
<1> QED
  BY <1>2, <1>3

LEMMA LastDecides ==
  ASSUME NEW r, Deciding(r) # {}
  PROVE  /\ Max(Deciding(r)) \in Deciding(r)
         /\ \A j \in Deciding(r) : j <= Max(Deciding(r))
<1> DEFINE D == Deciding(r)
           T == {MaxItems - j : j \in D}
<1>1. MaxItems \in Nat \ {0} /\ D \subseteq 0 .. MaxItems - 1
  BY WizSchedAssumption DEF Deciding, Index
<1> HIDE DEF D
<1>2. T \subseteq Nat /\ T # {}
  BY <1>1 DEF D
<1>3. PICK m \in T : \A k \in T : m <= k
  BY <1>2, Least
<1>4. PICK last \in D : m = MaxItems - last
  OBVIOUS
<1>5. \A j \in D : MaxItems - j \in T
  OBVIOUS
<1>6. \A j \in D : last >= j
  BY <1>1, <1>3, <1>4, <1>5
<1>7. Max(D) \in D /\ \A j \in D : Max(D) >= j
  BY <1>6 DEF Max
<1> QED
  BY <1>1, <1>7 DEF D

\* What a scan asks of a room whose items have their events in the day.
LEMMA ScanSays ==
  ASSUME ClockOK, items \in [Index -> Item], turned \in [Rooms -> Asked],
         NEW r \in Rooms, HasEnds(r)
  PROVE  Scan[r] = IF Deciding(r) = {} THEN turned[r]
                   ELSE IF IsNow(items[Max(Deciding(r))].on) THEN On ELSE Off
<1>0. MaxItems \in Nat \ {0} /\ Deciding(r) \subseteq 0 .. MaxItems - 1
  BY WizSchedAssumption DEF Deciding, Index
<1>1. PICK after : IsScanOf(after, MaxItems) /\ Scan = after[MaxItems]
  BY ScanIs
<1>2. SaysUpTo(after, MaxItems, r)
  BY <1>0, <1>1, ScanSaysUpTo
<1>3. \A j \in Deciding(r) : j < MaxItems
  BY <1>0
<1>4. CASE Deciding(r) = {}
  BY <1>1, <1>2, <1>4 DEF SaysUpTo
<1>5. CASE Deciding(r) # {}
  BY <1>1, <1>2, <1>3, <1>5, LastDecides DEF SaysUpTo
<1> QED
  BY <1>4, <1>5

-----------------------------------------------------------------------------
(* What an item turned on it turns off *)

LEMMA Numbers ==
  /\ Day \in Nat \ {0, 1} /\ EighteenHours \in 1 .. Day - 1
  /\ MaxItems \in Nat \ {0} /\ Index = 0 .. MaxItems - 1
<1>1. Day \in Nat \ {0} /\ Day % 4 = 0
  BY WizSchedAssumption
<1>2. PICK q \in Nat : Day = 4 * q /\ Day \div 4 = q /\ q > 0
  BY <1>1
<1> QED
  BY <1>2, WizSchedAssumption DEF EighteenHours, Index

\* An item lasts less than eighteen hours if it is active, and its off event comes
\* when it has lasted.
LEMMA ActiveLasts ==
  ASSUME NEW item, MinuteUtc(item.on) \in 0 .. Day - 1, MinuteUtc(item.off) \in 0 .. Day - 1
  PROVE  /\ IsActive(item) => Lasts(item) \in 1 .. EighteenHours - 1
         /\ Lasts(item) \in 0 .. Day - 1
         /\ (MinuteUtc(item.on) + Lasts(item)) % Day = MinuteUtc(item.off)
  BY PositiveDifference DEF IsActive, Lasts

\* Only an item whose on event is now turns a room on.
LEMMA ItemTurnsOn ==
  ASSUME NEW item, NEW was \in [Rooms -> Asked], NEW r \in Rooms,
         was[r] # On, DoSchedule(was, item)[r] = On
  PROVE  NamesRoom(item, r) /\ IsActive(item) /\ MinuteUtc(item.on) = clock.minute
<1>1. IsActive(item)
  BY DEF DoSchedule
<1> DEFINE then == At(item.on, was, item, On)
<1>2. DoSchedule(was, item) = At(item.off, then, item, Off)
  BY <1>1 DEF DoSchedule
<1>3. then[r] = On
  BY <1>2, WizSchedAssumption DEF At, Turn
<1> QED
  BY <1>1, <1>3 DEF At, Turn

LEMMA ItemTurnsOff ==
  ASSUME NEW item, NEW was \in [Rooms -> Asked], NEW r \in Rooms,
         NamesRoom(item, r), IsActive(item), MinuteUtc(item.off) = clock.minute
  PROVE  DoSchedule(was, item)[r] = Off
  BY DEF DoSchedule, At, Turn

\* A scan at an item's off event turns the room off, unless one further down
\* overrules it.
LEMMA OffComes ==
  ASSUME turned \in [Rooms -> Asked], NEW r \in Rooms, NEW k \in Index,
         NamesRoom(items[k], r), IsActive(items[k]),
         MinuteUtc(items[k].off) = clock.minute, Scan[r] = On
  PROVE  IsOverruled(k, r)
<1>1. PICK after : IsScanOf(after, MaxItems) /\ Scan = after[MaxItems]
  BY ScanIs
<1>2. MaxItems \in Nat \ {0} /\ k \in 0 .. MaxItems - 1
  BY Numbers
<1>3. \A i \in 0 .. MaxItems : after[i] \in [Rooms -> Asked]
  BY <1>1, ScanTypes
<1>4. \A i \in 1 .. MaxItems : after[i] = DoSchedule(after[i - 1], items[i - 1])
  BY <1>1, <1>2 DEF IsScanOf
<1> DEFINE Overruled(i) == \E j \in Index : j > k /\ j < i /\ TurnsOnNow(j, r)
           S == {i \in k + 1 .. MaxItems : after[i][r] = On /\ ~ Overruled(i)}
<1>5. S \subseteq Nat /\ S \subseteq k + 1 .. MaxItems
  BY <1>2
<1>6. \A i \in k + 1 .. MaxItems : i \in S <=> after[i][r] = On /\ ~ Overruled(i)
  OBVIOUS
<1> HIDE DEF S
<1>7. ASSUME S # {} PROVE FALSE
  <2>1. PICK i \in S : \A j \in S : i <= j
    BY <1>5, <1>7, Least
  <2>2. /\ i \in k + 1 .. MaxItems /\ i \in 1 .. MaxItems /\ i - 1 \in 0 .. MaxItems
        /\ i - 1 \in Index /\ after[i][r] = On /\ ~ Overruled(i)
    BY <1>2, <1>5, <1>6, Numbers
  <2>3. after[i] = DoSchedule(after[i - 1], items[i - 1]) /\ after[i - 1] \in [Rooms -> Asked]
    BY <1>3, <1>4, <2>2
  <2>4. CASE i = k + 1
    <3>1. i - 1 = k
      BY <1>2, <2>4
    <3>2. after[i][r] = Off
      BY <2>3, <3>1, ItemTurnsOff
    <3> QED
      BY <2>2, <3>2, WizSchedAssumption
  <2>5. CASE i # k + 1
    <3>1. i - 1 \in k + 1 .. MaxItems /\ i - 1 > k /\ i - 1 < i /\ ~ (i <= i - 1)
      BY <1>2, <2>2, <2>5
    <3>2. i - 1 \notin S
      BY <2>1, <3>1
    <3>3. ~ Overruled(i - 1)
      <4>1. \A j \in Index : j < i - 1 => j < i
        BY <2>2, Numbers
      <4> QED
        BY <2>2, <4>1
    <3>4. after[i - 1][r] # On
      BY <1>6, <3>1, <3>2, <3>3
    <3>5. TurnsOnNow(i - 1, r)
      BY <2>2, <2>3, <3>4, ItemTurnsOn DEF TurnsOnNow
    <3> QED
      BY <2>2, <3>1, <3>5
  <2> QED
    BY <2>4, <2>5
<1>8. MaxItems \in k + 1 .. MaxItems /\ MaxItems \notin S
  BY <1>2, <1>7
<1>9. Overruled(MaxItems)
  BY <1>1, <1>6, <1>8
<1> QED
  BY <1>9 DEF IsOverruled

-----------------------------------------------------------------------------
(* The inductive invariant *)

\* By the clock as it is this item turned the room on n minutes ago, and its off
\* event is still to come; when it is now, the minute has not been scanned yet.
WillEnd(item, n, r) ==
  /\ NamesRoom(item, r)
  /\ IsActive(item)
  /\ MinuteUtc(item.on) \in 0 .. Day - 1 /\ MinuteUtc(item.off) \in 0 .. Day - 1
  /\ n \in 0 .. Day - 1 /\ n <= Lasts(item)
  /\ (MinuteUtc(item.on) + n) % Day = clock.minute
  /\ n = Lasts(item) => scanned # clock.minute

OnSince(r, k) == onFor[r][k] # -1 => isSet /\ WillEnd(items[k], onFor[r][k], r)

Types ==
  /\ items \in [Index -> Item]
  /\ scanned \in -1 .. Day - 1
  /\ turned \in [Rooms -> Asked]
  /\ isSet \in BOOLEAN
  /\ ClockOK

Counts == [Rooms -> [Index -> -1 .. Day - 1]]

DaysInv == Types /\ onFor \in Counts /\ \A r \in Rooms, k \in Index : OnSince(r, k)

LEMMA UnknownIsSafe ==
  onFor = Unknown => onFor \in Counts /\ \A r \in Rooms, k \in Index : OnSince(r, k)
  BY Numbers DEF Unknown, OnSince, Counts

LEMMA UnknownNext ==
  onFor' = Unknown => onFor' \in Counts /\ \A r \in Rooms, k \in Index : OnSince(r, k)'
  BY Numbers DEF Unknown, OnSince, Counts

\* What an item is by the clock does not change with the rest.
LEMMA ItemStays ==
  ASSUME NEW k \in Index, NEW n, NEW r, items'[k] = items[k], clock' = clock
  PROVE  /\ MinuteUtc(items[k].on)' = MinuteUtc(items[k].on)
         /\ MinuteUtc(items[k].off)' = MinuteUtc(items[k].off)
         /\ Lasts(items[k])' = Lasts(items[k])
         /\ IsActive(items[k])' <=> IsActive(items[k])
         /\ NamesRoom(items[k], r)' <=> NamesRoom(items[k], r)
         /\ scanned' = scanned => (WillEnd(items[k], n, r)' <=> WillEnd(items[k], n, r))
<1>1. /\ MinuteUtc(items[k].on)' = MinuteUtc(items[k].on)
      /\ MinuteUtc(items[k].off)' = MinuteUtc(items[k].off)
  BY DEF MinuteUtc, WizSchedMinutesLocalToUtc, Offset
<1>2. Lasts(items[k])' = Lasts(items[k]) /\ (NamesRoom(items[k], r)' <=> NamesRoom(items[k], r))
  BY <1>1 DEF Lasts, NamesRoom
<1>3. IsActive(items[k])' <=> IsActive(items[k])
  BY <1>1 DEF IsActive, SubtractMinutes
<1> QED
  BY <1>1, <1>2, <1>3 DEF WillEnd

LEMMA StaysSince ==
  ASSUME NEW r \in Rooms, NEW k \in Index, OnSince(r, k), items'[k] = items[k],
         clock' = clock, scanned' = scanned, isSet' = isSet, onFor'[r][k] = onFor[r][k]
  PROVE  OnSince(r, k)'
<1>1. PICK n : onFor[r][k] = n
  OBVIOUS
<1>2. WillEnd(items[k], n, r)' <=> WillEnd(items[k], n, r)
  BY ItemStays
<1> QED
  BY <1>1, <1>2 DEF OnSince

LEMMA InitDays == WorldInit => DaysInv
<1> SUFFICES ASSUME WorldInit PROVE DaysInv
  OBVIOUS
<1>1. PICK dst \in BOOLEAN, s \in Suns :
        clock = [minute |-> 0, isDst |-> dst, sunrise |-> s.sunrise, sunset |-> s.sunset]
  BY DEF WorldInit
<1>2. s.sunrise \in Int /\ s.sunset \in Int /\ 0 \in 0 .. Day - 1
  BY WizDaysAssumption, Numbers
<1>3. ClockOK
  BY <1>1, <1>2 DEF ClockOK
<1>4. Types
  <2>1. /\ items \in [Index -> Item] /\ scanned = -1
        /\ turned = [r \in Rooms |-> Nothing]
        /\ isSet = FALSE /\ onFor = Unknown
    BY DEF WorldInit, Init
  <2>2. turned \in [Rooms -> Asked]
    BY <2>1 DEF Asked
  <2>3. scanned \in -1 .. Day - 1
    BY <2>1, Numbers
  <2> QED
    BY <1>3, <2>1, <2>2, <2>3 DEF Types
<1> QED
  BY <1>4, UnknownIsSafe DEF DaysInv, WorldInit

\* An edit leaves items in the schedule.
LEMMA EditTypes ==
  ASSUME items \in [Index -> Item], Edit
  PROVE  items' \in [Index -> Item]
<1>0. CASE \E k \in 0 .. MaxLights - 1 : WizSchedMoveUp(k)
  <2>1. PICK k \in 0 .. MaxLights - 1 : WizSchedMoveUp(k)
    BY <1>0
  <2>2. k - 1 \in Index /\ items[k - 1] \in Item
    BY <2>1 DEF WizSchedMoveUp
  <2>3. CASE k \in Index
    <3>1. items[k] \in Item
      BY <2>3
    <3> QED
      BY <2>1, <2>2, <2>3, <3>1 DEF WizSchedMoveUp
  <2>4. CASE k \notin Index
    <3>1. Behind \subseteq Item
      BY WizSchedAssumption DEF Item, Names
    <3> QED
      BY <2>1, <2>2, <2>4, <3>1 DEF WizSchedMoveUp
  <2> QED
    BY <2>3, <2>4
<1> SUFFICES ASSUME NEW k \in Index,
                    \/ \E name \in Names : SetName(k, name)
                    \/ \E event \in Events : WizSchedSetOnEvent(k, event)
                    \/ \E event \in Events : WizSchedSetOffEvent(k, event)
                    \/ Delete(k)
                    \/ WizSchedMoveDown(k)
             PROVE  items' \in [Index -> Item]
  BY <1>0 DEF Edit
<1>2. items[k] \in Item
  OBVIOUS
<1>3. ASSUME NEW name \in Names, SetName(k, name) PROVE items' \in [Index -> Item]
  BY <1>2, <1>3 DEF SetName, Item
<1>4. ASSUME NEW event \in Events, WizSchedSetOnEvent(k, event) PROVE items' \in [Index -> Item]
  BY <1>2, <1>4 DEF WizSchedSetOnEvent, Item
<1>5. ASSUME NEW event \in Events, WizSchedSetOffEvent(k, event) PROVE items' \in [Index -> Item]
  BY <1>2, <1>5 DEF WizSchedSetOffEvent, Item
<1>6. CASE Delete(k)
  BY <1>6 DEF Delete, Item, Names
<1>7. CASE WizSchedMoveDown(k)
  <2>1. CASE k + 1 \in Index
    <3>1. items[k + 1] \in Item
      BY <2>1
    <3> QED
      BY <1>2, <1>7, <2>1, <3>1 DEF WizSchedMoveDown
  <2>2. CASE k + 1 \notin Index
    <3>1. Behind \subseteq Item
      BY WizSchedAssumption DEF Item, Names
    <3> QED
      BY <1>7, <2>2, <3>1 DEF WizSchedMoveDown
  <2> QED
    BY <2>1, <2>2
<1> QED
  BY <1>3, <1>4, <1>5, <1>6, <1>7

LEMMA ScanIsTyped == turned \in [Rooms -> Asked] => Scan \in [Rooms -> Asked]
  BY ScanIs, ScanTypes, Numbers

\* One minute after the minute n minutes after x.
LEMMA MinuteAfter ==
  ASSUME NEW x \in 0 .. Day - 1, NEW n \in 0 .. Day - 2
  PROVE  (x + (n + 1)) % Day = (((x + n) % Day) + 1) % Day
<1>1. n \in 0 .. Day - 1 /\ n + 1 \in 0 .. Day - 1 /\ 1 \in 0 .. Day - 1 /\ Day \in Nat
  BY Numbers
<1>2. /\ (x + n) % Day = IF x + n < Day THEN x + n ELSE (x + n) - Day
      /\ (x + (n + 1)) % Day = IF x + (n + 1) < Day THEN x + (n + 1) ELSE (x + (n + 1)) - Day
  BY <1>1, SumInDay
<1>3. PICK y \in 0 .. Day - 1 : y = (x + n) % Day
  BY <1>1, <1>2
<1>4. (y + 1) % Day = IF y + 1 < Day THEN y + 1 ELSE (y + 1) - Day
  BY <1>1, SumInDay
<1> QED
  BY <1>1, <1>2, <1>3, <1>4

LEMMA ScanningStep ==
  ASSUME DaysInv, Scanning
  PROVE  DaysInv'
<1>1. /\ Types /\ isSet /\ scanned # clock.minute /\ scanned' = clock.minute
      /\ turned' = Scan /\ items' = items /\ isSet' = isSet /\ clock' = clock
      /\ onFor' = [r \in Rooms |-> [k \in Index |->
                    IF turned'[r] # On \/ IsOverruled(k, r) THEN -1
                    ELSE IF TurnsOnNow(k, r) /\ MinuteUtc(items[k].off) \in 0 .. Day - 1 THEN 0
                    ELSE onFor[r][k]]]
  BY DEF DaysInv, Scanning, WizSchedMain
<1>2. turned' \in [Rooms -> Asked]
  BY <1>1, ScanIsTyped DEF Types
<1>3. onFor' \in Counts
  BY <1>1, Numbers DEF DaysInv, Counts
<1>4. Types'
  BY <1>1, <1>2, Numbers DEF Types, ClockOK
<1>5. ASSUME NEW r \in Rooms, NEW k \in Index, NEW n, onFor'[r][k] = n, n # -1
      PROVE  isSet' /\ WillEnd(items[k], n, r)'
  <2>1. Scan[r] = On /\ ~ IsOverruled(k, r)
    BY <1>1, <1>5
  <2>2. /\ MinuteUtc(items[k].on)' = MinuteUtc(items[k].on)
        /\ MinuteUtc(items[k].off)' = MinuteUtc(items[k].off)
        /\ Lasts(items[k])' = Lasts(items[k])
        /\ IsActive(items[k])' <=> IsActive(items[k])
        /\ NamesRoom(items[k], r)' <=> NamesRoom(items[k], r)
    BY <1>1, ItemStays
  <2>3. clock.minute \in 0 .. Day - 1
    BY <1>1 DEF Types, ClockOK
  <2>4. CASE TurnsOnNow(k, r) /\ MinuteUtc(items[k].off) \in 0 .. Day - 1
    <3>1. n = 0
      BY <1>1, <1>5, <2>1, <2>4
    <3>2. /\ NamesRoom(items[k], r) /\ IsActive(items[k])
          /\ MinuteUtc(items[k].on) = clock.minute
          /\ MinuteUtc(items[k].on) \in 0 .. Day - 1
      BY <2>3, <2>4 DEF TurnsOnNow
    <3>3. Lasts(items[k]) \in 1 .. EighteenHours - 1
      BY <2>4, <3>2, ActiveLasts
    <3>4. (MinuteUtc(items[k].on) + 0) % Day = clock.minute
      <4>1. ASSUME NEW x \in 0 .. Day - 1 PROVE (x + 0) % Day = x
        <5>1. 0 \in 0 .. Day - 1 /\ x + 0 = x /\ x < Day
          BY Numbers
        <5> QED
          BY <5>1, SumInDay, Zenon
      <4> QED
        BY <3>2, <4>1
    <3>5. WillEnd(items[k], 0, r)'
      BY <1>1, <2>2, <2>4, <3>2, <3>3, <3>4, Numbers DEF WillEnd
    <3> QED
      BY <1>1, <3>1, <3>5
  <2>5. CASE ~ (TurnsOnNow(k, r) /\ MinuteUtc(items[k].off) \in 0 .. Day - 1)
    <3>1. n = onFor[r][k] /\ onFor[r][k] # -1
      BY <1>1, <1>5, <2>1, <2>5
    <3>2. WillEnd(items[k], n, r)
      BY <3>1 DEF DaysInv, OnSince
    <3>3. n # Lasts(items[k])
      <4>1. SUFFICES ASSUME n = Lasts(items[k]) PROVE FALSE
        OBVIOUS
      <4>2. MinuteUtc(items[k].off) = clock.minute
        BY <3>2, <4>1, ActiveLasts DEF WillEnd
      <4>3. NamesRoom(items[k], r) /\ IsActive(items[k])
        BY <3>2 DEF WillEnd
      <4> QED
        BY <1>1, <2>1, <4>2, <4>3, OffComes DEF Types
    <3>4. WillEnd(items[k], n, r)'
      BY <1>1, <2>2, <3>2, <3>3 DEF WillEnd
    <3> QED
      BY <1>1, <3>4
  <2> QED
    BY <2>4, <2>5
<1>6. ASSUME NEW r \in Rooms, NEW k \in Index PROVE OnSince(r, k)'
  <2>1. PICK n : onFor'[r][k] = n
    OBVIOUS
  <2> QED
    BY <1>5, <2>1 DEF OnSince
<1> QED
  BY <1>3, <1>4, <1>6 DEF DaysInv

\* An item that is on by the clock has its off event still to come.
LEMMA StillOnWillEnd ==
  ASSUME NEW k \in Index, NEW r, NEW n, NamesRoom(items[k], r)', IsStillOn(items[k])',
         Since(items[k])' = n, ClockOK', scanned' # clock'.minute
  PROVE  n \in 0 .. Day - 1 /\ WillEnd(items[k], n, r)'
<1>1. clock'.minute \in 0 .. Day - 1
  BY DEF ClockOK
<1>2. MinuteUtc(items[k].on)' \in 0 .. Day - 1 /\ MinuteUtc(items[k].off)' \in 0 .. Day - 1
  BY DEF IsStillOn
<1>3. n = (clock'.minute - MinuteUtc(items[k].on)') % Day
  BY DEF Since
<1>4. n \in 0 .. Day - 1 /\ (MinuteUtc(items[k].on)' + n) % Day = clock'.minute
  BY <1>1, <1>2, <1>3, PositiveDifference
<1> QED
  BY <1>2, <1>4 DEF WillEnd, IsStillOn

\* An item that is not shifted is a minute nearer to its off event.
LEMMA MinuteNearer ==
  ASSUME Types, NEW r \in Rooms, NEW k \in Index, NEW n \in 0 .. Day - 1,
         WillEnd(items[k], n, r), n # Lasts(items[k]), items' = items, ~ IsShifted(items[k]),
         clock'.minute = (clock.minute + 1) % Day, scanned' # clock'.minute
  PROVE  n + 1 \in 0 .. Day - 1 /\ WillEnd(items[k], n + 1, r)'
<1>1. /\ MinuteUtc(items[k].on)' = MinuteUtc(items[k].on)
      /\ MinuteUtc(items[k].off)' = MinuteUtc(items[k].off)
  BY DEF IsShifted
<1>2. /\ Lasts(items[k])' = Lasts(items[k])
      /\ IsActive(items[k])' <=> IsActive(items[k])
      /\ NamesRoom(items[k], r)' <=> NamesRoom(items[k], r)
  BY <1>1 DEF Lasts, IsActive, SubtractMinutes, NamesRoom
<1>3. Lasts(items[k]) \in 0 .. Day - 1 /\ n < Lasts(items[k])
  <2>1. Lasts(items[k]) \in 0 .. Day - 1
    BY ActiveLasts DEF WillEnd
  <2> QED
    BY <2>1, Numbers DEF WillEnd
<1>4. n \in 0 .. Day - 2 /\ n + 1 \in 0 .. Day - 1 /\ n + 1 <= Lasts(items[k])
  BY <1>3, Numbers
<1>5. (MinuteUtc(items[k].on) + (n + 1)) % Day = clock'.minute
  BY <1>4, MinuteAfter DEF WillEnd
<1> QED
  BY <1>1, <1>2, <1>4, <1>5 DEF WillEnd

LEMMA TickStep ==
  ASSUME DaysInv, Tick
  PROVE  DaysInv'
<1> DEFINE minute == (clock.minute + 1) % Day
<1>1. /\ Types
      /\ isSet => scanned = clock.minute
      /\ items' = items /\ scanned' = scanned /\ turned' = turned /\ isSet' = isSet
      /\ onFor' = [r \in Rooms |-> [k \in Index |-> OnForAfter(r, k)]]
  BY DEF DaysInv, Tick, schedVars
<1>2. clock.minute \in 0 .. Day - 1 /\ 1 \in 0 .. Day - 1
  BY <1>1, Numbers DEF Types, ClockOK
<1>3. minute \in 0 .. Day - 1 /\ minute # clock.minute
  <2>1. minute = IF clock.minute + 1 < Day THEN clock.minute + 1 ELSE (clock.minute + 1) - Day
    BY <1>2, SumInDay
  <2> QED
    BY <1>2, <2>1, Numbers
<1>4. ClockOK' /\ clock'.minute = minute
  <2>1. PICK dst \in IF minute = ChangeAt THEN BOOLEAN ELSE {clock.isDst},
             s \in IF minute = 0 THEN Suns
                   ELSE {[sunrise |-> clock.sunrise, sunset |-> clock.sunset]} :
          clock' = [minute |-> minute, isDst |-> dst, sunrise |-> s.sunrise, sunset |-> s.sunset]
    BY DEF Tick
  <2>2. dst \in BOOLEAN /\ s.sunrise \in Int /\ s.sunset \in Int
    <3>1. clock.isDst \in BOOLEAN /\ clock.sunrise \in Int /\ clock.sunset \in Int
      BY <1>1 DEF Types, ClockOK
    <3> QED
      BY <2>1, <3>1, WizDaysAssumption
  <2> QED
    BY <1>3, <2>1, <2>2 DEF ClockOK
<1>5. ASSUME NEW r \in Rooms, NEW k \in Index, NEW m, OnForAfter(r, k) = m, m # -1
      PROVE  m \in 0 .. Day - 1 /\ isSet' /\ WillEnd(items[k], m, r)'
  <2>1. PICK n : onFor[r][k] = n /\ n # -1
    BY <1>5 DEF OnForAfter
  <2>2. isSet /\ WillEnd(items[k], n, r)
    BY <2>1 DEF DaysInv, OnSince
  <2>3. n \in 0 .. Day - 1 /\ NamesRoom(items[k], r) /\ n # Lasts(items[k])
    BY <1>1, <2>2 DEF WillEnd
  <2>4. scanned' # clock'.minute
    BY <1>1, <1>3, <1>4, <2>2
  <2>5. CASE ~ IsShifted(items[k])
    <3>1. n + 1 \in 0 .. Day - 1 /\ WillEnd(items[k], n + 1, r)'
      BY <1>1, <1>4, <2>2, <2>3, <2>4, <2>5, MinuteNearer
    <3>2. m = n + 1
      BY <1>5, <2>1, <2>5 DEF OnForAfter
    <3> QED
      BY <1>1, <2>2, <3>1, <3>2
  <2>6. CASE IsShifted(items[k])
    <3>1. IsStillOn(items[k])' /\ Since(items[k])' = m
      BY <1>5, <2>1, <2>6 DEF OnForAfter
    <3>2. NamesRoom(items[k], r)'
      BY <1>1, <2>3 DEF NamesRoom
    <3>3. m \in 0 .. Day - 1 /\ WillEnd(items[k], m, r)'
      BY <1>4, <2>4, <3>1, <3>2, StillOnWillEnd
    <3> QED
      BY <1>1, <2>2, <3>3
  <2> QED
    BY <2>5, <2>6
<1>6. onFor' \in Counts
  <2>1. ASSUME NEW r \in Rooms, NEW k \in Index PROVE OnForAfter(r, k) \in -1 .. Day - 1
    <3>1. PICK m : OnForAfter(r, k) = m
      OBVIOUS
    <3> QED
      BY <1>5, <3>1, Numbers
  <2> QED
    BY <1>1, <2>1 DEF Counts
<1>7. ASSUME NEW r \in Rooms, NEW k \in Index PROVE OnSince(r, k)'
  <2>1. PICK m : OnForAfter(r, k) = m /\ onFor'[r][k] = m
    BY <1>1
  <2> QED
    BY <1>5, <2>1 DEF OnSince
<1>8. Types'
  BY <1>1, <1>4 DEF Types
<1> QED
  BY <1>6, <1>7, <1>8 DEF DaysInv

LEMMA StepDays == DaysInv /\ [Next]_vars => DaysInv'
<1> SUFFICES ASSUME DaysInv, [Next]_vars PROVE DaysInv'
  OBVIOUS
<1>1. CASE Scanning
  BY <1>1, ScanningStep
<1>2. CASE Tick
  BY <1>2, TickStep
<1>3. CASE SetClock
  <2>1. ASSUME NEW r \in Rooms, NEW k \in Index PROVE onFor[r][k] = -1
    BY <1>3, <2>1 DEF SetClock, DaysInv, OnSince
  <2>2. ASSUME NEW r \in Rooms, NEW k \in Index PROVE OnSince(r, k)'
    BY <1>3, <2>1 DEF SetClock, OnSince
  <2> QED
    BY <1>3, <2>2 DEF SetClock, DaysInv, Types, ClockOK, schedVars
<1>4. CASE Restart
  <2>1. scanned' \in -1 .. Day - 1
    BY <1>4, Numbers DEF Restart, WizSchedInit
  <2> QED
    BY <1>4, <2>1, UnknownNext DEF Restart, WizSchedInit, DaysInv, Types, ClockOK
<1>5. CASE Editing
  <2>1. /\ items' \in [Index -> Item]
        /\ scanned' = scanned /\ turned' = turned /\ isSet' = isSet /\ clock' = clock
        /\ onFor' = [r \in Rooms |-> [k \in Index |->
                       IF items'[k] = items[k] THEN onFor[r][k] ELSE -1]]
    BY <1>5, EditTypes DEF Editing, Edit, DaysInv, Types
  <2>2. onFor' \in Counts
    BY <2>1, Numbers DEF DaysInv, Counts
  <2>3. ASSUME NEW r \in Rooms, NEW k \in Index PROVE OnSince(r, k)'
    <3>1. CASE items'[k] = items[k]
      <4>1. onFor'[r][k] = onFor[r][k]
        BY <2>1, <3>1
      <4> QED
        BY <2>1, <3>1, <4>1, StaysSince DEF DaysInv
    <3>2. CASE items'[k] # items[k]
      BY <2>1, <3>2 DEF OnSince
    <3> QED
      BY <3>1, <3>2
  <2>4. Types'
    BY <2>1 DEF DaysInv, Types, ClockOK
  <2> QED
    BY <2>2, <2>3, <2>4 DEF DaysInv
<1>6. CASE UNCHANGED vars
  <2>1. /\ items' = items /\ scanned' = scanned /\ turned' = turned /\ isSet' = isSet
        /\ clock' = clock /\ onFor' = onFor
    BY <1>6 DEF vars, schedVars
  <2>2. Types' /\ onFor' \in Counts
    BY <2>1 DEF DaysInv, Types, ClockOK
  <2>3. ASSUME NEW r \in Rooms, NEW k \in Index PROVE OnSince(r, k)'
    BY <2>1, StaysSince DEF DaysInv
  <2> QED
    BY <2>2, <2>3 DEF DaysInv
<1> QED
  BY <1>1, <1>2, <1>3, <1>4, <1>5, <1>6 DEF Next

LEMMA DaysHold == Spec => []DaysInv
  BY InitDays, StepDays, PTL DEF Spec

-----------------------------------------------------------------------------
\* Every variable of the schedule keeps its type, whatever is edited.
THEOREM TypeCorrect == Spec => []TypeOK
<1>1. DaysInv => TypeOK
  BY DEF DaysInv, Types, Counts, TypeOK, Asked, ClockOK
<1> QED
  BY <1>1, DaysHold, PTL

\* Every item turns off again within eighteen hours what it turned on, whatever
\* other items do in between, edits of them and days that go by included, with the
\* exceptions that OnEnds names.
THEOREM WhatIsTurnedOnEnds == Spec => []OnEnds
<1>1. DaysInv => OnEnds
  <2> SUFFICES ASSUME DaysInv, NEW r \in Rooms, NEW k \in Index
               PROVE  onFor[r][k] < EighteenHours
    BY DEF OnEnds
  <2> DEFINE n == onFor[r][k]
  <2>1. CASE n = -1
    BY <2>1, Numbers
  <2>2. CASE n # -1
    <3>1. WillEnd(items[k], n, r)
      BY <2>2 DEF DaysInv, OnSince
    <3>2. Lasts(items[k]) \in 1 .. EighteenHours - 1
      BY <3>1, ActiveLasts DEF WillEnd
    <3>3. n \in 0 .. Day - 1 /\ n <= Lasts(items[k])
      BY <3>1 DEF WillEnd
    <3> HIDE DEF n
    <3>4. n < EighteenHours
      BY <3>2, <3>3, Numbers
    <3> QED
      BY <3>4 DEF n
  <2> QED
    BY <2>1, <2>2
<1> QED
  BY <1>1, DaysHold, PTL

\* A scan turns a room as the last item says that names it and has an event now
\* by the clock of the event's datum, and leaves the other rooms.
THEOREM ScanByTheClock == Spec => ScanFollowsClock
<1> DEFINE Follows ==
      scanned' \notin {scanned, -1} =>
        \A r \in Rooms : HasEnds(r) =>
          turned'[r] = IF Deciding(r) = {} THEN turned[r]
                       ELSE IF IsNow(items[Max(Deciding(r))].on) THEN On ELSE Off
<1>1. DaysInv /\ [Next]_vars => Follows
  <2> SUFFICES ASSUME DaysInv, [Next]_vars, scanned' \notin {scanned, -1},
                      NEW r \in Rooms, HasEnds(r)
               PROVE  turned'[r] = IF Deciding(r) = {} THEN turned[r]
                                   ELSE IF IsNow(items[Max(Deciding(r))].on) THEN On ELSE Off
    OBVIOUS
  <2>1. turned' = Scan
    BY DEF Next, Scanning, WizSchedMain, Tick, SetClock, Restart, WizSchedInit, Editing, Edit,
           vars, schedVars
  <2> QED
    BY <2>1, ScanSays DEF DaysInv, Types
<1> QED
  BY <1>1, DaysHold, PTL DEF ScanFollowsClock, Spec

=============================================================================
