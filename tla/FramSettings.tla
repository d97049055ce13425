---------------------------- MODULE FramSettings ----------------------------
(***************************************************************************)
(* settings/settings.c: where each setting lies in the FRAM.  SettingsInit *)
(* gives every setting the next free bytes, in an order that never changes *)
(* (an older program's settings have to be found again), and loads it; its *)
(* setter writes it back.  Nothing but the order and the widths keeps one  *)
(* setting off another.  The log of values.c begins where the settings end.*)
(*                                                                         *)
(* A byte of the FRAM is who wrote it and when.  The allocator (fram.c) is *)
(* not in this repository: it hands out bytes from the bottom, the first   *)
(* one being its own, and this FRAM is never full.                         *)
(***************************************************************************)
EXTENDS Integers, Sequences

CONSTANTS
  DNS_MAX_LABEL_LENGTH, WIZ_LIST_NAME_LENGTH,   \* lengths of texts: 63, 12
  WIZ_LIST_MAX_ITEMS, WIZ_SCHED_MAX_ITEMS,      \* lights and events: 15, 5
  LogRecords,                                   \* bound on the records of the log
  MaxSettings                                   \* bound on the calls of a setter

ASSUME FramAssumption ==
  /\ DNS_MAX_LABEL_LENGTH \in Nat \ {0}
  /\ {WIZ_LIST_NAME_LENGTH, WIZ_LIST_MAX_ITEMS, WIZ_SCHED_MAX_ITEMS, LogRecords, MaxSettings} \subseteq Nat

VARIABLES
  fram,       \* the byte at each address
  ram,        \* the program's copies of the settings that are loaded
  lastSet,    \* history: the number of the call that set each setting last, or 0
  settings    \* how many calls there have been

settingsVars == <<fram, ram, lastSet, settings>>

-----------------------------------------------------------------------------
\* width: the bytes allocated; written: those its setter writes; initial: those
\* that are given a default when the FRAM is empty; loaded: has a copy in ram.
Setting(name, width) ==
  [name |-> name, width |-> width, written |-> width, initial |-> 0, loaded |-> FALSE]

Flag(name)   == [Setting(<<name, 0>>, 1) EXCEPT !.loaded = TRUE]
Int32(name)  == [Setting(<<name, 0>>, 4) EXCEPT !.initial = 4, !.loaded = TRUE]
Stored32(name) == [Setting(<<name, 0>>, 4) EXCEPT !.initial = 4]

\* A text of values.c, empty at first; the zero behind it is not in the FRAM.
StoredText(name) == [Setting(<<name, 0>>, DNS_MAX_LABEL_LENGTH) EXCEPT !.initial = 1]

\* Other programs on this board have, or had, settings here.
Unused(width) == [Setting(<<"unused", 0>>, width) EXCEPT !.written = 0]

Flags(names) == [k \in 1 .. Len(names) |-> Flag(names[k])]
Int32s(names) == [k \in 1 .. Len(names) |-> Int32(names[k])]

NtpSettings ==
  <<[Setting(<<"NtpServerName", 0>>, DNS_MAX_LABEL_LENGTH + 1)
       EXCEPT !.written = DNS_MAX_LABEL_LENGTH, !.loaded = TRUE]>>
  \o Int32s(<<"InitialInterval", "NormalInterval", "RetryInterval", "OffsetMs", "MaxDelayMs">>)

\* The boiler and the radiator controllers; this board keeps only its ROM from them.
BoilerSettings == <<Unused(40), Unused(2), Setting(<<"BoardRom", 0>>, 8), Unused(48)>>

ClockSettings ==
  Int32s(<<"SlewDivisor", "SlewMaxMs", "PpbDivisor", "PpbChangeMax", "SyncedLimitNs",
           "SyncedLimitPpb", "SyncedHysterisNs", "SyncedHysterisPpb", "MaxOffsetSecs">>)
  \o Flags(<<"ClkGov">>) \o <<Unused(1)>>

NetSettings ==
  Flags(<<"DnsViaIp4", "NtpViaIp4", "TftpViaIp4", "LogUart">>)
  \o <<[Setting(<<"NetHost", 0>>, 2) EXCEPT !.loaded = TRUE]>>
  \o Flags(<<"NetStack", "NetNewLine", "NetVerbose", "Link", "DnsName", "DnsQuery",
             "DnsReply", "DnsServer", "Ntp", "Dhcp", "NsRecvSol", "NsRecvAdv", "NsSendSol",
             "Nr4", "Nr", "NtpClient", "Echo4", "Echo6", "Dest6", "Ra", "Rs", "Ar4", "Ar6",
             "Arp", "Ip4", "Ip6", "Udp", "Tcp", "Http", "Tftp">>)

ValuesSettings ==
  <<StoredText("ValuesServerName"), Unused(1), StoredText("ValuesFileName"), Unused(1),
    Stored32("ValuesWriteSize"), Stored32("ValuesReadInterval"),
    [Setting(<<"ValuesStartTime", 0>>, 8) EXCEPT !.initial = 8], Stored32("ValuesCount")>>

LightSettings(i) ==
  <<Setting(<<"WizMacs", i>>, 6), Setting(<<"WizNames", i>>, WIZ_LIST_NAME_LENGTH),
    Setting(<<"WizRooms", i>>, WIZ_LIST_NAME_LENGTH)>>

\* Mutant: the minutes are given one byte.
SchedSettingsNarrow(i) ==
  <<Setting(<<"WizSchedNames", i>>, WIZ_LIST_NAME_LENGTH),
    Setting(<<"WizSchedOnDatums", i>>, 1),
    [Setting(<<"WizSchedOnMinutes", i>>, 1) EXCEPT !.written = 2],
    Setting(<<"WizSchedOffDatums", i>>, 1), Setting(<<"WizSchedOffMinutes", i>>, 2)>>

SchedSettings(i) ==
  <<Setting(<<"WizSchedNames", i>>, WIZ_LIST_NAME_LENGTH),
    Setting(<<"WizSchedOnDatums", i>>, 1), Setting(<<"WizSchedOnMinutes", i>>, 2),
    Setting(<<"WizSchedOffDatums", i>>, 1), Setting(<<"WizSchedOffMinutes", i>>, 2)>>

\* What each light, then what each event, is given.
LightsSettings ==
  [n \in 1 .. 3 * WIZ_LIST_MAX_ITEMS |-> LightSettings((n + 2) \div 3)[((n + 2) % 3) + 1]]

SchedsSettings ==
  [n \in 1 .. 5 * WIZ_SCHED_MAX_ITEMS |-> SchedSettings((n + 4) \div 5)[((n + 4) % 5) + 1]]

\* Everything SettingsInit allocates, in its order, and the records of the log, which
\* SetValuesData counts from there.
Allocated ==
  <<Unused(1), Unused(4)>> \o NtpSettings \o BoilerSettings \o ClockSettings \o NetSettings
  \o ValuesSettings \o Flags(<<"WizTrace">>) \o LightsSettings \o SchedsSettings
  \o [n \in 1 .. LogRecords |-> Setting(<<"ValuesData", n>>, 8)]

Place == DOMAIN Allocated

\* The bytes of the first n of them; the next one's address.
Used[n \in 0 .. Len(Allocated)] == IF n = 0 THEN 0 ELSE Used[n - 1] + Allocated[n].width

Address == [i \in Place |-> Used[i - 1]]

Settings == {i \in Place : Allocated[i].written > 0}
Loaded == {i \in Settings : Allocated[i].loaded}

-----------------------------------------------------------------------------
\* The bytes of a setting as the n-th call sets it: FramWrite of the first k of them.
ByteOf(i, n, k) == <<Allocated[i].name, n, k>>

FramWrite(i, n, k) ==
  LET written == Address[i] .. Address[i] + k - 1
  IN  [a \in DOMAIN fram |-> IF a \in written THEN ByteOf(i, n, a - Address[i] + 1) ELSE fram[a]]

\* Those of its bytes that have been given a value, read back.
GivenBytes(i) == IF lastSet[i] = 0 THEN Allocated[i].initial ELSE Allocated[i].written
FramRead(i, n) == [k \in 1 .. n |-> fram[Address[i] + k - 1]]
Value(i, n, k) == [b \in 1 .. k |-> ByteOf(i, n, b)]

\* SettingsInit on an empty FRAM: the defaults.
SettingsInit ==
  /\ fram = [a \in 0 .. Used[Len(Allocated)] - 1 |->
               LET i == CHOOSE p \in Place : a \in Address[p] .. Address[p] + Allocated[p].width - 1
               IN  IF a - Address[i] < Allocated[i].initial
                   THEN ByteOf(i, 0, a - Address[i] + 1) ELSE <<>>]
  /\ lastSet = [i \in Settings |-> 0] /\ settings = 0
  /\ ram = [i \in Loaded |-> FramRead(i, GivenBytes(i))]

\* A setter is called with a new value (for a flag, the other one).
Set(i) ==
  /\ settings < MaxSettings /\ settings' = settings + 1
  /\ fram' = FramWrite(i, settings + 1, Allocated[i].written)
  /\ lastSet' = [lastSet EXCEPT ![i] = settings + 1]
  /\ ram' = IF i \in Loaded
            THEN [ram EXCEPT ![i] = Value(i, settings + 1, Allocated[i].written)] ELSE ram

\* The board is reset, and SettingsInit loads what there is.
Reset ==
  /\ ram' = [i \in Loaded |-> FramRead(i, GivenBytes(i))]
  /\ UNCHANGED <<fram, lastSet, settings>>

SettingsNext == Reset \/ \E i \in Settings : Set(i)

SettingsSpec == SettingsInit /\ [][SettingsNext]_settingsVars

-----------------------------------------------------------------------------
\* Every setting has the value it was last given, across resets: in the program's
\* copy and in the FRAM, whatever other settings - a neighbour, the text before it, a
\* record of the log - have been written meanwhile.
SettingsAreKept ==
  /\ \A i \in Settings : FramRead(i, GivenBytes(i)) = Value(i, lastSet[i], GivenBytes(i))
  /\ \A i \in Loaded : ram[i] = Value(i, lastSet[i], GivenBytes(i))

=============================================================================
