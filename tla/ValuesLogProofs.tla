--------------------------- MODULE ValuesLogProofs ---------------------------
(***************************************************************************)
(* For records and backups of any size, any number of samples, power       *)
(* failures and failed uploads.                                            *)
(***************************************************************************)
EXTENDS ValuesLog, FramSettings, BasicProofs

-----------------------------------------------------------------------------
(* Where the bytes of a record lie. *)

LEMMA DivMod ==
  ASSUME NEW i \in Nat
  PROVE  /\ i \div RecordBytes \in Nat /\ i % RecordBytes \in 0 .. RecordBytes - 1
         /\ i = RecordBytes * (i \div RecordBytes) + (i % RecordBytes)
  BY RecordBytesAssumption, Z3

LEMMA Times ==
  ASSUME NEW m \in Nat, NEW n \in Nat
  PROVE  /\ m * RecordBytes \in Nat
         /\ m <= n => m * RecordBytes <= n * RecordBytes
         /\ m < n => m * RecordBytes + RecordBytes <= n * RecordBytes
         /\ (m + 1) * RecordBytes = m * RecordBytes + RecordBytes
         /\ RecordBytes * m = m * RecordBytes
  BY RecordBytesAssumption, Z3

\* Byte i lies before record n if its own record does.
LEMMA RecordOfByte ==
  ASSUME NEW i \in Nat, NEW n \in Nat
  PROVE  /\ i < n * RecordBytes <=> i \div RecordBytes < n
         /\ i \in n * RecordBytes .. n * RecordBytes + RecordBytes - 1 =>
              i \div RecordBytes = n /\ i % RecordBytes = i - n * RecordBytes
<1> DEFINE q == i \div RecordBytes
           r == i % RecordBytes
<1>1. /\ q \in Nat /\ r \in 0 .. RecordBytes - 1
      /\ i = q * RecordBytes + r
  BY DivMod, Times
<1>2. /\ q * RecordBytes \in Nat /\ n * RecordBytes \in Nat
      /\ q < n => q * RecordBytes + RecordBytes <= n * RecordBytes
      /\ n <= q => n * RecordBytes <= q * RecordBytes
      /\ n < q => n * RecordBytes + RecordBytes <= q * RecordBytes
  BY <1>1, Times
<1> HIDE DEF q, r
<1>3. i < n * RecordBytes <=> q < n
  BY <1>1, <1>2, RecordBytesAssumption
<1>4. ASSUME i \in n * RecordBytes .. n * RecordBytes + RecordBytes - 1
      PROVE  q = n /\ r = i - n * RecordBytes
  <2>1. q = n
    BY <1>1, <1>2, <1>4, RecordBytesAssumption
  <2>2. q * RecordBytes = n * RecordBytes
    BY <2>1
  <2> QED
    BY <1>1, <1>2, <2>1, <2>2, RecordBytesAssumption
<1> QED
  BY <1>3, <1>4 DEF q, r

\* A record that is counted has its place in the FRAM.
LEMMA Room ==
  ASSUME NEW n \in 0 .. MaxSamples
  PROVE  /\ n * RecordBytes \in Nat
         /\ n * RecordBytes <= MaxSamples * RecordBytes
         /\ n < MaxSamples => n * RecordBytes + RecordBytes <= MaxSamples * RecordBytes
         /\ 0 .. n * RecordBytes - 1 \subseteq 0 .. MaxSamples * RecordBytes - 1
<1>1. n \in Nat /\ MaxSamples \in Nat
  BY BoundsAssumption
<1>2. /\ n * RecordBytes \in Nat /\ MaxSamples * RecordBytes \in Nat
      /\ n * RecordBytes <= MaxSamples * RecordBytes
      /\ n < MaxSamples => n * RecordBytes + RecordBytes <= MaxSamples * RecordBytes
  BY <1>1, Times
<1> QED
  BY <1>2

-----------------------------------------------------------------------------
(* The log *)

\* The records that are counted are those of the samples taken at these times.
HoldsSamplesOf(time) ==
  /\ time \in [0 .. count - 1 -> 1 .. clock]
  /\ \A b \in 0 .. count * RecordBytes - 1 :
       data[b] = <<time[b \div RecordBytes], (b % RecordBytes) + 1>>
  /\ \A m, n \in 0 .. count - 1 : m < n => time[m] < time[n]
  /\ count > 0 => time[0] = start

LEMMA LogBytes ==
  ValuesTypeOK => \A i \in 1 .. count * RecordBytes : Logged[i] = data[i - 1]
<1> SUFFICES ASSUME ValuesTypeOK PROVE \A i \in 1 .. count * RecordBytes : Logged[i] = data[i - 1]
  OBVIOUS
<1> QED
  BY DEF Logged

HoldsSamples == \E time : HoldsSamplesOf(time)

LEMMA WholeLog == ValuesTypeOK => (LogIsWhole <=> HoldsSamples)
<1> SUFFICES ASSUME ValuesTypeOK PROVE LogIsWhole <=> \E time : HoldsSamplesOf(time)
  BY DEF HoldsSamples
<1>0. count \in Nat
  BY BoundsAssumption DEF ValuesTypeOK
<1>1. count * RecordBytes \in Nat
  BY <1>0, Times
<1>2. ASSUME NEW time, HoldsSamplesOf(time) PROVE LogIsWhole
  <2>1. \A i \in 1 .. count * RecordBytes :
          Logged[i] = <<time[(i - 1) \div RecordBytes], ((i - 1) % RecordBytes) + 1>>
    <3> SUFFICES ASSUME NEW i \in 1 .. count * RecordBytes
                 PROVE  Logged[i] = <<time[(i - 1) \div RecordBytes], ((i - 1) % RecordBytes) + 1>>
      OBVIOUS
    <3>1. i - 1 \in 0 .. count * RecordBytes - 1
      BY <1>1
    <3> QED
      BY <1>2, <3>1, LogBytes DEF HoldsSamplesOf
  <2> QED
    BY <1>2, <2>1 DEF HoldsSamplesOf, LogIsWhole
<1>3. ASSUME LogIsWhole PROVE \E time : HoldsSamplesOf(time)
  <2>1. PICK time \in [0 .. count - 1 -> 1 .. clock] :
          /\ \A i \in 1 .. count * RecordBytes :
               Logged[i] = <<time[(i - 1) \div RecordBytes], ((i - 1) % RecordBytes) + 1>>
          /\ \A m, n \in 0 .. count - 1 : m < n => time[m] < time[n]
          /\ count > 0 => time[0] = start
    BY <1>3 DEF LogIsWhole
  <2>2. ASSUME NEW b \in 0 .. count * RecordBytes - 1
        PROVE  data[b] = <<time[b \div RecordBytes], (b % RecordBytes) + 1>>
    <3>1. b + 1 \in 1 .. count * RecordBytes /\ (b + 1) - 1 = b
      BY <1>1
    <3>2. Logged[b + 1] = data[b]
      BY <3>1, LogBytes
    <3> QED
      BY <2>1, <3>1, <3>2
  <2>3. HoldsSamplesOf(time)
    BY <2>1, <2>2 DEF HoldsSamplesOf
  <2> QED
    BY <2>3
<1> QED
  BY <1>2, <1>3

LEMMA WholeLogNext == ValuesTypeOK' => (LogIsWhole' <=> HoldsSamples')
  BY WholeLog, PTL

\* What the first k writes of a sample do to the log: the records that were there
\* stay, also when the power fails before the last of the writes.
LEMMA WritesKeep ==
  ASSUME ValuesTypeOK, clock < MaxSamples, NEW k \in 1 .. 3, Writes(k, clock + 1),
         clock' = clock + 1
  PROVE  /\ start' \in 0 .. clock'
         /\ count' = IF k = 3 THEN count + 1 ELSE count
         /\ count > 0 => start' = start
         /\ count = 0 => start' = clock + 1
         /\ data' \in [0 .. MaxSamples * RecordBytes - 1 -> Bytes]
         /\ \A b \in 0 .. count * RecordBytes - 1 : data'[b] = data[b]
         /\ k = 3 => \A b \in count * RecordBytes .. count * RecordBytes + RecordBytes - 1 :
                       data'[b] = <<clock + 1, (b % RecordBytes) + 1>>
<1>1. /\ clock \in 0 .. MaxSamples /\ count \in 0 .. clock /\ start \in 0 .. clock
      /\ data \in [0 .. MaxSamples * RecordBytes - 1 -> Bytes]
  BY DEF ValuesTypeOK
<1>2. /\ start' \in 0 .. clock'
      /\ count' = IF k = 3 THEN count + 1 ELSE count
      /\ count > 0 => start' = start
      /\ count = 0 => start' = clock + 1
  BY <1>1, BoundsAssumption DEF Writes
<1>3. count \in 0 .. MaxSamples /\ count < MaxSamples /\ count \in Nat
  BY <1>1, BoundsAssumption
<1>4. ASSUME NEW b \in 0 .. MaxSamples * RecordBytes - 1
      PROVE  /\ b % RecordBytes \in 0 .. RecordBytes - 1 /\ b \in Nat
             /\ RecordOf(clock + 1)[(b % RecordBytes) + 1] = <<clock + 1, (b % RecordBytes) + 1>>
             /\ <<clock + 1, (b % RecordBytes) + 1>> \in Bytes
  <2>1. b \in Nat /\ b % RecordBytes \in 0 .. RecordBytes - 1
    BY DivMod, Room, BoundsAssumption
  <2>2. (b % RecordBytes) + 1 \in 1 .. RecordBytes
    BY <2>1, RecordBytesAssumption
  <2>3. clock + 1 \in 1 .. MaxSamples
    BY <1>1, BoundsAssumption
  <2> QED
    BY <2>1, <2>2, <2>3 DEF RecordOf, Bytes
<1>5. CASE k = 1
  BY <1>1, <1>2, <1>5 DEF Writes
<1>6. CASE k > 1
  <2>1. data' = [i \in 0 .. MaxSamples * RecordBytes - 1 |->
                   IF i \div RecordBytes = count
                   THEN RecordOf(clock + 1)[(i % RecordBytes) + 1] ELSE data[i]]
    BY <1>1, <1>6 DEF Writes, Stored
  <2>2. data' \in [0 .. MaxSamples * RecordBytes - 1 -> Bytes]
    BY <1>1, <1>4, <2>1
  <2>3. ASSUME NEW b \in 0 .. count * RecordBytes - 1 PROVE data'[b] = data[b]
    <3>1. b \in 0 .. MaxSamples * RecordBytes - 1
      BY <1>3, Room
    <3>2. b \div RecordBytes < count /\ b \div RecordBytes \in Nat
      BY <1>3, <3>1, <1>4, Room, RecordOfByte, DivMod
    <3> QED
      BY <1>3, <2>1, <3>1, <3>2
  <2>4. ASSUME NEW b \in count * RecordBytes .. count * RecordBytes + RecordBytes - 1
        PROVE  data'[b] = <<clock + 1, (b % RecordBytes) + 1>>
    <3>1. b \in 0 .. MaxSamples * RecordBytes - 1
      <4>1. /\ count * RecordBytes \in Nat /\ MaxSamples * RecordBytes \in Nat
            /\ count * RecordBytes + RecordBytes <= MaxSamples * RecordBytes
        BY <1>3, Room, Times, BoundsAssumption
      <4> QED
        BY <4>1, RecordBytesAssumption
    <3>2. b \div RecordBytes = count
      BY <1>3, <1>4, <3>1, RecordOfByte
    <3> QED
      BY <1>4, <2>1, <3>1, <3>2
  <2> QED
    BY <1>2, <2>2, <2>3, <2>4
<1> QED
  BY <1>5, <1>6

LEMMA WritesKeepWhole ==
  ASSUME ValuesTypeOK, LogIsWhole, ValuesTypeOK', clock < MaxSamples, NEW k \in 1 .. 3,
         Writes(k, clock + 1), clock' = clock + 1
  PROVE  LogIsWhole'
<1>1. PICK time : HoldsSamplesOf(time)
  BY WholeLog DEF HoldsSamples
<1>2. count \in Nat /\ clock \in Nat /\ count \in 0 .. MaxSamples
  BY BoundsAssumption DEF ValuesTypeOK
<1> DEFINE now == [n \in 0 .. count' - 1 |-> IF n = count THEN clock + 1 ELSE time[n]]
<1>3. count' = IF k = 3 THEN count + 1 ELSE count
  BY WritesKeep
<1>4. time \in [0 .. count - 1 -> 1 .. clock]
  BY <1>1 DEF HoldsSamplesOf
<1>5. now \in [0 .. count' - 1 -> 1 .. clock']
  BY <1>2, <1>3, <1>4
<1>6. ASSUME NEW b \in 0 .. count' * RecordBytes - 1
      PROVE  data'[b] = <<now[b \div RecordBytes], (b % RecordBytes) + 1>>
  <2>1. b \in Nat /\ count * RecordBytes \in Nat
    BY <1>2, <1>3, Times
  <2>2. b \div RecordBytes \in 0 .. count' - 1
    <3>1. count' \in Nat
      BY <1>2, <1>3
    <3>2. count' * RecordBytes \in Nat
      BY <3>1, Times
    <3>3. b < count' * RecordBytes
      BY <2>1, <3>2
    <3> QED
      BY <2>1, <3>1, <3>3, RecordOfByte, DivMod
  <2>3. CASE b < count * RecordBytes
    <3>1. b \in 0 .. count * RecordBytes - 1
      BY <2>1, <2>3
    <3>2. b \div RecordBytes \in 0 .. count - 1
      BY <1>2, <2>1, <2>3, RecordOfByte, DivMod
    <3>3. data'[b] = <<time[b \div RecordBytes], (b % RecordBytes) + 1>>
      BY <1>1, <3>1, WritesKeep DEF HoldsSamplesOf
    <3> QED
      BY <1>2, <2>2, <3>2, <3>3
  <2>4. CASE ~ b < count * RecordBytes
    <3>1. k = 3 /\ b \in count * RecordBytes .. count * RecordBytes + RecordBytes - 1
      BY <1>2, <1>3, <2>1, <2>4, Times, RecordBytesAssumption
    <3>2. b \div RecordBytes = count
      BY <1>2, <2>1, <3>1, RecordOfByte
    <3> QED
      BY <2>2, <3>1, <3>2, WritesKeep
  <2> QED
    BY <2>3, <2>4
<1>7. \A m, n \in 0 .. count' - 1 : m < n => now[m] < now[n]
  <2> SUFFICES ASSUME NEW m \in 0 .. count' - 1, NEW n \in 0 .. count' - 1, m < n
               PROVE  now[m] < now[n]
    OBVIOUS
  <2>1. m \in 0 .. count - 1 /\ now[m] = time[m]
    BY <1>2, <1>3
  <2>2. CASE n = count
    BY <1>2, <1>4, <2>1, <2>2
  <2>3. CASE n # count
    <3>1. n \in 0 .. count - 1 /\ now[n] = time[n]
      BY <1>2, <1>3, <2>3
    <3> QED
      BY <1>1, <2>1, <3>1 DEF HoldsSamplesOf
  <2> QED
    BY <2>2, <2>3
<1>8. count' > 0 => now[0] = start'
  <2>1. CASE count = 0
    BY <1>2, <1>3, <2>1, WritesKeep
  <2>2. CASE count > 0
    BY <1>1, <1>2, <1>3, <2>2, WritesKeep DEF HoldsSamplesOf
  <2> QED
    BY <1>2, <2>1, <2>2
<1> HIDE DEF now
<1>9. PICK later : later = now
  OBVIOUS
<1>10. HoldsSamplesOf(later)'
  BY <1>5, <1>6, <1>7, <1>8, <1>9 DEF HoldsSamplesOf
<1> QED
  BY <1>10, WholeLogNext DEF HoldsSamples

-----------------------------------------------------------------------------
(***************************************************************************)
(* The inductive invariant.  What FileIsTheLog needs besides ValuesInv is  *)
(* that nothing is sent of an empty log: only an empty log is given        *)
(* another start, so the one that names the file is still the log's.       *)
(***************************************************************************)
SentIsCurrent ==
  tftp = "reading" =>
    /\ writeIndex \in 0 .. count * RecordBytes
    /\ Len(file) = writeIndex
    /\ \A i \in 1 .. writeIndex : file[i] = data[i - 1]
    /\ count > 0 /\ fileStart = start

ValuesIInv == ValuesInv /\ SentIsCurrent

\* The first byte of a log belongs to the sample it starts with.
LEMMA FirstByte ==
  ASSUME ValuesTypeOK, LogIsWhole, count > 0
  PROVE  Logged[1] = <<start, 1>>
<1>1. PICK time : HoldsSamplesOf(time)
  BY WholeLog DEF HoldsSamples
<1>2. count \in Nat /\ 1 \in Nat /\ 0 \in Nat
  BY BoundsAssumption DEF ValuesTypeOK
<1>3. count * RecordBytes \in Nat /\ RecordBytes <= count * RecordBytes
  <2>1. 0 * RecordBytes + RecordBytes <= count * RecordBytes
    BY <1>2, Times
  <2> QED
    BY <1>2, <2>1, Times, RecordBytesAssumption
<1>4. 0 \div RecordBytes = 0 /\ 0 % RecordBytes = 0
  BY RecordBytesAssumption
<1>5. 0 \in 0 .. count * RecordBytes - 1 /\ 1 \in 1 .. count * RecordBytes /\ 1 - 1 = 0
  BY <1>3, RecordBytesAssumption
<1>6. Logged[1] = data[0]
  BY <1>5, LogBytes
<1>7. data[0] = <<time[0 \div RecordBytes], (0 % RecordBytes) + 1>> /\ time[0] = start
  BY <1>1, <1>5 DEF HoldsSamplesOf
<1> QED
  BY <1>4, <1>6, <1>7

LEMMA SentIsLog == ValuesIInv => FileIsTheLog
<1> SUFFICES ASSUME ValuesIInv, tftp = "reading" PROVE FileIsTheLog
  BY DEF FileIsTheLog
<1>1. count \in Nat
  BY BoundsAssumption DEF ValuesIInv, ValuesInv, ValuesTypeOK
<1>2. count * RecordBytes \in Nat
  BY <1>1, Times
<1>3. /\ Len(file) = writeIndex /\ writeIndex \in 0 .. count * RecordBytes
      /\ \A i \in 1 .. writeIndex : file[i] = data[i - 1]
      /\ count > 0 /\ fileStart = start
  BY DEF ValuesIInv, SentIsCurrent
<1>4. \A i \in 1 .. Len(file) : file[i] = Logged[i]
  <2>1. \A i \in 1 .. Len(file) : i \in 1 .. count * RecordBytes
    BY <1>2, <1>3
  <2> QED
    BY <1>3, <2>1, LogBytes DEF ValuesIInv, ValuesInv
<1> QED
  BY <1>2, <1>3, <1>4, FirstByte DEF FileIsTheLog, ValuesIInv, ValuesInv

LEMMA InitValues == ValuesInit => ValuesIInv
<1> SUFFICES ASSUME ValuesInit PROVE ValuesIInv
  OBVIOUS
<1> USE DEF ValuesInit
<1>1. 0 \in Nat /\ 0 * RecordBytes \in Nat /\ MaxSamples * RecordBytes \in Nat
  BY Times, BoundsAssumption
<1>2. ValuesTypeOK
  <2>1. <<>> \in Seq(Bytes)
    BY EmptySeq
  <2>2. data \in [0 .. MaxSamples * RecordBytes - 1 -> Bytes]
    BY DEF Bytes
  <2> QED
    BY <1>1, <2>1, <2>2, BoundsAssumption DEF ValuesTypeOK, Destinations
<1>3. LogIsWhole
  <2>1. PICK time : time = [n \in 0 .. count - 1 |-> 1]
    OBVIOUS
  <2>2. 0 .. count - 1 = {} /\ 0 .. count * RecordBytes - 1 = {}
    BY <1>1, RecordBytesAssumption
  <2>3. HoldsSamplesOf(time)
    BY <2>1, <2>2 DEF HoldsSamplesOf
  <2> QED
    BY <1>2, <2>3, WholeLog DEF HoldsSamples
<1> QED
  BY <1>2, <1>3 DEF ValuesIInv, ValuesInv, SentIsCurrent

-----------------------------------------------------------------------------
\* writeValues begins an upload or leaves the one there is, at most ending it.
LEMMA UploadStep ==
  ASSUME NEW wanted, NEW isIdle, NEW s, WriteValues(wanted, isIdle, s)
  PROVE  \/ wanted /\ tftp' = "reading" /\ writeIndex' = 0 /\ fileStart' = s /\ file' = <<>>
         \/ tftp' \in {tftp, "idle"} /\ UNCHANGED <<writeIndex, fileStart, file>>
  BY DEF WriteValues, Request

\* The first k writes of a sample, or none, and then writeValues: what ValuesMain
\* does, and a restart.
LEMMA SampleStep ==
  ASSUME ValuesIInv, NEW k \in 0 .. 3, Writes(k, clock + 1),
         k > 0 => clock < MaxSamples,
         clock' = (IF k > 0 THEN clock + 1 ELSE clock),
         NEW wanted, NEW isIdle, WriteValues(wanted, isIdle, start'), wanted => count' > 0,
         UNCHANGED <<destination, writeSize, readInterval, handed>>,
         troubles' \in 0 .. MaxTroubles
  PROVE  ValuesIInv'
<1> USE DEF ValuesIInv, ValuesInv
<1>1. /\ clock \in 0 .. MaxSamples /\ count \in 0 .. clock /\ start \in 0 .. clock
      /\ data \in [0 .. MaxSamples * RecordBytes - 1 -> Bytes]
      /\ file \in Seq(Bytes) /\ fileStart \in 0 .. clock
      /\ writeIndex \in 0 .. MaxSamples * RecordBytes
      /\ tftp \in {"idle", "reading", "closing"}
  BY DEF ValuesTypeOK
<1>2. /\ start' \in 0 .. clock' /\ count' \in count .. count + 1
      /\ clock' \in clock .. MaxSamples /\ count' \in 0 .. clock'
      /\ count > 0 => start' = start
      /\ data' \in [0 .. MaxSamples * RecordBytes - 1 -> Bytes]
      /\ \A b \in 0 .. count * RecordBytes - 1 : data'[b] = data[b]
  <2>1. CASE k = 0
    BY <1>1, <2>1, BoundsAssumption DEF Writes
  <2>2. CASE k \in 1 .. 3
    BY <1>1, <2>2, WritesKeep, BoundsAssumption
  <2> QED
    BY <2>1, <2>2
<1>3. fileStart' \in 0 .. clock' /\ file' \in Seq(Bytes)
      /\ writeIndex' \in 0 .. MaxSamples * RecordBytes
      /\ tftp' \in {"idle", "reading", "closing"}
  <2>1. CASE tftp' \in {tftp, "idle"} /\ UNCHANGED <<writeIndex, fileStart, file>>
    BY <1>1, <1>2, <2>1, BoundsAssumption
  <2>2. CASE tftp' = "reading" /\ writeIndex' = 0 /\ fileStart' = start' /\ file' = <<>>
    <3>1. MaxSamples * RecordBytes \in Nat /\ file' \in Seq(Bytes)
      BY <2>2, BoundsAssumption, Times, EmptySeq
    <3> QED
      BY <1>2, <2>2, <3>1
  <2> QED
    BY <2>1, <2>2, UploadStep
<1>4. ValuesTypeOK'
  BY <1>2, <1>3 DEF ValuesTypeOK
<1>5. LogIsWhole'
  <2>1. CASE k = 0
    <3>1. UNCHANGED <<start, count, data, clock>>
      BY <1>1, <2>1 DEF Writes
    <3> QED
      BY <3>1 DEF LogIsWhole, Logged
  <2>2. CASE k \in 1 .. 3
    BY <1>4, <2>2, WritesKeepWhole
  <2> QED
    BY <2>1, <2>2
<1>6. SentIsCurrent'
  <2>1. count \in Nat /\ count' \in Nat
    BY <1>1, <1>2, BoundsAssumption
  <2>2. /\ count * RecordBytes \in Nat /\ count' * RecordBytes \in Nat
        /\ count * RecordBytes <= count' * RecordBytes
    <3>1. count <= count'
      BY <1>2, <2>1
    <3> QED
      BY <2>1, <3>1, Times
  <2>3. CASE wanted /\ tftp' = "reading" /\ writeIndex' = 0 /\ fileStart' = start' /\ file' = <<>>
    BY <2>2, <2>3 DEF SentIsCurrent
  <2>4. CASE tftp' \in {tftp, "idle"} /\ UNCHANGED <<writeIndex, fileStart, file>>
    <3> SUFFICES ASSUME tftp = "reading" PROVE SentIsCurrent'
      BY <2>4 DEF SentIsCurrent
    <3>1. /\ writeIndex \in 0 .. count * RecordBytes
          /\ Len(file) = writeIndex
          /\ \A i \in 1 .. writeIndex : file[i] = data[i - 1]
          /\ count > 0 /\ fileStart = start
      BY DEF SentIsCurrent
    <3>2. \A i \in 1 .. writeIndex : i - 1 \in 0 .. count * RecordBytes - 1
      BY <2>2, <3>1
    <3>3. \A i \in 1 .. writeIndex : data'[i - 1] = data[i - 1]
      BY <1>2, <3>2
    <3>4. writeIndex \in 0 .. count' * RecordBytes
      BY <2>2, <3>1
    <3>5. count' > 0 /\ fileStart = start'
      BY <1>2, <2>1, <3>1
    <3> QED
      BY <2>4, <3>1, <3>3, <3>4, <3>5 DEF SentIsCurrent
  <2> QED
    BY <2>3, <2>4, UploadStep
<1> QED
  BY <1>4, <1>5, <1>6

LEMMA StepValues == ValuesIInv /\ [ValuesNext]_valuesVars => ValuesIInv'
<1> SUFFICES ASSUME ValuesIInv, [ValuesNext]_valuesVars PROVE ValuesIInv'
  OBVIOUS
<1>1. ValuesTypeOK /\ LogIsWhole /\ SentIsCurrent
  BY DEF ValuesIInv, ValuesInv
<1>2. count \in Nat /\ writeSize \in Nat /\ clock \in Nat
  BY <1>1, BoundsAssumption, WriteSizesAssumption DEF ValuesTypeOK
<1>3. count * RecordBytes \in Nat
  BY <1>2, Times
<1>4. ASSUME UNCHANGED <<start, count, data, clock>>, ValuesTypeOK', SentIsCurrent'
      PROVE  ValuesIInv'
  BY <1>1, <1>4 DEF ValuesIInv, ValuesInv, LogIsWhole, Logged
<1>5. ASSUME NEW due \in BOOLEAN, ValuesMain(due) PROVE ValuesIInv'
  <2> DEFINE wanted == writeSize # 0 /\ count' >= writeSize
             isIdle == tftp = "idle"
  <2>1. /\ WriteValues(wanted, isIdle, start')
        /\ UNCHANGED <<destination, writeSize, readInterval, handed, troubles>>
    BY <1>5 DEF ValuesMain
  <2>2. troubles' \in 0 .. MaxTroubles
    BY <1>1, <2>1 DEF ValuesTypeOK
  <2>3. CASE Samples(due)
    <3>1. clock < MaxSamples /\ Writes(3, clock + 1) /\ clock' = clock + 1
      BY <1>5, <2>3 DEF ValuesMain, ReadValues
    <3>2. wanted => count' > 0
      BY <1>1, <1>2, <3>1, WritesKeep
    <3> HIDE DEF wanted, isIdle
    <3> QED
      BY <2>1, <2>2, <3>1, <3>2, SampleStep
  <2>4. CASE ~ Samples(due)
    <3>1. UNCHANGED <<start, count, data, clock>>
      BY <1>5, <2>4 DEF ValuesMain
    <3>2. Writes(0, clock + 1)
      BY <3>1 DEF Writes
    <3>3. wanted => count' > 0
      BY <1>2, <3>1
    <3> HIDE DEF wanted, isIdle
    <3> QED
      BY <2>1, <2>2, <3>1, <3>2, <3>3, SampleStep
  <2> QED
    BY <2>3, <2>4
<1>6. CASE NextByteOfWriteStream
  <2>1. /\ tftp = "reading"
        /\ UNCHANGED <<destination, writeSize, readInterval, start, data, fileStart, clock, troubles>>
    BY <1>6 DEF NextByteOfWriteStream
  <2>2. /\ writeIndex \in 0 .. count * RecordBytes /\ Len(file) = writeIndex
        /\ \A i \in 1 .. writeIndex : file[i] = data[i - 1]
        /\ count > 0 /\ fileStart = start
    BY <1>1, <2>1 DEF SentIsCurrent
  <2>3. CASE writeIndex >= count * RecordBytes
    <3>1. count' = 0 /\ tftp' = "closing" /\ handed' = file /\ UNCHANGED <<writeIndex, file>>
      BY <1>6, <2>3 DEF NextByteOfWriteStream
    <3>2. ValuesTypeOK'
      BY <1>1, <1>2, <2>1, <3>1 DEF ValuesTypeOK
    <3>3. HoldsSamples'
      <4>1. PICK time : time = [n \in 0 .. -1 |-> 1]
        OBVIOUS
      <4>2. 0 \in Nat /\ 0 * RecordBytes \in Nat /\ 0 * RecordBytes = 0
        BY RecordBytesAssumption
      <4>3. HoldsSamplesOf(time)'
        BY <3>1, <4>1, <4>2 DEF HoldsSamplesOf
      <4> QED
        BY <4>3 DEF HoldsSamples
    <3> QED
      BY <3>1, <3>2, <3>3, WholeLogNext DEF ValuesIInv, ValuesInv, SentIsCurrent
  <2>4. CASE ~ writeIndex >= count * RecordBytes
    <3>1. /\ file' = Append(file, data[writeIndex]) /\ writeIndex' = writeIndex + 1
          /\ UNCHANGED <<count, tftp, handed>>
      BY <1>6, <2>4 DEF NextByteOfWriteStream
    <3>2. count \in 0 .. MaxSamples
      BY <1>1, BoundsAssumption DEF ValuesTypeOK
    <3>3. /\ writeIndex \in 0 .. MaxSamples * RecordBytes - 1
          /\ writeIndex + 1 \in 0 .. MaxSamples * RecordBytes
      <4>1. MaxSamples * RecordBytes \in Nat
        BY Times, BoundsAssumption
      <4>2. count * RecordBytes <= MaxSamples * RecordBytes
        BY <3>2, Room
      <4> QED
        BY <1>3, <2>2, <2>4, <4>1, <4>2
    <3>4. data[writeIndex] \in Bytes /\ file \in Seq(Bytes)
      BY <1>1, <3>3 DEF ValuesTypeOK
    <3>5. /\ file' \in Seq(Bytes) /\ Len(file') = writeIndex + 1
          /\ \A i \in 1 .. writeIndex : file'[i] = file[i]
          /\ file'[writeIndex + 1] = data[writeIndex]
      BY <2>2, <3>1, <3>4, AppendProperties
    <3>6. ValuesTypeOK'
      BY <1>1, <2>1, <3>1, <3>3, <3>5 DEF ValuesTypeOK
    <3>7. \A i \in 1 .. writeIndex + 1 : file'[i] = data[i - 1]
      <4> SUFFICES ASSUME NEW i \in 1 .. writeIndex + 1 PROVE file'[i] = data[i - 1]
        OBVIOUS
      <4>1. CASE i \in 1 .. writeIndex
        BY <2>2, <3>5, <4>1
      <4>2. CASE i = writeIndex + 1
        <5>1. i - 1 = writeIndex
          BY <3>3, <4>2
        <5> QED
          BY <3>5, <4>2, <5>1
      <4> QED
        BY <2>2, <4>1, <4>2
    <3>8. writeIndex + 1 \in 0 .. count * RecordBytes
      BY <1>3, <2>2, <2>4
    <3>9. SentIsCurrent'
      BY <2>1, <2>2, <3>1, <3>5, <3>7, <3>8 DEF SentIsCurrent
    <3> QED
      BY <1>4, <2>1, <3>1, <3>6, <3>9
  <2> QED
    BY <2>3, <2>4
<1>7. CASE TftpEnds \/ TftpFails
  <2>1. tftp' = "idle" /\ troubles' \in 0 .. MaxTroubles
    BY <1>1, <1>7, BoundsAssumption DEF TftpEnds, TftpFails, ValuesTypeOK
  <2>2. ValuesTypeOK'
    BY <1>1, <1>7, <2>1 DEF TftpEnds, TftpFails, ValuesTypeOK
  <2> QED
    BY <1>4, <1>7, <2>1, <2>2 DEF TftpEnds, TftpFails, SentIsCurrent
<1>8. ASSUME NEW k \in 0 .. 3, PowerFailure(k) PROVE ValuesIInv'
  <2>1. /\ Writes(k, clock + 1) /\ clock' = (IF k > 0 THEN clock + 1 ELSE clock)
        /\ k > 0 => clock < MaxSamples
        /\ WriteValues(count' > 0, TRUE, start')
        /\ UNCHANGED <<destination, writeSize, readInterval, handed>>
    BY <1>8 DEF PowerFailure
  <2>2. troubles' \in 0 .. MaxTroubles
    BY <1>1, <1>8, BoundsAssumption DEF PowerFailure, ValuesTypeOK
  <2> DEFINE wanted == count' > 0
  <2>3. (wanted => count' > 0) /\ WriteValues(wanted, TRUE, start')
    BY <2>1
  <2> HIDE DEF wanted
  <2> QED
    BY <2>1, <2>2, <2>3, SampleStep
<1>9. CASE ValuesSet
  <2>1. UNCHANGED <<start, count, data, tftp, writeIndex, fileStart, file, clock, handed, troubles>>
    BY <1>9 DEF ValuesSet
  <2>2. destination' \in Destinations /\ writeSize' \in WriteSizes /\ readInterval' \in 0 .. 1
    BY <1>1, <1>9 DEF ValuesSet, ValuesTypeOK
  <2>3. ValuesTypeOK'
    BY <1>1, <2>1, <2>2 DEF ValuesTypeOK
  <2> QED
    BY <1>1, <1>4, <2>1, <2>3 DEF SentIsCurrent
<1>10. CASE UNCHANGED valuesVars
  BY <1>1, <1>4, <1>10 DEF valuesVars, ValuesTypeOK, SentIsCurrent
<1> QED
  BY <1>5, <1>6, <1>7, <1>8, <1>9, <1>10 DEF ValuesNext

-----------------------------------------------------------------------------
LEMMA ValuesHold == ValuesSpec => []ValuesIInv
  BY InitValues, StepValues, PTL DEF ValuesSpec

\* Every record that is counted is there, all of it and in order, also when the
\* power fails between the writes of a sample.
THEOREM LogStaysWhole == ValuesSpec => []ValuesInv
<1>1. ValuesIInv => ValuesInv
  BY DEF ValuesIInv
<1> QED
  BY <1>1, ValuesHold, PTL

\* What is sent is the log from its first byte on, whatever is added behind it
\* meanwhile, under the time of its first sample.
THEOREM TheLogIsSent == ValuesSpec => []FileIsTheLog
  BY ValuesHold, SentIsLog, PTL

-----------------------------------------------------------------------------
(***************************************************************************)
(* The refinement of SampleLog.  A step takes a sample - the one that      *)
(* stores its count - or hands the log over, or is not seen.               *)
(***************************************************************************)
LogIsSeq ==
  /\ count * RecordBytes \in Nat
  /\ Logged \in Seq(Bytes) /\ Len(Logged) = count * RecordBytes
  /\ \A i \in 1 .. count * RecordBytes : Logged[i] = data[i - 1]

LEMMA LoggedSeq == ValuesTypeOK => LogIsSeq
<1> SUFFICES ASSUME ValuesTypeOK PROVE LogIsSeq
  OBVIOUS
<1>1. count \in Nat /\ count \in 0 .. MaxSamples
  BY BoundsAssumption DEF ValuesTypeOK
<1>2. count * RecordBytes \in Nat
  BY <1>1, Times
<1>3. \A i \in 1 .. count * RecordBytes : data[i - 1] \in Bytes
  <2> SUFFICES ASSUME NEW i \in 1 .. count * RecordBytes PROVE data[i - 1] \in Bytes
    OBVIOUS
  <2>1. i - 1 \in 0 .. count * RecordBytes - 1
    BY <1>2
  <2>2. i - 1 \in 0 .. MaxSamples * RecordBytes - 1
    BY <1>1, <2>1, Room
  <2> QED
    BY <2>2 DEF ValuesTypeOK
<1>4. Logged \in [1 .. count * RecordBytes -> Bytes]
  BY <1>3 DEF Logged
<1>5. Logged \in Seq(Bytes) /\ Len(Logged) = count * RecordBytes
  BY <1>2, <1>4
<1> QED
  BY <1>2, <1>5, LogBytes DEF LogIsSeq

LEMMA LoggedSeqNext == ValuesTypeOK' => LogIsSeq'
  BY LoggedSeq, PTL

LEMMA RecordSeq ==
  ASSUME NEW s \in 1 .. MaxSamples
  PROVE  /\ RecordOf(s) \in Seq(Bytes) /\ Len(RecordOf(s)) = RecordBytes
         /\ \A j \in 1 .. RecordBytes : RecordOf(s)[j] = <<s, j>>
<1>1. RecordOf(s) \in [1 .. RecordBytes -> Bytes]
  BY DEF RecordOf, Bytes
<1> QED
  BY <1>1, RecordBytesAssumption DEF RecordOf

\* The three writes of a sample append its record to the log.
LEMMA TakesSample ==
  ASSUME ValuesTypeOK, ValuesTypeOK', clock < MaxSamples, Writes(3, clock + 1),
         clock' = clock + 1
  PROVE  Logged' = Logged \o RecordOf(clock + 1)
<1> DEFINE s == clock + 1
           whole == Logged \o RecordOf(s)
<1>1. s \in 1 .. MaxSamples /\ count \in Nat
  BY BoundsAssumption DEF ValuesTypeOK
<1>2. count' = count + 1
  BY WritesKeep
<1>3. /\ count * RecordBytes \in Nat
      /\ count' * RecordBytes = count * RecordBytes + RecordBytes
  BY <1>1, <1>2, Times
<1>4. /\ Logged \in Seq(Bytes) /\ Len(Logged) = count * RecordBytes
      /\ \A i \in 1 .. count * RecordBytes : Logged[i] = data[i - 1]
  BY LoggedSeq DEF LogIsSeq
<1>5. /\ RecordOf(s) \in Seq(Bytes) /\ Len(RecordOf(s)) = RecordBytes
      /\ \A j \in 1 .. RecordBytes : RecordOf(s)[j] = <<s, j>>
  BY <1>1, RecordSeq
<1>6. /\ Logged' \in Seq(Bytes) /\ Len(Logged') = count * RecordBytes + RecordBytes
      /\ \A i \in 1 .. count * RecordBytes + RecordBytes : Logged'[i] = data'[i - 1]
  BY <1>3, LoggedSeqNext DEF LogIsSeq
<1>7. /\ whole \in Seq(Bytes) /\ Len(whole) = count * RecordBytes + RecordBytes
      /\ \A i \in 1 .. count * RecordBytes + RecordBytes :
           whole[i] = IF i <= count * RecordBytes THEN Logged[i]
                      ELSE RecordOf(s)[i - count * RecordBytes]
  <2>1. /\ whole \in Seq(Bytes)
        /\ Len(whole) = Len(Logged) + Len(RecordOf(s))
        /\ \A i \in 1 .. Len(Logged) + Len(RecordOf(s)) :
             whole[i] = IF i <= Len(Logged) THEN Logged[i] ELSE RecordOf(s)[i - Len(Logged)]
    BY <1>4, <1>5, ConcatProperties
  <2> HIDE DEF whole, s
  <2> QED
    BY <1>4, <1>5, <2>1
<1>8. ASSUME NEW i \in 1 .. count * RecordBytes + RecordBytes PROVE Logged'[i] = whole[i]
  <2>1. CASE i <= count * RecordBytes
    <3>1. i \in 1 .. count * RecordBytes /\ i - 1 \in 0 .. count * RecordBytes - 1
      BY <1>3, <2>1
    <3>2. data'[i - 1] = data[i - 1]
      BY <3>1, WritesKeep
    <3> QED
      BY <1>4, <1>6, <1>7, <2>1, <3>1, <3>2
  <2>2. CASE ~ i <= count * RecordBytes
    <3> DEFINE j == i - count * RecordBytes
    <3>1. /\ j \in 1 .. RecordBytes /\ i - 1 \in Nat
          /\ i - 1 \in count * RecordBytes .. count * RecordBytes + RecordBytes - 1
      BY <1>3, <2>2, RecordBytesAssumption
    <3>2. ((i - 1) % RecordBytes) + 1 = j
      BY <1>1, <1>3, <3>1, RecordOfByte
    <3>3. data'[i - 1] = <<s, j>>
      BY <3>1, <3>2, WritesKeep
    <3> QED
      BY <1>5, <1>6, <1>7, <2>2, <3>1, <3>3
  <2> QED
    BY <2>1, <2>2
<1> HIDE DEF whole, s
<1>9. Logged' = whole
  BY <1>6, <1>7, <1>8, SeqEqual
<1> QED
  BY <1>9 DEF whole, s

\* An upload that comes to its end has sent the whole log.
LEMMA HandsOverLog ==
  ASSUME ValuesIInv, tftp = "reading", writeIndex >= count * RecordBytes
  PROVE  file = Logged
<1>1. /\ count * RecordBytes \in Nat
      /\ Logged \in Seq(Bytes) /\ Len(Logged) = count * RecordBytes
      /\ \A i \in 1 .. count * RecordBytes : Logged[i] = data[i - 1]
  BY LoggedSeq DEF LogIsSeq, ValuesIInv, ValuesInv
<1>2. /\ file \in Seq(Bytes) /\ Len(file) = count * RecordBytes
      /\ \A i \in 1 .. count * RecordBytes : file[i] = data[i - 1]
  BY <1>1 DEF ValuesIInv, ValuesInv, ValuesTypeOK, SentIsCurrent
<1> QED
  BY <1>1, <1>2, SeqEqual

\* An empty log holds nothing.
LEMMA EmptyLog == (count = 0 => Logged = <<>>) /\ (count' = 0 => Logged' = <<>>)
  BY RecordBytesAssumption DEF Logged

LEMMA StepOfPromise ==
  ValuesIInv /\ ValuesIInv' /\ [ValuesNext]_valuesVars =>
    [Promise!Next]_<<Logged, handed>>
<1> SUFFICES ASSUME ValuesIInv, ValuesIInv', [ValuesNext]_valuesVars,
                    ~ UNCHANGED <<Logged, handed>>
             PROVE  Promise!Next
  OBVIOUS
<1>1. ValuesTypeOK /\ ValuesTypeOK' /\ clock \in Nat
  BY BoundsAssumption DEF ValuesIInv, ValuesInv, ValuesTypeOK
<1>2. ASSUME UNCHANGED <<count, data, handed>> PROVE FALSE
  BY <1>2 DEF Logged
<1>3. ASSUME clock < MaxSamples, NEW k \in 0 .. 3, Writes(k, clock + 1),
             clock' = (IF k > 0 THEN clock + 1 ELSE clock), UNCHANGED handed
      PROVE  Promise!Next
  <2>1. clock + 1 \in 1 .. MaxSamples
    BY <1>1, <1>3, BoundsAssumption
  <2>2. CASE k = 0
    BY <1>2, <1>3, <2>2 DEF Writes
  <2>3. CASE k = 3
    <3>1. Logged' = Logged \o RecordOf(clock + 1)
      BY <1>1, <1>3, <2>3, TakesSample
    <3> QED
      BY <1>3, <2>1, <3>1 DEF Promise!Next, Promise!Take
  <2>4. CASE k \in 1 .. 2
    <3>1. count' = count /\ \A b \in 0 .. count * RecordBytes - 1 : data'[b] = data[b]
      BY <1>1, <1>3, <2>4, WritesKeep
    <3>2. \A i \in 1 .. count * RecordBytes : i - 1 \in 0 .. count * RecordBytes - 1
      BY <1>1, LoggedSeq DEF LogIsSeq
    <3>3. Logged' = Logged
      BY <3>1, <3>2 DEF Logged
    <3> QED
      BY <1>3, <3>3
  <2> QED
    BY <2>2, <2>3, <2>4
<1>4. ASSUME NEW due \in BOOLEAN, ValuesMain(due) PROVE Promise!Next
  <2>1. CASE Samples(due)
    BY <1>3, <1>4, <2>1 DEF ValuesMain, ReadValues
  <2>2. CASE ~ Samples(due)
    BY <1>2, <1>4, <2>2 DEF ValuesMain
  <2> QED
    BY <2>1, <2>2
<1>5. CASE NextByteOfWriteStream
  <2>1. CASE writeIndex >= count * RecordBytes
    <3>1. tftp = "reading" /\ count' = 0 /\ handed' = file
      BY <1>5, <2>1 DEF NextByteOfWriteStream
    <3>2. file = Logged
      BY <2>1, <3>1, HandsOverLog
    <3>3. Logged' = <<>>
      BY <3>1, EmptyLog
    <3> QED
      BY <3>1, <3>2, <3>3 DEF Promise!Next, Promise!HandOver
  <2>2. CASE ~ writeIndex >= count * RecordBytes
    BY <1>2, <1>5, <2>2 DEF NextByteOfWriteStream
  <2> QED
    BY <2>1, <2>2
<1>6. ASSUME NEW k \in 0 .. 3, PowerFailure(k) PROVE Promise!Next
  <2>1. /\ k > 0 => clock < MaxSamples
        /\ Writes(k, clock + 1) /\ clock' = (IF k > 0 THEN clock + 1 ELSE clock)
        /\ UNCHANGED handed
    BY <1>6 DEF PowerFailure
  <2>2. CASE k = 0
    BY <1>2, <2>1, <2>2 DEF Writes
  <2> QED
    BY <1>3, <2>1, <2>2
<1>7. CASE TftpEnds \/ TftpFails \/ ValuesSet \/ UNCHANGED valuesVars
  BY <1>2, <1>7 DEF TftpEnds, TftpFails, ValuesSet, valuesVars
<1> QED
  BY <1>4, <1>5, <1>6, <1>7 DEF ValuesNext

\* The logger keeps the promise of SampleLog: through power failures, failed
\* uploads and changed settings, what is handed over is what has been sampled since
\* the last time, all of it, in order and once.
THEOREM KeepsPromise == ValuesSpec => ImplementsSampleLog
<1>1. ValuesInit => Promise!Init
  BY EmptyLog DEF ValuesInit, Promise!Init
<1> QED
  BY <1>1, ValuesHold, StepOfPromise, PTL DEF ValuesSpec, ImplementsSampleLog, Promise!Spec

-----------------------------------------------------------------------------
(* FramSettings: each setting has room for what is written to it. *)

\* A setting's bytes are enough for what its setter writes and for its default.
Fits(r) ==
  /\ r.width \in Nat /\ r.written \in Nat /\ r.initial \in Nat
  /\ r.written <= r.width /\ r.initial <= r.width

AllFit(s) == \E S : s \in Seq(S) /\ \A r \in S : Fits(r)

LEMMA FitOne ==
  ASSUME NEW r, Fits(r)
  PROVE  AllFit(<<r>>)
<1> DEFINE S == {r}
<1>1. <<r>> \in Seq(S)
  OBVIOUS
<1>2. \A t \in S : Fits(t)
  OBVIOUS
<1> HIDE DEF S
<1> QED
  BY <1>1, <1>2 DEF AllFit

LEMMA FitTogether ==
  ASSUME NEW s, NEW t, AllFit(s), AllFit(t)
  PROVE  AllFit(s \o t)
<1>1. PICK S : s \in Seq(S) /\ \A r \in S : Fits(r)
  BY DEF AllFit
<1>2. PICK T : t \in Seq(T) /\ \A r \in T : Fits(r)
  BY DEF AllFit
<1>3. s \in Seq(S \cup T) /\ t \in Seq(S \cup T)
  BY <1>1, <1>2
<1>4. s \o t \in Seq(S \cup T)
  BY <1>3, ConcatProperties
<1> QED
  BY <1>1, <1>2, <1>4 DEF AllFit

\* A sequence of n settings.
IsArray(s, n) == n \in Nat /\ s = [k \in 1 .. n |-> s[k]]

LEMMA FitMany ==
  ASSUME NEW n, NEW s, IsArray(s, n), \A k \in 1 .. n : Fits(s[k])
  PROVE  AllFit(s)
<1> DEFINE S == {s[k] : k \in 1 .. n}
<1>1. \A k \in 1 .. n : s[k] \in S
  OBVIOUS
<1>2. \A r \in S : Fits(r)
  OBVIOUS
<1> HIDE DEF S
<1>3. [k \in 1 .. n |-> s[k]] \in Seq(S)
  BY <1>1 DEF IsArray
<1>4. s \in Seq(S)
  BY <1>3 DEF IsArray
<1> QED
  BY <1>2, <1>4 DEF AllFit

LEMMA FitSome ==
  /\ \A width \in Nat : \A name : Fits(Setting(name, width))
  /\ \A width \in Nat : Fits(Unused(width))
  /\ \A name : Fits(Flag(name)) /\ Fits(Int32(name)) /\ Fits(Stored32(name)) /\ Fits(StoredText(name))
<1>1. ASSUME NEW width \in Nat, NEW name PROVE Fits(Setting(name, width))
  BY DEF Fits, Setting
<1>2. ASSUME NEW width \in Nat PROVE Fits(Unused(width))
  BY DEF Fits, Setting, Unused
<1>3. ASSUME NEW name PROVE Fits(Flag(name))
  BY DEF Fits, Setting, Flag
<1>4. ASSUME NEW name PROVE Fits(Int32(name))
  BY DEF Fits, Setting, Int32
<1>5. ASSUME NEW name PROVE Fits(Stored32(name))
  BY DEF Fits, Setting, Stored32
<1>6. ASSUME NEW name PROVE Fits(StoredText(name))
  BY FramAssumption DEF Fits, Setting, StoredText
<1> QED
  BY <1>1, <1>2, <1>3, <1>4, <1>5, <1>6

LEMMA FitFlags ==
  ASSUME NEW names, Len(names) \in Nat
  PROVE  AllFit(Flags(names)) /\ AllFit(Int32s(names))
<1> DEFINE n == Len(names)
<1>1. IsArray(Flags(names), n) /\ IsArray(Int32s(names), n)
  BY DEF IsArray, Flags, Int32s
<1>2. \A k \in 1 .. n : Fits(Flags(names)[k]) /\ Fits(Int32s(names)[k])
  BY FitSome DEF Flags, Int32s
<1> HIDE DEF n
<1> QED
  BY <1>1, <1>2, FitMany

LEMMA FitGroups ==
  /\ AllFit(NtpSettings) /\ AllFit(BoilerSettings) /\ AllFit(ClockSettings)
  /\ AllFit(NetSettings) /\ AllFit(ValuesSettings) /\ AllFit(Flags(<<"WizTrace">>))
  /\ AllFit(<<Unused(1), Unused(4)>>)
<1>1. AllFit(NtpSettings)
  <2> DEFINE name == [Setting(<<"NtpServerName", 0>>, DNS_MAX_LABEL_LENGTH + 1)
                        EXCEPT !.written = DNS_MAX_LABEL_LENGTH, !.loaded = TRUE]
             others == <<"InitialInterval", "NormalInterval", "RetryInterval", "OffsetMs", "MaxDelayMs">>
  <2>1. Fits(name)
    BY FramAssumption DEF Fits, Setting
  <2>2. Len(others) \in Nat
    OBVIOUS
  <2>3. NtpSettings = <<name>> \o Int32s(others)
    BY DEF NtpSettings
  <2> HIDE DEF name, others
  <2>4. AllFit(<<name>>) /\ AllFit(Int32s(others))
    BY <2>1, <2>2, FitOne, FitFlags
  <2> QED
    BY <2>3, <2>4, FitTogether
<1>2. AllFit(BoilerSettings)
  <2> DEFINE a == Unused(40)
             b == Unused(2)
             c == Setting(<<"BoardRom", 0>>, 8)
             d == Unused(48)
             S == {a, b, c, d}
  <2>1. \A r \in S : Fits(r)
    BY FitSome
  <2>2. BoilerSettings = <<a, b, c, d>>
    BY DEF BoilerSettings
  <2> HIDE DEF a, b, c, d
  <2>3. <<a, b, c, d>> \in Seq(S)
    OBVIOUS
  <2> HIDE DEF S
  <2> QED
    BY <2>1, <2>2, <2>3 DEF AllFit
<1>3. AllFit(ClockSettings)
  <2> DEFINE numbers == <<"SlewDivisor", "SlewMaxMs", "PpbDivisor", "PpbChangeMax", "SyncedLimitNs",
                          "SyncedLimitPpb", "SyncedHysterisNs", "SyncedHysterisPpb", "MaxOffsetSecs">>
             flag == <<"ClkGov">>
             rest == Unused(1)
  <2>1. Len(numbers) \in Nat /\ Len(flag) \in Nat
    OBVIOUS
  <2>2. ClockSettings = (Int32s(numbers) \o Flags(flag)) \o <<rest>>
    BY DEF ClockSettings
  <2>3. Fits(rest)
    BY FitSome
  <2> HIDE DEF numbers, flag, rest
  <2>4. AllFit(Int32s(numbers)) /\ AllFit(Flags(flag)) /\ AllFit(<<rest>>)
    BY <2>1, <2>3, FitOne, FitFlags
  <2>5. AllFit(Int32s(numbers) \o Flags(flag))
    BY <2>4, FitTogether
  <2> QED
    BY <2>2, <2>4, <2>5, FitTogether
<1>4. AllFit(NetSettings)
  <2> DEFINE some == <<"DnsViaIp4", "NtpViaIp4", "TftpViaIp4", "LogUart">>
             host == [Setting(<<"NetHost", 0>>, 2) EXCEPT !.loaded = TRUE]
             traces == <<"NetStack", "NetNewLine", "NetVerbose", "Link", "DnsName", "DnsQuery",
                         "DnsReply", "DnsServer", "Ntp", "Dhcp", "NsRecvSol", "NsRecvAdv", "NsSendSol",
                         "Nr4", "Nr", "NtpClient", "Echo4", "Echo6", "Dest6", "Ra", "Rs", "Ar4", "Ar6",
                         "Arp", "Ip4", "Ip6", "Udp", "Tcp", "Http", "Tftp">>
  <2>1. Len(some) \in Nat /\ Len(traces) \in Nat
    OBVIOUS
  <2>2. NetSettings = (Flags(some) \o <<host>>) \o Flags(traces)
    BY DEF NetSettings
  <2>3. Fits(host)
    BY DEF Fits, Setting
  <2> HIDE DEF some, host, traces
  <2>4. AllFit(Flags(some)) /\ AllFit(Flags(traces)) /\ AllFit(<<host>>)
    BY <2>1, <2>3, FitOne, FitFlags
  <2>5. AllFit(Flags(some) \o <<host>>)
    BY <2>4, FitTogether
  <2> QED
    BY <2>2, <2>4, <2>5, FitTogether
<1>5. AllFit(ValuesSettings)
  <2> DEFINE a == StoredText("ValuesServerName")
             b == Unused(1)
             c == StoredText("ValuesFileName")
             d == Stored32("ValuesWriteSize")
             e == Stored32("ValuesReadInterval")
             f == [Setting(<<"ValuesStartTime", 0>>, 8) EXCEPT !.initial = 8]
             g == Stored32("ValuesCount")
             S == {a, b, c, d, e, f, g}
  <2>1. Fits(a) /\ Fits(b) /\ Fits(c) /\ Fits(d) /\ Fits(e) /\ Fits(g)
    BY FitSome
  <2>2. Fits(f)
    BY DEF Fits, Setting
  <2>3. ValuesSettings = <<a, b, c, b, d, e, f, g>>
    BY DEF ValuesSettings
  <2> HIDE DEF a, b, c, d, e, f, g
  <2>4. \A r \in S : Fits(r)
    BY <2>1, <2>2
  <2>5. <<a, b, c, b, d, e, f, g>> \in Seq(S)
    OBVIOUS
  <2> HIDE DEF S
  <2> QED
    BY <2>3, <2>4, <2>5 DEF AllFit
<1>6. AllFit(Flags(<<"WizTrace">>))
  <2> DEFINE flag == <<"WizTrace">>
  <2>1. Len(flag) \in Nat
    OBVIOUS
  <2> HIDE DEF flag
  <2>2. AllFit(Flags(flag))
    BY <2>1, FitFlags
  <2> QED
    BY <2>2 DEF flag
<1>7. AllFit(<<Unused(1), Unused(4)>>)
  <2> DEFINE a == Unused(1)
             b == Unused(4)
             S == {a, b}
  <2>1. \A r \in S : Fits(r)
    BY FitSome
  <2> HIDE DEF a, b
  <2>2. <<a, b>> \in Seq(S)
    OBVIOUS
  <2> HIDE DEF S
  <2>3. AllFit(<<a, b>>)
    BY <2>1, <2>2 DEF AllFit
  <2> QED
    BY <2>3 DEF a, b
<1> QED
  BY <1>1, <1>2, <1>3, <1>4, <1>5, <1>6, <1>7

LEMMA FitLists ==
  /\ AllFit(LightsSettings) /\ AllFit(SchedsSettings)
  /\ AllFit([n \in 1 .. LogRecords |-> Setting(<<"ValuesData", n>>, 8)])
<1> USE FramAssumption
<1>1. AllFit(LightsSettings)
  <2> DEFINE N == 3 * WIZ_LIST_MAX_ITEMS
  <2>1. N \in Nat /\ IsArray(LightsSettings, N)
    BY DEF IsArray, LightsSettings
  <2>2. \A i : \A k \in 1 .. 3 : Fits(LightSettings(i)[k])
    <3> SUFFICES ASSUME NEW i PROVE \A k \in 1 .. 3 : Fits(LightSettings(i)[k])
      OBVIOUS
    <3>1. /\ Fits(Setting(<<"WizMacs", i>>, 6)) /\ Fits(Setting(<<"WizNames", i>>, WIZ_LIST_NAME_LENGTH))
          /\ Fits(Setting(<<"WizRooms", i>>, WIZ_LIST_NAME_LENGTH))
      BY FitSome
    <3> QED
      BY <3>1 DEF LightSettings
  <2>3. ASSUME NEW n \in 1 .. N PROVE Fits(LightsSettings[n])
    <3>1. ((n + 2) % 3) + 1 \in 1 .. 3
      OBVIOUS
    <3>2. LightsSettings[n] = LightSettings((n + 2) \div 3)[((n + 2) % 3) + 1]
      BY DEF LightsSettings
    <3> QED
      BY <2>2, <3>1, <3>2
  <2> HIDE DEF N
  <2> QED
    BY <2>1, <2>3, FitMany
<1>2. AllFit(SchedsSettings)
  <2> DEFINE N == 5 * WIZ_SCHED_MAX_ITEMS
  <2>1. N \in Nat /\ IsArray(SchedsSettings, N)
    BY DEF IsArray, SchedsSettings
  <2>2. \A i : \A k \in 1 .. 5 : Fits(SchedSettings(i)[k])
    <3> SUFFICES ASSUME NEW i PROVE \A k \in 1 .. 5 : Fits(SchedSettings(i)[k])
      OBVIOUS
    <3>1. /\ Fits(Setting(<<"WizSchedNames", i>>, WIZ_LIST_NAME_LENGTH))
          /\ Fits(Setting(<<"WizSchedOnDatums", i>>, 1)) /\ Fits(Setting(<<"WizSchedOnMinutes", i>>, 2))
          /\ Fits(Setting(<<"WizSchedOffDatums", i>>, 1)) /\ Fits(Setting(<<"WizSchedOffMinutes", i>>, 2))
      BY FitSome
    <3> QED
      BY <3>1 DEF SchedSettings
  <2>3. ASSUME NEW n \in 1 .. N PROVE Fits(SchedsSettings[n])
    <3>1. ((n + 4) % 5) + 1 \in 1 .. 5
      OBVIOUS
    <3>2. SchedsSettings[n] = SchedSettings((n + 4) \div 5)[((n + 4) % 5) + 1]
      BY DEF SchedsSettings
    <3> QED
      BY <2>2, <3>1, <3>2
  <2> HIDE DEF N
  <2> QED
    BY <2>1, <2>3, FitMany
<1>3. AllFit([n \in 1 .. LogRecords |-> Setting(<<"ValuesData", n>>, 8)])
  <2> DEFINE s == [n \in 1 .. LogRecords |-> Setting(<<"ValuesData", n>>, 8)]
  <2>1. IsArray(s, LogRecords)
    BY DEF IsArray
  <2>2. \A n \in 1 .. LogRecords : Fits(s[n])
    BY FitSome
  <2> HIDE DEF s
  <2>3. AllFit(s)
    BY <2>1, <2>2, FitMany
  <2> QED
    BY <2>3 DEF s
<1> QED
  BY <1>1, <1>2, <1>3

LEMMA FitAllocated == AllFit(Allocated)
<1> DEFINE a == <<Unused(1), Unused(4)>>
           f == Flags(<<"WizTrace">>)
           d == [n \in 1 .. LogRecords |-> Setting(<<"ValuesData", n>>, 8)]
           t2 == a \o NtpSettings
           t3 == t2 \o BoilerSettings
           t4 == t3 \o ClockSettings
           t5 == t4 \o NetSettings
           t6 == t5 \o ValuesSettings
           t7 == t6 \o f
           t8 == t7 \o LightsSettings
           t9 == t8 \o SchedsSettings
<1>1. Allocated = t9 \o d
  BY DEF Allocated
<1>2. AllFit(a) /\ AllFit(f) /\ AllFit(d)
  BY FitGroups, FitLists
<1> HIDE DEF a, f, d
<1>3. AllFit(t2)
  BY <1>2, FitGroups, FitTogether
<1> HIDE DEF t2
<1>4. AllFit(t3)
  BY <1>3, FitGroups, FitTogether
<1> HIDE DEF t3
<1>5. AllFit(t4)
  BY <1>4, FitGroups, FitTogether
<1> HIDE DEF t4
<1>6. AllFit(t5)
  BY <1>5, FitGroups, FitTogether
<1> HIDE DEF t5
<1>7. AllFit(t6)
  BY <1>6, FitGroups, FitTogether
<1> HIDE DEF t6
<1>8. AllFit(t7)
  BY <1>2, <1>7, FitTogether
<1> HIDE DEF t7
<1>9. AllFit(t8)
  BY <1>8, FitLists, FitTogether
<1> HIDE DEF t8
<1>10. AllFit(t9)
  BY <1>9, FitLists, FitTogether
<1> HIDE DEF t9
<1> QED
  BY <1>1, <1>2, <1>10, FitTogether

-----------------------------------------------------------------------------
(* Where the settings lie. *)

\* The number of settings and other allocations.
Allocations == Len(Allocated)

LEMMA Places ==
  /\ Allocations \in Nat /\ Place = 1 .. Allocations
  /\ \A i \in Place : Fits(Allocated[i])
  /\ Settings \subseteq Place /\ Loaded \subseteq Settings
<1>1. PICK S : Allocated \in Seq(S) /\ \A r \in S : Fits(r)
  BY FitAllocated DEF AllFit
<1>2. Allocations \in Nat /\ Place = 1 .. Allocations /\ \A i \in Place : Allocated[i] \in S
  BY <1>1 DEF Allocations, Place
<1> QED
  BY <1>1, <1>2 DEF Settings, Loaded

LEMMA UsedIs ==
  /\ Used \in [0 .. Allocations -> Nat] /\ Used[0] = 0
  /\ \A i \in Place : i - 1 \in 0 .. Allocations /\ Used[i] = Used[i - 1] + Allocated[i].width
<1> DEFINE last == Allocations
           X == Nat
           step == [p \in (0 .. last) \X X |-> IF p[1] = 0 THEN p[2] ELSE p[2] + Allocated[p[1]].width]
           IsRun(g) == g = [n \in 0 .. last |-> IF n = 0 THEN 0 ELSE g[n - 1] + Allocated[n].width]
<1>0. last \in Nat /\ Place = 1 .. last
  BY Places
<1>1. \A i \in 1 .. last : Allocated[i].width \in Nat
  BY <1>0, Places DEF Fits
<1>2. IsStepUpTo(step, last, X)
  <2> SUFFICES ASSUME NEW n \in 0 .. last, NEW x \in X, n # 0 PROVE x + Allocated[n].width \in X
    BY DEF IsStepUpTo, IsStep
  <2> QED
    BY <1>0, <1>1
<1>3. \A n \in 0 .. last, x \in X : n # 0 => step[<<n, x>>] = x + Allocated[n].width
  OBVIOUS
<1>4. 0 \in X
  OBVIOUS
<1> HIDE DEF step, X, last
<1>5. PICK f \in [0 .. last -> X] :
        f[0] = 0 /\ \A n \in 1 .. last : f[n] = step[<<n, f[n - 1]>>]
  BY <1>0, <1>2, <1>4, RecursionUpTo
<1>6. \A n \in 0 .. last : f[n] = IF n = 0 THEN 0 ELSE f[n - 1] + Allocated[n].width
  <2> SUFFICES ASSUME NEW n \in 0 .. last, n # 0 PROVE f[n] = f[n - 1] + Allocated[n].width
    BY <1>5
  <2>1. n - 1 \in 0 .. last /\ n \in 1 .. last
    BY <1>0
  <2>2. f[n] = step[<<n, f[n - 1]>>] /\ f[n - 1] \in X
    BY <1>5, <2>1
  <2> QED
    BY <1>3, <2>2
<1>7. IsRun(f)
  <2>1. f = [n \in 0 .. last |-> f[n]]
    BY <1>5
  <2> QED
    BY <1>6, <2>1
<1>8. Used = CHOOSE g : IsRun(g)
  BY DEF Used, last, Allocations
<1>9. IsRun(Used)
  BY <1>7, <1>8
<1>10. \A n \in 0 .. last : Used[n] = IF n = 0 THEN 0 ELSE Used[n - 1] + Allocated[n].width
  BY <1>9
<1>11. Used = [n \in 0 .. last |-> Used[n]]
  BY <1>9
<1>12. \A n \in 0 .. last : Used[n] \in Nat
  <2> DEFINE Good == {n \in Nat : n <= last => Used[n] \in Nat}
  <2>1. 0 \in Good
    BY <1>0, <1>10
  <2>2. ASSUME NEW n \in Nat, n \in Good PROVE n + 1 \in Good
    <3> SUFFICES ASSUME n + 1 <= last PROVE Used[n + 1] \in Nat
      OBVIOUS
    <3>1. (n + 1) - 1 = n /\ n + 1 \in 1 .. last /\ n + 1 \in 0 .. last /\ n <= last /\ n + 1 # 0
      BY <1>0
    <3>2. Used[n + 1] = Used[n] + Allocated[n + 1].width
      BY <1>10, <3>1
    <3> QED
      BY <1>1, <2>2, <3>1, <3>2
  <2> HIDE DEF Good
  <2>3. Nat \subseteq Good
    BY <2>1, <2>2, Induction
  <2> QED
    BY <2>3, <1>0 DEF Good
<1>13. ASSUME NEW i \in Place
       PROVE  i - 1 \in 0 .. last /\ Used[i] = Used[i - 1] + Allocated[i].width
  <2>1. i \in 0 .. last /\ i # 0 /\ i - 1 \in 0 .. last
    BY <1>0
  <2> QED
    BY <1>10, <2>1
<1>14. Used \in [0 .. last -> Nat]
  BY <1>11, <1>12
<1>15. Used[0] = 0
  BY <1>0, <1>10
<1> QED
  BY <1>13, <1>14, <1>15 DEF last

\* What is allocated grows.
LEMMA UsedGrows ==
  ASSUME NEW i \in 0 .. Allocations
  PROVE  \A j \in 0 .. Allocations : i <= j => Used[i] <= Used[j]
<1> DEFINE Good == {n \in Nat : i + n <= Allocations => Used[i] <= Used[i + n]}
<1>0. Allocations \in Nat /\ i \in Nat
  BY Places
<1>1. 0 \in Good
  BY <1>0, UsedIs
<1>2. ASSUME NEW n \in Nat, n \in Good PROVE n + 1 \in Good
  <2> SUFFICES ASSUME i + (n + 1) <= Allocations PROVE Used[i] <= Used[i + (n + 1)]
    OBVIOUS
  <2> DEFINE k == i + n
  <2>1. i + (n + 1) = k + 1 /\ k + 1 \in Place /\ (k + 1) - 1 = k /\ k <= Allocations /\ k \in 0 .. Allocations
        /\ k + 1 \in 0 .. Allocations
    BY <1>0, Places
  <2>2. Used[i] <= Used[k]
    BY <1>2, <2>1
  <2> HIDE DEF k
  <2>3. Used[k + 1] = Used[k] + Allocated[k + 1].width
    BY <2>1, UsedIs
  <2>4. Allocated[k + 1].width \in Nat /\ Used[k] \in Nat /\ Used[i] \in Nat
    BY <2>1, Places, UsedIs DEF Fits
  <2>5. Used[i] <= Used[k + 1]
    BY <2>2, <2>3, <2>4
  <2>6. i + (n + 1) = k + 1
    BY <2>1
  <2> QED
    BY <2>5, <2>6
<1> HIDE DEF Good
<1>3. Nat \subseteq Good
  BY <1>1, <1>2, Induction
<1>4. ASSUME NEW j \in 0 .. Allocations, i <= j PROVE Used[i] <= Used[j]
  <2>1. j - i \in Nat /\ i + (j - i) = j /\ j <= Allocations
    BY <1>0, <1>4
  <2> QED
    BY <1>3, <2>1 DEF Good
<1> QED
  BY <1>4

\* The bytes of each setting.
BytesOf(i) == Address[i] .. Address[i] + Allocated[i].width - 1

LEMMA Addresses ==
  ASSUME NEW i \in Place
  PROVE  /\ Address[i] \in Nat /\ Address[i] = Used[i - 1]
         /\ Allocated[i].width \in Nat /\ Address[i] + Allocated[i].width = Used[i]
         /\ BytesOf(i) \subseteq 0 .. Used[Allocations] - 1
<1>1. Allocations \in Nat /\ i \in 1 .. Allocations
  BY Places
<1>2. i - 1 \in 0 .. Allocations /\ i \in 0 .. Allocations /\ Allocations \in 0 .. Allocations /\ i <= Allocations
  BY <1>1
<1>3. Address[i] = Used[i - 1] /\ Used[i - 1] \in Nat /\ Used[i] \in Nat /\ Used[Allocations] \in Nat
  BY <1>2, UsedIs DEF Address
<1>4. Allocated[i].width \in Nat /\ Used[i] = Used[i - 1] + Allocated[i].width
  BY Places, UsedIs DEF Fits
<1>5. Used[i] <= Used[Allocations]
  BY <1>2, UsedGrows
<1>6. BytesOf(i) \subseteq 0 .. Used[Allocations] - 1
  BY <1>3, <1>4, <1>5 DEF BytesOf
<1> QED
  BY <1>3, <1>4, <1>6

\* No byte belongs to two of them.
LEMMA BytesAreOwn ==
  ASSUME NEW i \in Place, NEW j \in Place, NEW a \in BytesOf(i), a \in BytesOf(j)
  PROVE  i = j
<1>1. ASSUME NEW p \in Place, NEW q \in Place, p < q, a \in BytesOf(p), a \in BytesOf(q)
      PROVE  FALSE
  <2>1. Allocations \in Nat /\ p \in 1 .. Allocations /\ q \in 1 .. Allocations
    BY Places
  <2>2. p \in 0 .. Allocations /\ q - 1 \in 0 .. Allocations /\ p <= q - 1
    BY <1>1, <2>1
  <2>3. Used[p] <= Used[q - 1]
    BY <2>2, UsedGrows
  <2>4. Address[p] + Allocated[p].width = Used[p] /\ Address[q] = Used[q - 1]
        /\ Address[p] \in Nat /\ Address[q] \in Nat /\ Allocated[p].width \in Nat
    BY Addresses
  <2> QED
    BY <1>1, <2>3, <2>4 DEF BytesOf
<1>2. i \in Nat /\ j \in Nat
  BY Places
<1> QED
  BY <1>1, <1>2

-----------------------------------------------------------------------------
\* The first n bytes of setting i are what call n wrote.
Holds(f, i, n, k) == \A b \in 1 .. k : f[Address[i] + b - 1] = ByteOf(i, n, b)

LEMMA ReadIs ==
  ASSUME NEW i, NEW n, NEW k
  PROVE  FramRead(i, k) = Value(i, n, k) <=> Holds(fram, i, n, k)
BY DEF FramRead, Value, Holds

Kept(i) == Holds(fram, i, lastSet[i], GivenBytes(i))

\* What holds at every moment: the FRAM has its size, and each setting its value.
SettingsInv ==
  /\ fram = [a \in 0 .. Used[Allocations] - 1 |-> fram[a]]
  /\ lastSet \in [Settings -> Nat] /\ settings \in Nat
  /\ \A i \in Settings : Kept(i)
  /\ ram = [i \in Loaded |-> Value(i, lastSet[i], GivenBytes(i))]

LEMMA Given ==
  ASSUME NEW i \in Settings
  PROVE  /\ GivenBytes(i) \in Nat
         /\ \A b \in 1 .. GivenBytes(i) : Address[i] + b - 1 \in BytesOf(i)
<1>1. i \in Place /\ Fits(Allocated[i]) /\ Address[i] \in Nat
  BY Places, Addresses
<1>2. GivenBytes(i) \in Nat /\ GivenBytes(i) <= Allocated[i].width /\ Allocated[i].width \in Nat
  BY <1>1 DEF GivenBytes, Fits
<1> QED
  BY <1>1, <1>2 DEF BytesOf

LEMMA InvImplies == SettingsInv => SettingsAreKept
<1> SUFFICES ASSUME SettingsInv PROVE SettingsAreKept
  OBVIOUS
<1>1. \A i \in Settings : FramRead(i, GivenBytes(i)) = Value(i, lastSet[i], GivenBytes(i))
  BY ReadIs DEF SettingsInv, Kept
<1>2. \A i \in Loaded : ram[i] = Value(i, lastSet[i], GivenBytes(i))
  BY DEF SettingsInv
<1> QED
  BY <1>1, <1>2 DEF SettingsAreKept

LEMMA InvInit == SettingsInit => SettingsInv
<1> SUFFICES ASSUME SettingsInit PROVE SettingsInv
  OBVIOUS
<1>1. lastSet \in [Settings -> Nat] /\ settings \in Nat /\ \A i \in Settings : lastSet[i] = 0
  BY DEF SettingsInit
<1>2. ASSUME NEW i \in Settings PROVE Kept(i)
  <2>1. i \in Place /\ Address[i] \in Nat
    BY Places, Addresses
  <2>2. GivenBytes(i) = Allocated[i].initial /\ Allocated[i].initial \in Nat
    BY <1>1, <2>1, Places DEF GivenBytes, Fits
  <2>3. ASSUME NEW b \in 1 .. GivenBytes(i) PROVE fram[Address[i] + b - 1] = ByteOf(i, 0, b)
    <3> DEFINE a == Address[i] + b - 1
               owner == CHOOSE p \in Place : a \in Address[p] .. Address[p] + Allocated[p].width - 1
    <3>1. a \in BytesOf(i) /\ a \in 0 .. Used[Allocations] - 1
      BY <2>1, Given, Addresses
    <3>2. owner \in Place /\ a \in BytesOf(owner)
      BY <2>1, <3>1 DEF BytesOf
    <3>3. owner = i
      BY <2>1, <3>1, <3>2, BytesAreOwn
    <3>4. fram[a] = IF a - Address[owner] < Allocated[owner].initial
                    THEN ByteOf(owner, 0, a - Address[owner] + 1) ELSE <<>>
      BY <3>1 DEF SettingsInit, Allocations
    <3>5. a - Address[i] = b - 1 /\ (a - Address[i]) + 1 = b /\ b - 1 < Allocated[i].initial
      BY <2>1, <2>2
    <3> HIDE DEF owner, a
    <3>6. fram[a] = ByteOf(i, 0, b)
      BY <3>3, <3>4, <3>5
    <3> QED
      BY <3>6 DEF a
  <2> QED
    BY <1>1, <2>3 DEF Kept, Holds
<1>3. fram = [a \in 0 .. Used[Allocations] - 1 |-> fram[a]]
  BY DEF SettingsInit, Allocations
<1>4. ram = [i \in Loaded |-> Value(i, lastSet[i], GivenBytes(i))]
  <2>1. ram = [i \in Loaded |-> FramRead(i, GivenBytes(i))]
    BY DEF SettingsInit
  <2>2. \A i \in Loaded : FramRead(i, GivenBytes(i)) = Value(i, lastSet[i], GivenBytes(i))
    BY <1>2, ReadIs, Places DEF Kept
  <2> QED
    BY <2>1, <2>2
<1> QED
  BY <1>1, <1>2, <1>3, <1>4 DEF SettingsInv

LEMMA InvSet ==
  ASSUME SettingsInv, NEW i \in Settings, Set(i)
  PROVE  SettingsInv'
<1> DEFINE n == settings + 1
           w == Allocated[i].written
<1>1. i \in Place /\ Address[i] \in Nat /\ w \in Nat /\ w <= Allocated[i].width /\ Allocated[i].width \in Nat
  BY Places, Addresses DEF Fits
<1>2. n \in Nat /\ n # 0 /\ settings' = n
  BY DEF Set, SettingsInv
<1>3. /\ lastSet' \in [Settings -> Nat] /\ lastSet'[i] = n
      /\ \A j \in Settings : j # i => lastSet'[j] = lastSet[j]
  BY <1>2 DEF Set, SettingsInv
<1>4. fram' = [a \in 0 .. Used[Allocations] - 1 |->
                 IF a \in Address[i] .. Address[i] + w - 1 THEN ByteOf(i, n, a - Address[i] + 1) ELSE fram[a]]
  BY DEF Set, FramWrite, SettingsInv
<1> HIDE DEF n
<1>5. Kept(i)'
  <2>1. GivenBytes(i)' = w
    BY <1>2, <1>3 DEF GivenBytes
  <2>2. ASSUME NEW b \in 1 .. w PROVE fram'[Address[i] + b - 1] = ByteOf(i, n, b)
    <3> DEFINE a == Address[i] + b - 1
    <3>1. a \in Address[i] .. Address[i] + w - 1 /\ a \in BytesOf(i) /\ (a - Address[i]) + 1 = b
      BY <1>1 DEF BytesOf
    <3>2. a \in 0 .. Used[Allocations] - 1
      BY <1>1, <3>1, Addresses
    <3> HIDE DEF a
    <3>3. fram'[a] = ByteOf(i, n, b)
      BY <1>4, <3>1, <3>2
    <3> QED
      BY <3>3 DEF a
  <2> QED
    BY <1>3, <2>1, <2>2 DEF Kept, Holds, ByteOf
<1>6. ASSUME NEW j \in Settings, j # i
      PROVE  Kept(j)' /\ GivenBytes(j)' = GivenBytes(j)
  <2>1. GivenBytes(j)' = GivenBytes(j)
    BY <1>3, <1>6 DEF GivenBytes
  <2>2. j \in Place
    BY Places
  <2>3. ASSUME NEW b \in 1 .. GivenBytes(j) PROVE fram'[Address[j] + b - 1] = ByteOf(j, lastSet[j], b)
    <3> DEFINE a == Address[j] + b - 1
    <3>1. a \in BytesOf(j) /\ fram[a] = ByteOf(j, lastSet[j], b)
      BY Given DEF SettingsInv, Kept, Holds
    <3>2. a \in 0 .. Used[Allocations] - 1
      BY <2>2, <3>1, Addresses
    <3> HIDE DEF a
    <3>3. a \notin BytesOf(i)
      BY <1>1, <1>6, <2>2, <3>1, BytesAreOwn
    <3>4. a \notin Address[i] .. Address[i] + w - 1
      BY <1>1, <3>3 DEF BytesOf
    <3>5. fram'[a] = ByteOf(j, lastSet[j], b)
      BY <1>4, <3>1, <3>2, <3>4
    <3> QED
      BY <3>5 DEF a
  <2> QED
    BY <1>3, <1>6, <2>1, <2>3 DEF Kept, Holds, ByteOf
<1>7. fram' = [a \in 0 .. Used[Allocations] - 1 |-> fram'[a]]
  BY <1>4
<1>8. ram' = [j \in Loaded |-> Value(j, lastSet'[j], GivenBytes(j)')]
  <2>1. GivenBytes(i)' = w
    BY <1>2, <1>3 DEF GivenBytes
  <2>2. CASE i \in Loaded
    <3>1. ram' = [ram EXCEPT ![i] = Value(i, n, w)]
      BY <2>2 DEF Set, n
    <3>2. ram' = [j \in Loaded |-> IF j = i THEN Value(i, n, w) ELSE ram[j]]
      BY <3>1 DEF SettingsInv
    <3>3. ASSUME NEW j \in Loaded
          PROVE  (IF j = i THEN Value(i, n, w) ELSE ram[j]) = Value(j, lastSet'[j], GivenBytes(j)')
      <4>1. CASE j = i
        BY <1>3, <2>1, <4>1
      <4>2. CASE j # i
        <5>1. ram[j] = Value(j, lastSet[j], GivenBytes(j))
          BY DEF SettingsInv
        <5>2. j \in Settings
          BY Places
        <5> QED
          BY <1>3, <1>6, <4>2, <5>1, <5>2
      <4> QED
        BY <4>1, <4>2
    <3> QED
      BY <3>2, <3>3
  <2>3. CASE i \notin Loaded
    <3>1. ram' = ram
      BY <2>3 DEF Set
    <3>2. ASSUME NEW j \in Loaded
          PROVE  Value(j, lastSet[j], GivenBytes(j)) = Value(j, lastSet'[j], GivenBytes(j)')
      <4>1. j # i /\ j \in Settings
        BY <2>3, Places
      <4> QED
        BY <1>3, <1>6, <4>1
    <3> QED
      BY <3>1, <3>2 DEF SettingsInv
  <2> QED
    BY <2>2, <2>3
<1>9. \A j \in Settings : Kept(j)'
  BY <1>5, <1>6
<1> QED
  BY <1>2, <1>3, <1>7, <1>8, <1>9 DEF SettingsInv, Value, ByteOf

\* However many lights, events and records there are, and however long the texts:
\* no setting is damaged by another, and each comes back after a reset.
THEOREM SettingsAreKeptAlways == SettingsSpec => []SettingsAreKept
<1>1. SettingsInv /\ [SettingsNext]_settingsVars => SettingsInv'
  <2> SUFFICES ASSUME SettingsInv, [SettingsNext]_settingsVars PROVE SettingsInv'
    OBVIOUS
  <2>1. CASE Reset
    <3>1. fram' = fram /\ lastSet' = lastSet /\ settings' = settings
      BY <2>1 DEF Reset
    <3>2. \A i \in Loaded : FramRead(i, GivenBytes(i)) = Value(i, lastSet[i], GivenBytes(i))
      BY ReadIs, Places DEF SettingsInv, Kept
    <3>3. ram' = [i \in Loaded |-> Value(i, lastSet[i], GivenBytes(i))]
      BY <2>1, <3>2 DEF Reset
    <3> QED
      BY <3>1, <3>3 DEF SettingsInv, Kept, GivenBytes, Holds, Value, ByteOf
  <2>2. ASSUME NEW i \in Settings, Set(i) PROVE SettingsInv'
    BY <2>2, InvSet
  <2>3. CASE UNCHANGED settingsVars
    BY <2>3 DEF settingsVars, SettingsInv, Kept, GivenBytes, Holds, Value, ByteOf
  <2> QED
    BY <2>1, <2>2, <2>3 DEF SettingsNext
<1> QED
  BY <1>1, InvInit, InvImplies, PTL DEF SettingsSpec

=============================================================================
