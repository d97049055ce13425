------------------------------ MODULE ValuesLog ------------------------------
(***************************************************************************)
(* board/values.c: temperatures are read at intervals into the FRAM and,   *)
(* once there are enough of them, sent to a TFTP server as one file.       *)
(*                                                                         *)
(* start, count and data are what the FRAM holds; the program's copies of  *)
(* start and count differ from it only within readValues, where a power    *)
(* failure forgets them (PowerFailure).  A sample is known by the time it  *)
(* was taken at, its record by RecordBytes bytes of that sample.           *)
(*                                                                         *)
(* The TFTP client and the timer are not in this repository.  The client   *)
(* asks for bytes until there are no more, and may give up at any time;    *)
(* whether the interval has gone by is any Boolean.                        *)
(***************************************************************************)
EXTENDS Integers, Sequences

CONSTANTS RecordBytes,   \* bytes of a record: 8
          WriteSizes,    \* the backup sizes a user may set, 0 is off
          MaxSamples,    \* bound on the samples taken
          MaxTroubles    \* bound on power failures and failed uploads

ASSUME RecordBytesAssumption == RecordBytes \in Nat \ {0}
ASSUME WriteSizesAssumption == WriteSizes \subseteq Nat
ASSUME BoundsAssumption == MaxSamples \in Nat /\ MaxTroubles \in Nat

VARIABLES
  destination,   \* "good", or why writeValues returns: "none" (no server or no
                 \* file name), "bad" (strftime makes nothing of the file name)
  writeSize, readInterval,
  start, count, data,
  tftp,          \* TftpWriteStatus: "idle", "reading" or, past the last byte, "closing"
  writeIndex,
  fileStart,     \* the time in TftpFileName
  file,          \* the bytes the client has been given
  clock,         \* the time of the latest sample
  handed,        \* the bytes of the last file that was given to its end
  troubles

valuesVars == <<destination, writeSize, readInterval, start, count, data, tftp,
                writeIndex, fileStart, file, clock, handed, troubles>>

Destinations == {"none", "good", "bad"}
RecordOf(s) == [k \in 1 .. RecordBytes |-> <<s, k>>]
NoByte == <<0, 0>>

\* A new board: nothing sampled, nothing set up.
ValuesInit ==
  /\ destination = "none" /\ writeSize \in WriteSizes /\ readInterval = 1
  /\ start = 0 /\ count = 0
  /\ data = [i \in 0 .. MaxSamples * RecordBytes - 1 |-> NoByte]
  /\ tftp = "idle" /\ writeIndex = 0 /\ fileStart = 0 /\ file = <<>>
  /\ clock = 0 /\ handed = <<>> /\ troubles = 0

-----------------------------------------------------------------------------
\* SetValuesData: the record of sample s at position n.
Stored(n, s) ==
  [i \in DOMAIN data |->
     IF i \div RecordBytes = n THEN RecordOf(s)[(i % RecordBytes) + 1] ELSE data[i]]

\* Mutant: the count is stored before the record.
CountFirst(k, s) ==
  /\ start' = IF count = 0 /\ k > 0 THEN s ELSE start
  /\ count' = IF k > 1 THEN count + 1 ELSE count
  /\ data' = IF k > 2 THEN Stored(count, s) ELSE data

\* Mutant: a log that has begun is given a new start time.
StartAlways(k, s) ==
  /\ start' = IF k > 0 THEN s ELSE start
  /\ data' = IF k > 1 THEN Stored(count, s) ELSE data
  /\ count' = IF k > 2 THEN count + 1 ELSE count

\* readValues writes the FRAM in this order; the first k of the writes are done.
Writes(k, s) ==
  /\ start' = IF count = 0 /\ k > 0 THEN s ELSE start
  /\ data' = IF k > 1 THEN Stored(count, s) ELSE data
  /\ count' = IF k > 2 THEN count + 1 ELSE count

ReadValues == Writes(3, clock + 1) /\ clock' = clock + 1

\* writeValues, when n samples begun at s are stored: it asks for an upload
\* from the first byte on.
Request(s) ==
  /\ tftp' = "reading" /\ writeIndex' = 0 /\ fileStart' = s /\ file' = <<>>

\* Mutant: an upload under way is begun again.
WriteValuesAnyway(wanted, isIdle, s) ==
  IF wanted /\ destination = "good"
  THEN Request(s)
  ELSE /\ tftp' = IF isIdle THEN "idle" ELSE tftp
       /\ UNCHANGED <<writeIndex, fileStart, file>>

WriteValues(wanted, isIdle, s) ==
  IF wanted /\ destination = "good" /\ isIdle
  THEN Request(s)
  ELSE /\ tftp' = IF isIdle THEN "idle" ELSE tftp
       /\ UNCHANGED <<writeIndex, fileStart, file>>

Samples(due) == due /\ writeSize # 0 /\ count < writeSize /\ readInterval # 0

\* ValuesMain: a sample if one is due and wanted, and in the same pass a backup
\* if the log is full.
ValuesMain(due) ==
  /\ IF Samples(due) THEN clock < MaxSamples /\ ReadValues
                     ELSE UNCHANGED <<start, count, data, clock>>
  /\ WriteValues(writeSize # 0 /\ count' >= writeSize, tftp = "idle", start')
  /\ UNCHANGED <<destination, writeSize, readInterval, handed, troubles>>

\* Mutant: the log is emptied one byte early.
NextByteEarly ==
  /\ tftp = "reading"
  /\ IF writeIndex >= count * RecordBytes - 1
     THEN /\ count' = 0 /\ tftp' = "closing" /\ handed' = file
          /\ UNCHANGED <<writeIndex, file>>
     ELSE /\ file' = Append(file, data[writeIndex])
          /\ writeIndex' = writeIndex + 1
          /\ UNCHANGED <<count, tftp, handed>>
  /\ UNCHANGED <<destination, writeSize, readInterval, start, data, fileStart, clock, troubles>>

\* nextByteOfWriteStream, called by the client: a byte or, past the last, the end,
\* which empties the log.
NextByteOfWriteStream ==
  /\ tftp = "reading"
  /\ IF writeIndex >= count * RecordBytes
     THEN /\ count' = 0 /\ tftp' = "closing" /\ handed' = file
          /\ UNCHANGED <<writeIndex, file>>
     ELSE /\ file' = Append(file, data[writeIndex])
          /\ writeIndex' = writeIndex + 1
          /\ UNCHANGED <<count, tftp, handed>>
  /\ UNCHANGED <<destination, writeSize, readInterval, start, data, fileStart, clock, troubles>>

-----------------------------------------------------------------------------
\* The client has sent its last block, or gives up before.
TftpEnds ==
  /\ tftp = "closing"
  /\ tftp' = "idle"
  /\ UNCHANGED <<destination, writeSize, readInterval, start, count, data,
                 writeIndex, fileStart, file, clock, handed, troubles>>

TftpFails ==
  /\ tftp = "reading" /\ troubles < MaxTroubles
  /\ tftp' = "idle" /\ troubles' = troubles + 1
  /\ UNCHANGED <<destination, writeSize, readInterval, start, count, data,
                 writeIndex, fileStart, file, clock, handed>>

\* The power fails, perhaps after k of the writes of a sample, and comes back:
\* ValuesInit loads the FRAM and sends whatever is there.
PowerFailure(k) ==
  /\ troubles < MaxTroubles /\ troubles' = troubles + 1
  /\ k > 0 => Samples(TRUE) /\ clock < MaxSamples
  /\ Writes(k, clock + 1)
  /\ clock' = IF k > 0 THEN clock + 1 ELSE clock
  /\ WriteValues(count' > 0, TRUE, start')
  /\ UNCHANGED <<destination, writeSize, readInterval, handed>>

\* The settings page.
ValuesSet ==
  /\ \/ destination' \in Destinations \ {destination} /\ UNCHANGED <<writeSize, readInterval>>
     \/ writeSize' \in WriteSizes \ {writeSize} /\ UNCHANGED <<destination, readInterval>>
     \/ readInterval' = 1 - readInterval /\ UNCHANGED <<destination, writeSize>>
  /\ UNCHANGED <<start, count, data, tftp, writeIndex, fileStart, file, clock, handed, troubles>>

ValuesNext ==
  \/ \E due \in BOOLEAN : ValuesMain(due)
  \/ NextByteOfWriteStream
  \/ TftpEnds
  \/ TftpFails
  \/ \E k \in 0 .. 3 : PowerFailure(k)
  \/ ValuesSet

ValuesSpec == ValuesInit /\ [][ValuesNext]_valuesVars

\* The main loop comes round; a client that has been asked goes on.
ValuesFairness ==
  /\ WF_valuesVars(ValuesMain(FALSE))
  /\ WF_valuesVars(NextByteOfWriteStream)
  /\ WF_valuesVars(TftpEnds)

-----------------------------------------------------------------------------
(***************************************************************************)
(* Properties                                                              *)
(***************************************************************************)

\* The bytes of the samples in the log.
Logged == [i \in 1 .. count * RecordBytes |-> data[i - 1]]

Bytes == {NoByte} \cup (1 .. MaxSamples) \X (1 .. RecordBytes)

\* The settings, the log and the upload hold what they should; the count of
\* samples never passes what has been sampled.
ValuesTypeOK ==
  /\ destination \in Destinations /\ writeSize \in WriteSizes /\ readInterval \in 0 .. 1
  /\ start \in 0 .. clock /\ count \in 0 .. clock /\ clock \in 0 .. MaxSamples
  /\ data \in [0 .. MaxSamples * RecordBytes - 1 -> Bytes]
  /\ tftp \in {"idle", "reading", "closing"}
  /\ writeIndex \in 0 .. MaxSamples * RecordBytes
  /\ fileStart \in 0 .. clock /\ file \in Seq(Bytes) /\ handed \in Seq(Bytes)
  /\ troubles \in 0 .. MaxTroubles

\* Every record that is counted is there, all of it, and they are in the order the
\* samples were taken, the first at the start that the log is marked with - also
\* when the power fails between the writes of a sample.
LogIsWhole ==
  \E time \in [0 .. count - 1 -> 1 .. clock] :
    /\ \A i \in 1 .. count * RecordBytes :
         Logged[i] = <<time[(i - 1) \div RecordBytes], ((i - 1) % RecordBytes) + 1>>
    /\ \A m, n \in 0 .. count - 1 : m < n => time[m] < time[n]
    /\ count > 0 => time[0] = start

ValuesInv == ValuesTypeOK /\ LogIsWhole

\* While a file is being sent it is the log from its first byte on, whatever is
\* added behind it meanwhile, and it is named after the time of its first sample.
FileIsTheLog ==
  tftp = "reading" =>
    /\ Len(file) = writeIndex
    /\ writeIndex <= count * RecordBytes
    /\ \A i \in 1 .. Len(file) : file[i] = Logged[i]
    /\ count > 0 => Logged[1] = <<fileStart, 1>>

Promise == INSTANCE SampleLog WITH Sample <- 1 .. MaxSamples, pending <- Logged

\* The logger keeps the promise of SampleLog through power failures, failed
\* uploads and changed settings.
ImplementsSampleLog == Promise!Spec

\* A full log does not stay so for ever while there is somewhere to send it.
FullLogIsHandedOver ==
  []<>~ (destination = "good" /\ writeSize # 0 /\ count >= writeSize)

=============================================================================
