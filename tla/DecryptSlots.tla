---------------------------- MODULE DecryptSlots ----------------------------
(***************************************************************************)
(* What rsa.h promises its callers: a fixed number of slots, each of which *)
(* is free, busy with one message, or holds that message's plain text.     *)
(* Slots do not disturb each other: a finished slot holds the decryption   *)
(* of the message it was started with, whatever the others did meanwhile.  *)
(* RsaSlots implements this; TlsServer is built on it.                     *)
(***************************************************************************)
EXTENDS Integers

CONSTANTS
  MaxCount,   \* number of slots, at least one: MAX_COUNT, rsa.c line 34
  Messages,   \* the cipher texts that may be decrypted
  Plain       \* function: the plain text of each message

Slot == 0 .. MaxCount - 1

VARIABLE job  \* what each slot is doing

Free == [state |-> "free"]
Busy(c) == [state |-> "busy", message |-> c]
Done(c, r) == [state |-> "done", message |-> c, result |-> r]

Jobs == {Free} \cup {Busy(c) : c \in Messages}
               \cup {Done(c, Plain[c]) : c \in Messages}

InState(j, state) == {s \in Slot : j[s].state = state}
IsFirst(s, S) == s \in S /\ \A t \in S : s <= t

(***************************************************************************)
(* The slot a start takes: the first free one, or else the first that is   *)
(* done - its result cleared by nobody, or not collected yet.  There may   *)
(* be none: the start then fails.                                          *)
(***************************************************************************)
Takes(j, s) ==
  \/ IsFirst(s, InState(j, "free"))
  \/ InState(j, "free") = {} /\ IsFirst(s, InState(j, "done"))

Init == job = [s \in Slot |-> Free]

Start(c) ==
  \E s \in Slot : Takes(job, s) /\ job' = [job EXCEPT ![s] = Busy(c)]

\* The engine finishes any one of the busy slots.
Finish(s) ==
  /\ job[s].state = "busy"
  /\ job' = [job EXCEPT ![s] = Done(job[s].message, Plain[job[s].message])]

Clear(s) ==
  /\ job[s].state = "done"
  /\ job' = [job EXCEPT ![s] = Free]

Next ==
  \/ \E c \in Messages : Start(c)
  \/ \E s \in Slot : Finish(s)
  \/ \E s \in Slot : Clear(s)

Spec == Init /\ [][Next]_job

=============================================================================
