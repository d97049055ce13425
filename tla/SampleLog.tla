------------------------------ MODULE SampleLog ------------------------------
(***************************************************************************)
(* What the values logger promises to whoever reads its files: a sample    *)
(* that has been taken waits with those before it, and they are handed     *)
(* over together, once, in the order they were taken.                      *)
(***************************************************************************)
EXTENDS Naturals, Sequences

CONSTANTS Sample,     \* the samples that can be taken
          RecordOf(_) \* the bytes that stand for one

VARIABLES pending,    \* the bytes of the samples not handed over yet
          handed      \* the bytes of the last batch

Init ==
  /\ pending = <<>>
  /\ handed = <<>>

Take(s) ==
  /\ pending' = pending \o RecordOf(s)
  /\ UNCHANGED handed

HandOver ==
  /\ handed' = pending
  /\ pending' = <<>>

Next == HandOver \/ \E s \in Sample : Take(s)

Spec == Init /\ [][Next]_<<pending, handed>>

=============================================================================
