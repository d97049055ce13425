------------------------------ MODULE MCWizSched ------------------------------
(***************************************************************************)
(* WizDays for TLC: a day of eight parts, in which local time is one ahead *)
(* in summer.                                                              *)
(***************************************************************************)
EXTENDS WizDays

MCEvents ==
  {[datum |-> "L", minutes |-> 0], [datum |-> "R", minutes |-> 1],
   [datum |-> "S", minutes |-> 2]}

MCBehind ==
  {[name |-> Everyone, on |-> [datum |-> "L", minutes |-> 0],
    off |-> [datum |-> "R", minutes |-> 1]]}

MCSuns == {[sunrise |-> 2, sunset |-> 5], [sunrise |-> 1, sunset |-> 6]}

=============================================================================
