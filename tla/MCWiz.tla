-------------------------------- MODULE MCWiz --------------------------------
(***************************************************************************)
(* WizLights for TLC.  Where every light can be reached, lights and        *)
(* switches are interchangeable.                                           *)
(***************************************************************************)
EXTENDS WizLights, TLC

Interchangeable == Permutations(Macs) \cup Permutations(Switches)

=============================================================================
