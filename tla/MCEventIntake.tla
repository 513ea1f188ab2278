---------------------------- MODULE MCEventIntake ----------------------------
(***************************************************************************)
(* Instances of EventIntake for TLC.                                        *)
(***************************************************************************)
EXTENDS EventIntake, TLC

Workers == Permutations(Worker)
=============================================================================
