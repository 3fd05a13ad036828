----------------------------- MODULE MCIOManager -----------------------------
(***************************************************************************)
(* IOManager for TLC.                                                      *)
(***************************************************************************)
EXTENDS IOManager, TLC

(* The threads in idle() are interchangeable.  Sound for safety properties.*)
IdlerSymmetry == Permutations(Idlers)

=============================================================================
