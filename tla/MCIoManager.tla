----------------------------- MODULE MCIoManager ------------------------------
(* Instances of IoManager for TLC.                                           *)
EXTENDS IoManager

Symmetry == Permutations(Files) \cup Permutations(Volumes)
=============================================================================
