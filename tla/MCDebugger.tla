------------------------------ MODULE MCDebugger ------------------------------
(* Instances of Debugger for TLC: the bounds are in the .cfg files.          *)
EXTENDS Debugger
=============================================================================
