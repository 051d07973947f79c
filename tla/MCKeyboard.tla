------------------------------ MODULE MCKeyboard ------------------------------
(* An instance of Keyboard for TLC: two threads, which may be exchanged.     *)
EXTENDS Keyboard, TLC

Symmetry == Permutations(Threads)
=============================================================================
