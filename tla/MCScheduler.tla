------------------------------ MODULE MCScheduler ------------------------------
(* Instances of Scheduler for TLC.                                           *)
EXTENDS Scheduler, TLC

\* Threads other than the system thread are interchangeable.
Symmetry == Permutations(Threads \ {SystemThread})
=============================================================================
