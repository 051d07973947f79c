--------------------------------- MODULE MCHeap --------------------------------
(* Instances of Heap for TLC.                                                *)
EXTENDS Heap, TLC

\* sizeof(EHEAP_GUARD_TABLE), and the size of GuardEntries pointers.
GuardSizes == <<8, 4 * GuardEntries>>

Symmetry == Permutations(Threads)
=============================================================================
