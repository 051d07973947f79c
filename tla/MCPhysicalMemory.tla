--------------------------- MODULE MCPhysicalMemory ---------------------------
(* Instances of PhysicalMemory for TLC.                                      *)
EXTENDS PhysicalMemory

\* One area of two pages, and a page after it.
OneArea == [a \in {"Critical"} |-> {1, 2}]

Symmetry == Permutations(Threads) \cup Permutations(Mmds)

\* Bounds of the main run: at most one page is reserved, and the working set grows by
\* one entry.
Few ==
    /\ Cardinality({p \in Pages : ppd.location[p] = "Reserved"}) <= 1
    /\ DOMAIN entries \subseteq {0, 1}

\* Once a mapping has been written over another there is nothing more to learn.
Intact == ~clobbered
=============================================================================
