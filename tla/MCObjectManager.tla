---------------------------- MODULE MCObjectManager ----------------------------
(* Instances of ObjectManager for TLC.                                       *)
EXTENDS ObjectManager, TLC

CONSTANTS a, b

\* A name in the root directory; and one below it.
RootPaths == {<<a>>, <<b>>}
NestedPaths == {<<a>>, <<a, b>>}

\* Bounds of the main run: an object is inserted where a path of NestedPaths finds it,
\* and threads keep either references of lookups, one thread at a time, or a handle.
Reachable == \A o \in Objects : parent[o] # NoObject => (name[o] = a <=> parent[o] = Root)
KeptFew ==
    /\ \/ \A h \in Handles : table[h] = NoObject
       \/ \A t \in Threads, o \in Objects : owned[t][o] = 0
    /\ \A t, u \in Threads, o, p \in Objects : owned[t][o] > 0 /\ owned[u][p] > 0 => t = u

\* Addresses, threads and table entries are interchangeable.
Symmetry == Permutations(Objects) \cup Permutations(Threads) \cup Permutations(Handles)
=============================================================================
