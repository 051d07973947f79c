------------------------------- MODULE Allocator -------------------------------
(***************************************************************************)
(* What a heap promises: every region it hands out lies in its memory and  *)
(* overlaps no other region that is still in use.  Which free memory it    *)
(* takes, and when it finds none, is left open.                            *)
(***************************************************************************)
EXTENDS Naturals

CONSTANT Units    \* the size of the memory, a natural number

VARIABLE regions  \* start of a region in use -> its length

Extent(start, length) == start .. start + length - 1
InUse(rs) == UNION {Extent(s, rs[s]) : s \in DOMAIN rs}
Without(s) == [r \in DOMAIN regions \ {s} |-> regions[r]]

\* The regions rs and one more, in memory that none of them uses.
Grant(rs) ==
    LET used == InUse(rs) IN
    \E s \in (0 .. Units - 1) \ used : \E n \in 1 .. Units - s :
        /\ Extent(s, n) \cap used = {}
        /\ regions' = [r \in DOMAIN rs \cup {s} |-> IF r = s THEN n ELSE rs[r]]

Allocate == Grant(regions)
Release  == \E s \in DOMAIN regions : regions' = Without(s)
Resize   == \E s \in DOMAIN regions : Grant(Without(s))

Init == regions = << >>
Next == Allocate \/ Release \/ Resize
Spec == Init /\ [][Next]_regions
=============================================================================
