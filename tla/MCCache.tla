-------------------------------- MODULE MCCache --------------------------------
\* The instance of Cache that TLC checks.
EXTENDS Cache, TLC

Symmetry == Permutations(Values)
=============================================================================
