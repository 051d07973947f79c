-------------------------------- MODULE MCIde ---------------------------------
(* An instance of Ide for TLC.                                               *)
EXTENDS Ide

CONSTANTS hdb, hdc, hdb0

\* The slave of the first channel and the master of the second.
TwoChannels == [d \in {hdb, hdc} |-> IF d = hdb THEN [channel |-> 0, device |-> 1]
                                                ELSE [channel |-> 1, device |-> 0]]

\* At most one drive sleeps or has failed, and one channel has an interrupt pending.
OneAtATime ==
    /\ Cardinality({d \in Drives : drive[d].state \in {"asleep", "error"}}) < 2
    /\ Cardinality({c \in Channels : irq[c]}) < 2

OnePartition == [p \in {hdb0} |-> [disk |-> hdb, start |-> 1]]
=============================================================================
