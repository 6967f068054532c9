-------------------------- MODULE MCDurableSchedule --------------------------
EXTENDS DurableSchedule, TLC

CONSTANTS w1, w2

AllTools == [s \in Steps |-> "tool"]
Interchangeable == Permutations(Workers)
=============================================================================
