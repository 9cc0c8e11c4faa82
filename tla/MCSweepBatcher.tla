--------------------------- MODULE MCSweepBatcher ---------------------------
EXTENDS SweepBatcher

CONSTANTS s1, s2, s3

\* Neighbours are within the distance, the outer two are not.
MCTimeout == [s \in Sweeps |-> IF s = s1 THEN 0 ELSE IF s = s2 THEN 4 ELSE 8]

=============================================================================
