------------------------------- MODULE MCDvfs -------------------------------
\* Small task sets for Dvfs, with the levels of the source.
EXTENDS Dvfs

DefaultStages == [l \in 0 .. 7 |-> <<24, 21, 18, 15, 12, 9, 6, 3>>[l + 1]]
PllFactors == [l \in 0 .. 7 |-> <<36, 33, 30, 27, 24, 18, 12, 9>>[l + 1]]
=============================================================================
