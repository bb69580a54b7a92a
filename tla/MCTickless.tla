------------------------------ MODULE MCTickless ------------------------------
\* Small instances of Tickless for TLC: two frequencies, scaled tick periods.
EXTENDS Tickless
CONSTANTS slow, fast  \* the frequencies of Levels
=============================================================================
