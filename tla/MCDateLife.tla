----------------------------- MODULE MCDateLife -----------------------------
EXTENDS DateLife
CONSTANT f1

\* the file is one of the second date
MCDay == [f \in Files |-> 2]
=============================================================================
