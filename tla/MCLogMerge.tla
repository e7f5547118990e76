----------------------------- MODULE MCLogMerge -----------------------------
EXTENDS LogMerge

MCKeys == 1 .. 7
MCValues == {1, 2}
=============================================================================
