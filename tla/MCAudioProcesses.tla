------------------------- MODULE MCAudioProcesses -------------------------
EXTENDS AudioProcesses

CONSTANTS p1, p2, p3
ThreePids == {p1, p2, p3}
=============================================================================
