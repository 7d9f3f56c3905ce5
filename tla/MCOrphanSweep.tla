--------------------------- MODULE MCOrphanSweep ---------------------------
\* The instances that TLC checks: the configurations give the constants.
EXTENDS OrphanSweep, TLC
=============================================================================
