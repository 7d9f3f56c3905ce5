--------------------------- MODULE MCLeaseManager ---------------------------
\* The instances that TLC checks: the configurations give the constants.
EXTENDS LeaseManager, TLC
=============================================================================
