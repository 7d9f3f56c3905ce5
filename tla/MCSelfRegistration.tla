------------------------- MODULE MCSelfRegistration -------------------------
EXTENDS SelfRegistration
=============================================================================
