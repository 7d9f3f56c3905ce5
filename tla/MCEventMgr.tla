----------------------------- MODULE MCEventMgr -----------------------------
EXTENDS EventMgr

CONSTANTS d, b, e1

\* Both registrations are for the one source; the best-effort one filters.
OneSource == [s \in Sub |-> Event]
Filtered  == [s \in Sub |-> IF s = b THEN {e1} ELSE Event]
=============================================================================
