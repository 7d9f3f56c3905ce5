------------------------------ MODULE MCProxy ------------------------------
EXTENDS Proxy
=============================================================================
