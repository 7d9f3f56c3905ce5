--------------------------- MODULE MCTxnManager ---------------------------
(* TxnManager on a small instance. *)
EXTENDS TxnManager, TLC

\* Handlers are interchangeable; so are endpoints.
Symmetry == Permutations(Caller) \cup Permutations(Endpoint)
===========================================================================
