------------------------------ MODULE Services ------------------------------
(***************************************************************************)
(* Parts of services that share no state: the DynamoDB stores of tuples,   *)
(* of leases and of transactions, the streams of changes, the remote       *)
(* enlister, and the process from boot to shutdown.  Each has tables,      *)
(* channels or clients of its own, so a behaviour is that of one of them.  *)
(***************************************************************************)
EXTENDS DynamoSpace, DynamoLease, DynamoTxn, WatchStream, Enlister, Lifecycle

VARIABLE service

vars == <<service, spaceVars, leaseVars, txnVars, watchVars, enlisterVars, lifeVars>>

\* A part that is not running stays in one initial state.
Init ==
    /\ SpaceInit /\ LeaseInit /\ TxnInit /\ WatchInit /\ EnlisterInit /\ LifeInit
    /\ \/ service \in {"space", "lease", "txn", "enlister"} /\ IsRegistry /\ bundled
       \/ service = "stream" /\ memory /\ bundled
       \/ service = "row" /\ on = "appearance" /\ bundled
       \/ service = "process" /\ IsRegistry

Next ==
    /\ UNCHANGED service
    /\ \/ service = "space" /\ SpaceNext /\ UNCHANGED <<leaseVars, txnVars, watchVars, enlisterVars, lifeVars>>
       \/ service = "lease" /\ LeaseNext /\ UNCHANGED <<spaceVars, txnVars, watchVars, enlisterVars, lifeVars>>
       \/ service = "txn" /\ TxnNext /\ UNCHANGED <<spaceVars, leaseVars, watchVars, enlisterVars, lifeVars>>
       \/ service = "stream" /\ StreamNext /\ UNCHANGED <<spaceVars, leaseVars, txnVars, enlisterVars, lifeVars>>
       \/ service = "row" /\ RowNext /\ UNCHANGED <<spaceVars, leaseVars, txnVars, enlisterVars, lifeVars>>
       \/ service = "enlister" /\ EnlisterNext /\ UNCHANGED <<spaceVars, leaseVars, txnVars, watchVars, lifeVars>>
       \/ service = "process" /\ LifeNext /\ UNCHANGED <<spaceVars, leaseVars, txnVars, watchVars, enlisterVars>>

Spec == Init /\ [][Next]_vars

TypeOK == SpaceTypeOK /\ LeaseTypeOK /\ TxnTypeOK /\ WatchTypeOK /\ EnlisterTypeOK /\ LifeTypeOK
=============================================================================
