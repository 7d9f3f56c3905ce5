------------------------------ MODULE Enlister ------------------------------
(***************************************************************************)
(* RemoteTxnEnlister (coordin8-bootstrap): the client of the TransactionMgr*)
(* that Space caches, discovers through the Registry when it has none, and *)
(* discovers again, once per call, after a transport failure.              *)
(*                                                                         *)
(* The TransactionMgr runs at one address at a time; the Registry may list *)
(* an earlier one, which nobody answers any more.                          *)
(***************************************************************************)
EXTENDS Naturals, FiniteSets

CONSTANTS
    Enlist,      \* enlist calls
    MaxMove,     \* bound: moves of the TransactionMgr
    MaxDrop      \* bound: requests that fail, or whose answer is lost

ASSUME EnlisterAssumption == MaxMove \in Nat /\ MaxDrop \in Nat

NoClient == 0

VARIABLES
    live,        \* the address the TransactionMgr runs at: 1, 2, ...
    entry,       \* the address the Registry lists
    cached,      \* the client of the enlister: an address, or NoClient
    enlist,      \* each call: its step, the client it uses, its answer
    recorded,    \* (history) for each call, the Enlists the TransactionMgr did
    dropped      \* (history) requests that failed though it was there

enlisterVars == <<live, entry, cached, enlist, recorded, dropped>>

EnlisterInit ==
    /\ live = 1 /\ entry = 1 /\ cached = NoClient /\ dropped = 0
    /\ enlist = [q \in Enlist |-> [pc |-> "idle", client |-> NoClient, ans |-> "none"]]
    /\ recorded = [q \in Enlist |-> 0]

\* The TransactionMgr restarts elsewhere, and registers there.
Move ==
    /\ live <= MaxMove /\ live' = live + 1
    /\ UNCHANGED <<entry, cached, enlist, recorded, dropped>>

Relist ==
    /\ entry # live /\ entry' = live
    /\ UNCHANGED <<live, cached, enlist, recorded, dropped>>

\* ensure_client: the cached client, or a discovery.
ensure_client(q) ==
    /\ enlist[q].pc = "idle"
    /\ enlist' = [enlist EXCEPT ![q].pc = IF cached = NoClient THEN "discover" ELSE "call",
                                ![q].client = cached]
    /\ UNCHANGED <<live, entry, cached, recorded, dropped>>

\* A lookup and a dial: they succeed when the address listed is the live one ...
discover_service_channel == entry = live

\* ... and are retried until they do (retry_forever).
discover_txn_mgr(q) ==
    /\ enlist[q].pc \in {"discover", "rediscover"} /\ discover_service_channel
    /\ enlist' = [enlist EXCEPT ![q].client = entry,
                     ![q].pc = IF @ = "discover" THEN "cache" ELSE "recache"]
    /\ UNCHANGED <<live, entry, cached, recorded, dropped>>

\* The client is cached under the lock, over what others cached meanwhile.
CacheClient(q) ==
    /\ enlist[q].pc \in {"cache", "recache"} /\ cached' = enlist[q].client
    /\ enlist' = [enlist EXCEPT ![q].pc = IF @ = "cache" THEN "call" ELSE "second"]
    /\ UNCHANGED <<live, entry, recorded, dropped>>

Answered(q, a) == enlist' = [enlist EXCEPT ![q].pc = "done", ![q].ans = a]

\* Mutant: a failed call is tried again with the cached client.
TransportFailsCached(q) ==
    IF enlist[q].pc = "call" THEN enlist' = [enlist EXCEPT ![q].pc = "second", ![q].client = cached]
    ELSE Answered(q, "failed")

\* A transport failure: the first is followed by a rediscovery, the second is
\* the answer.
TransportFails(q) ==
    IF enlist[q].pc = "call" THEN enlist' = [enlist EXCEPT ![q].pc = "rediscover"]
    ELSE Answered(q, "failed")

\* The Enlist request: done and answered, refused (the transaction has ended), done
\* or not done without an answer, or sent where nobody answers.
EnlistCall(q) ==
    /\ enlist[q].pc \in {"call", "second"}
    /\ \/ /\ enlist[q].client = live /\ recorded' = [recorded EXCEPT ![q] = @ + 1]
          /\ Answered(q, "ok") /\ UNCHANGED dropped
       \/ /\ enlist[q].client = live
          /\ Answered(q, "refused") /\ UNCHANGED <<recorded, dropped>>
       \/ /\ enlist[q].client = live /\ dropped < MaxDrop /\ dropped' = dropped + 1
          /\ \E n \in {0, 1} : recorded' = [recorded EXCEPT ![q] = @ + n]
          /\ TransportFails(q)
       \/ /\ enlist[q].client # live
          /\ TransportFails(q) /\ UNCHANGED <<recorded, dropped>>
    /\ UNCHANGED <<live, entry, cached>>

EnlisterNext ==
    \/ Move \/ Relist
    \/ \E q \in Enlist : ensure_client(q) \/ discover_txn_mgr(q) \/ CacheClient(q) \/ EnlistCall(q)

EnlisterTypeOK ==
    /\ {live, entry} \subseteq 1..(MaxMove + 1) /\ cached \in 0..(MaxMove + 1)
    /\ enlist \in [Enlist -> [pc : {"idle", "discover", "cache", "call", "rediscover", "recache",
                                    "second", "done"},
                              client : 0..(MaxMove + 1), ans : {"none", "ok", "refused", "failed"}]]
    /\ recorded \in [Enlist -> 0..2]

\* An enlist that returned OK is with the TransactionMgr, and one move of it, or
\* one dropped request, fails no enlist, whatever client other calls have cached
\* meanwhile (enlist, rediscover).
OneMoveIsAbsorbed ==
    \A q \in Enlist : /\ enlist[q].ans = "ok" => recorded[q] > 0
                      /\ (live - 1) + dropped <= 1 => enlist[q].ans # "failed"
=============================================================================
