--------------------------- MODULE ServicesProofs ---------------------------
(***************************************************************************)
(* The safety of the parts of Services, for every number of calls, leases, *)
(* participants and moves.  A theorem about one part is about the          *)
(* specification of them all: the others' steps leave it alone.  The proofs of *)
(* the tuple space and of the streams are in StoreProofs and LeaseWatchProofs. *)
(***************************************************************************)
EXTENDS Services, TLAPS

\* Most steps are first-order; those that count or update records cite SMT.
USE Zenon

-----------------------------------------------------------------------------
(***************************************************************************)
(* All the parts together.                                                 *)
(***************************************************************************)

\* A step of Services is a step of each part, or leaves the part alone.
LEMMA PartsStep ==
    ASSUME [Next]_vars
    PROVE  /\ SpaceNext \/ UNCHANGED spaceVars
           /\ LeaseNext \/ UNCHANGED leaseVars
           /\ TxnNext \/ UNCHANGED txnVars
           /\ StreamNext \/ RowNext \/ UNCHANGED watchVars
           /\ EnlisterNext \/ UNCHANGED enlisterVars
           /\ LifeNext \/ UNCHANGED lifeVars
    <1>1. CASE Next
        BY <1>1, Zenon DEF Next
    <1>2. CASE UNCHANGED vars
        BY <1>2, Zenon DEF vars
    <1> QED BY <1>1, <1>2

\* What is proved of the tuple space (StoreProofs) and of the streams
\* (LeaseWatchProofs) on their own holds of every behaviour of Services.
THEOREM PartsAreImplemented == Spec => SpaceSpec /\ WatchSpec
    <1>1. Init => SpaceInit /\ WatchInit
        BY DEF Init
    <1>2. [Next]_vars => [SpaceNext]_spaceVars /\ [StreamNext \/ RowNext]_watchVars
        BY PartsStep
    <1> QED BY <1>1, <1>2, PTL DEF Spec, SpaceSpec, WatchSpec

-----------------------------------------------------------------------------
(***************************************************************************)
(* The transaction table.                                                  *)
(***************************************************************************)

\* Nobody has claimed a record that is Active, and everyone enlisted is in it;
\* one call has claimed any other, and its participants were frozen then.
TxnInv ==
    /\ state \in {"none", "Active"} => claims = 0 /\ participants = enlisted
    /\ state \notin {"none", "Active"} =>
          claims = 1 /\ participants = frozen /\ enlisted = frozen

\* The steps of Enlist, Commit and Abort keep it: the CAS of update_state_if
\* and the condition of add_participant are on the same attribute.
LEMMA TxnStep ==
    ASSUME TxnInv, TxnNext
    PROVE  TxnInv'
    <1>1. CASE create_txn
        BY <1>1 DEF create_txn, TxnInv
    <1>2. CASE TxnSettle
        BY <1>2 DEF TxnSettle, TxnInv
    <1>3. ASSUME NEW p \in Participant, add_participant(p) PROVE TxnInv'
        BY <1>3 DEF add_participant, TxnInv
    <1>4. ASSUME NEW c \in Ender, NEW new \in {"Voting", "Aborted"}, update_state_if(c, new)
          PROVE  TxnInv'
        BY <1>4, SMT DEF update_state_if, TxnInv
    <1>5. ASSUME NEW c \in Ender, Fetch(c) PROVE TxnInv'
        BY <1>5 DEF Fetch, TxnInv
    <1>6. ASSUME NEW c \in Ender, Decide(c) \/ Complete(c) PROVE TxnInv'
        <2>1. /\ state \notin {"none", "Active"} /\ state' \notin {"none", "Active"}
              /\ UNCHANGED <<participants, enlisted, frozen, claims>>
            BY <1>6 DEF Decide, Complete, Moves
        <2> QED BY <2>1 DEF TxnInv
    <1> QED BY <1>1, <1>2, <1>3, <1>4, <1>5, <1>6 DEF TxnNext

-----------------------------------------------------------------------------
(***************************************************************************)
(* The lease table.                                                        *)
(***************************************************************************)

\* The times are numbers, and no renewal writes time 0.
LeaseTimes ==
    /\ now \in Nat /\ row \in Nat /\ was \in Nat /\ listed \in Nat /\ told \in Nat
    /\ renew \in [Renewer -> [pc : {"idle", "again", "update"}, until : Nat]]
    /\ \A r \in Renewer : renew[r].pc = "update" => renew[r].until > 0

\* The row that is there is the one the holder was told of last; what the
\* reaper has listed had expired; nothing is seen, cancelled or announced
\* before there was a lease.
LeaseInv ==
    /\ LeaseTimes
    /\ row # 0 => row = told
    /\ listed <= now
    /\ (was # 0 \/ listed # 0 \/ cancelled \/ announced \/ canceller.pc # "idle") => told # 0
    /\ canceller \in [pc : {"idle", "delete"}, saw : BOOLEAN]
    /\ TermIsKept /\ GoneIsFinal

\* A renewal, whatever stale row it has read, writes only over a row.
LEMMA RenewStep ==
    ASSUME LeaseInv, NEW r \in Renewer, RenewGet(r) \/ RenewRefused(r) \/ RenewUpdate(r)
    PROVE  LeaseInv'
    <1> USE DynamoLeaseAssumption DEF LeaseInv, LeaseTimes, TermIsKept, GoneIsFinal
    <1>1. CASE RenewGet(r)
        <2>0. CASE renew' = [renew EXCEPT ![r].pc = "again"]
            <3>1. renew[r] \in [pc : {"idle", "again", "update"}, until : Nat]
                OBVIOUS
            <3>2. /\ [renew[r] EXCEPT !.pc = "again"] \in [pc : {"idle", "again", "update"}, until : Nat]
                  /\ [renew[r] EXCEPT !.pc = "again"].pc = "again"
                BY <3>1
            <3> QED BY <1>1, <2>0, <3>2 DEF RenewGet
        <2>1. CASE renew' = [renew EXCEPT ![r] = [pc |-> "update", until |-> now + Term]]
            <3>1. now + Term \in Nat /\ now + Term > 0
                BY SMT
            <3> DEFINE k == [pc |-> "update", until |-> now + Term]
            <3>2. k \in [pc : {"idle", "again", "update"}, until : Nat] /\ k.until > 0
                BY <3>1
            <3>3. /\ renew' \in [Renewer -> [pc : {"idle", "again", "update"}, until : Nat]]
                  /\ renew'[r] = k /\ \A q \in Renewer \ {r} : renew'[q] = renew[q]
                BY <2>1, <3>2
            <3> HIDE DEF k
            <3> QED BY <1>1, <3>2, <3>3 DEF RenewGet
        <2> QED BY <1>1, <2>0, <2>1 DEF RenewGet
    <1>2. CASE RenewRefused(r)
        <2>1. /\ renew' \in [Renewer -> [pc : {"idle", "again", "update"}, until : Nat]]
              /\ \A q \in Renewer : renew'[q].pc = "update" => renew'[q].until > 0
            BY <1>2 DEF RenewRefused
        <2> QED BY <1>2, <2>1 DEF RenewRefused
    <1>3. CASE RenewUpdate(r)
        <2>1. /\ renew' \in [Renewer -> [pc : {"idle", "again", "update"}, until : Nat]]
              /\ \A q \in Renewer : renew'[q].pc = "update" => renew'[q].until > 0
            BY <1>3 DEF RenewUpdate
        <2>2. /\ renew[r].until \in Nat \ {0} /\ row' = renew[r].until /\ told' = row'
              /\ was' \in {row, was, row'} /\ row # 0
              /\ UNCHANGED <<now, canceller, listed, cancelled, announced>>
            BY <1>3, SMT DEF RenewUpdate, Put
        <2>3. ~cancelled /\ ~announced
            BY <2>2
        <2> QED BY <2>1, <2>2, <2>3
    <1> QED BY <1>1, <1>2, <1>3

\* The steps of the lease table keep it: a row is removed by a cancel, or when
\* its expiry is the one that was listed as past.
LEMMA LeaseStep ==
    ASSUME LeaseInv, LeaseNext
    PROVE  LeaseInv'
    <1> USE DynamoLeaseAssumption DEF LeaseInv, LeaseTimes, TermIsKept, GoneIsFinal
    <1>1. CASE Tick
        BY <1>1, SMT DEF Tick
    <1>2. CASE LeaseSettle
        BY <1>2 DEF LeaseSettle
    <1>3. CASE create
        <2>1. row = 0 /\ was = 0 /\ listed = 0 /\ ~cancelled /\ ~announced /\ canceller.pc = "idle"
            BY <1>3 DEF create
        <2>2. /\ row' = now + Term /\ told' = now + Term /\ was' \in {row, was, row'}
              /\ UNCHANGED <<now, renew, canceller, listed, cancelled, announced>>
            BY <1>3 DEF create, Put
        <2> QED BY <2>1, <2>2, SMT
    <1>4. CASE CancelGet
        BY <1>4, SMT DEF CancelGet
    <1>5. CASE cancel
        BY <1>5, SMT DEF cancel, Put
    <1>6. CASE list_expired
        BY <1>6 DEF list_expired
    <1>7. CASE remove_if_unchanged
        <2>1. CASE row = listed
            BY <1>7, <2>1, SMT DEF remove_if_unchanged, Put
        <2>2. CASE row # listed
            BY <1>7, <2>2, SMT DEF remove_if_unchanged
        <2> QED BY <2>1, <2>2
    <1>8. ASSUME NEW r \in Renewer, RenewGet(r) \/ RenewRefused(r) \/ RenewUpdate(r)
          PROVE  LeaseInv'
        BY <1>8, RenewStep
    <1> QED BY <1>1, <1>2, <1>3, <1>4, <1>5, <1>6, <1>7, <1>8 DEF LeaseNext

-----------------------------------------------------------------------------
(***************************************************************************)
(* The remote enlister.                                                    *)
(***************************************************************************)

EnlistCalls == [pc : {"idle", "discover", "cache", "call", "rediscover", "recache", "second", "done"},
                client : Nat, ans : {"none", "ok", "refused", "failed"}]

\* No address is later than the live one. A call that discovers again has met
\* a move or a drop (the first transport failure); the client it then uses is
\* the live one of that time, and so is not what failed before.
CallInv(q) ==
    /\ enlist[q].client \in 0 .. live
    /\ enlist[q].pc \in {"call", "cache", "recache", "second"} => enlist[q].client > 0
    /\ enlist[q].pc = "rediscover" => live + dropped >= 2
    /\ enlist[q].pc \in {"recache", "second"} => enlist[q].client + dropped >= 2
    /\ enlist[q].ans = "ok" => recorded[q] > 0
    /\ enlist[q].ans = "failed" => live + dropped >= 3

EnlisterInv ==
    /\ live \in Nat \ {0} /\ entry \in Nat \ {0} /\ cached \in Nat /\ dropped \in Nat
    /\ entry <= live /\ cached <= live
    /\ enlist \in [Enlist -> EnlistCalls] /\ recorded \in [Enlist -> Nat]
    /\ \A q \in Enlist : CallInv(q)

\* Moves and drops are counted together, and both counts only grow.
LEMMA SumGrows ==
    ASSUME NEW a \in Nat, NEW b \in Nat, NEW c \in Nat, NEW d \in Nat, NEW n \in Nat,
           c >= a, d >= b, a + b >= n
    PROVE  c + d >= n
    BY SMT

\* What a failure adds to them: something happened since the client was found.
LEMMA FailureCounts ==
    ASSUME NEW a \in Nat, NEW b \in Nat, NEW c \in Nat, NEW d \in Nat, c > 0, a + d > c + b
    PROVE  a + d >= 2
    BY SMT

\* A call that does not move keeps what is true of it, since moves, drops and
\* Enlists done are only ever added.
LEMMA CallStays ==
    ASSUME EnlisterInv, NEW q \in Enlist, enlist'[q] = enlist[q],
           live' \in Nat, live' >= live, dropped' \in Nat, dropped' >= dropped,
           recorded'[q] \in Nat, recorded'[q] >= recorded[q]
    PROVE  CallInv(q)'
    <1>1. /\ CallInv(q) /\ live \in Nat \ {0} /\ dropped \in Nat /\ recorded[q] \in Nat
        BY DEF EnlisterInv
    <1> DEFINE k == enlist[q]
    <1>0. k.client \in 0 .. live
        BY <1>1 DEF CallInv
    <1>2. k.client \in Nat /\ k.client <= live
        BY <1>0, <1>1, SMT
    <1>3. enlist'[q].client \in 0 .. live'
        BY <1>1, <1>2, SMT
    <1>4. enlist'[q].pc \in {"call", "cache", "recache", "second"} => enlist'[q].client > 0
        BY <1>1 DEF CallInv
    <1>5. enlist'[q].pc = "rediscover" => live' + dropped' >= 2
        <2>1. k.pc = "rediscover" => live + dropped >= 2
            BY <1>1 DEF CallInv
        <2>2. live + dropped >= 2 => live' + dropped' >= 2
            BY <1>1, SumGrows
        <2> QED BY <2>1, <2>2
    <1>6. enlist'[q].pc \in {"recache", "second"} => enlist'[q].client + dropped' >= 2
        <2>1. k.pc \in {"recache", "second"} => k.client + dropped >= 2
            BY <1>1 DEF CallInv
        <2> QED BY <1>1, <1>2, <2>1, SMT
    <1>7. enlist'[q].ans = "ok" => recorded'[q] > 0
        BY <1>1, SMT DEF CallInv
    <1>8. enlist'[q].ans = "failed" => live' + dropped' >= 3
        <2>1. k.ans = "failed" => live + dropped >= 3
            BY <1>1 DEF CallInv
        <2>2. live + dropped >= 3 => live' + dropped' >= 3
            BY <1>1, SumGrows
        <2> QED BY <2>1, <2>2
    <1> QED BY <1>3, <1>4, <1>5, <1>6, <1>7, <1>8 DEF CallInv

\* A transport failure: the second of a call needs a second move or drop.
LEMMA FailureStep ==
    ASSUME EnlisterInv, NEW q \in Enlist, TransportFails(q), enlist[q].pc \in {"call", "second"},
           UNCHANGED <<live, entry, cached>>,
           dropped' \in Nat, dropped' >= dropped,
           recorded' \in [Enlist -> Nat], \A r \in Enlist : recorded'[r] >= recorded[r],
           live + dropped' > enlist[q].client + dropped
    PROVE  EnlisterInv'
    <1>1. /\ enlist[q] \in EnlistCalls /\ CallInv(q) /\ enlist \in [Enlist -> EnlistCalls]
          /\ live \in Nat \ {0} /\ dropped \in Nat /\ recorded[q] \in Nat /\ recorded'[q] \in Nat
        BY DEF EnlisterInv
    <1> DEFINE l == IF enlist[q].pc = "call" THEN "rediscover" ELSE "done"
               a == IF enlist[q].pc = "call" THEN enlist[q].ans ELSE "failed"
    <1>2. /\ enlist' \in [Enlist -> EnlistCalls]
          /\ enlist'[q].pc = l /\ enlist'[q].client = enlist[q].client /\ enlist'[q].ans = a
          /\ \A r \in Enlist \ {q} : enlist'[r] = enlist[r]
        BY <1>1, SMT DEF TransportFails, Answered, EnlistCalls
    <1>3. enlist[q].client \in Nat /\ enlist[q].client <= live /\ enlist[q].client > 0
        BY <1>1, SMT DEF CallInv
    <1>4. CallInv(q)'
        <2>1. enlist'[q].client \in 0 .. live'
            BY <1>1, <1>2, <1>3, SMT
        <2>0. live' + dropped' >= 2
            <3>1. live \in Nat /\ dropped \in Nat /\ live' = live
                BY <1>1
            <3> QED BY <1>3, <3>1, FailureCounts
        <2>2. enlist'[q].pc \notin {"call", "cache", "recache", "second"}
            BY <1>2
        <2>3. enlist'[q].ans = "ok" => recorded'[q] > 0
            BY <1>1, <1>2, SMT DEF CallInv
        <2>4. enlist'[q].ans = "failed" => live' + dropped' >= 3
            <3>1. CASE enlist[q].pc = "call"
                <4>1. enlist[q].ans = "failed" => live + dropped >= 3
                    BY <1>1 DEF CallInv
                <4>2. live + dropped >= 3 => live + dropped' >= 3
                    <5>1. live \in Nat /\ dropped \in Nat
                        BY <1>1
                    <5>2. live >= live /\ 3 \in Nat
                        BY <5>1, SMT
                    <5> QED BY <5>1, <5>2, SumGrows
                <4> QED BY <1>2, <3>1, <4>1, <4>2
            <3>2. CASE enlist[q].pc = "second"
                <4>1. enlist[q].client + dropped >= 2
                    BY <1>1, <3>2 DEF CallInv
                <4> QED BY <1>1, <1>3, <4>1, SMT
            <3> QED BY <3>1, <3>2
        <2> QED BY <2>0, <2>1, <2>2, <2>3, <2>4 DEF CallInv
    <1>5. \A r \in Enlist \ {q} : CallInv(r)'
        BY <1>1, <1>2, CallStays, SMT
    <1> QED BY <1>2, <1>4, <1>5 DEF EnlisterInv

\* The Enlist request of a call.
LEMMA EnlistCallStep ==
    ASSUME EnlisterInv, NEW q \in Enlist, EnlistCall(q)
    PROVE  EnlisterInv'
    <1> DEFINE k == enlist[q]
    <1>1. /\ k \in EnlistCalls /\ k.pc \in {"call", "second"} /\ k.client > 0 /\ k.client \in 0 .. live
          /\ UNCHANGED <<live, entry, cached>> /\ CallInv(q)
          /\ live \in Nat \ {0} /\ dropped \in Nat /\ recorded \in [Enlist -> Nat]
        BY DEF EnlistCall, EnlisterInv, CallInv
    <1>2. ASSUME NEW a \in {"ok", "refused"}, Answered(q, a), UNCHANGED dropped,
                 recorded' \in [Enlist -> Nat], \A r \in Enlist : recorded'[r] >= recorded[r],
                 a = "ok" => recorded'[q] > 0
          PROVE  EnlisterInv'
        <2>1. /\ enlist' \in [Enlist -> EnlistCalls]
              /\ enlist'[q].pc = "done" /\ enlist'[q].client = k.client /\ enlist'[q].ans = a
              /\ \A r \in Enlist \ {q} : enlist'[r] = enlist[r]
            BY <1>1, <1>2 DEF Answered, EnlistCalls, EnlisterInv
        <2>2. CallInv(q)'
            BY <1>1, <1>2, <2>1 DEF CallInv
        <2>3. live' \in Nat /\ live' >= live /\ dropped' \in Nat /\ dropped' >= dropped
            BY <1>1, <1>2, SMT
        <2>4. \A r \in Enlist \ {q} : CallInv(r)'
            BY <1>2, <2>1, <2>3, CallStays
        <2> QED BY <1>1, <1>2, <2>1, <2>2, <2>4 DEF EnlisterInv
    <1>0. ASSUME NEW n \in {0, 1}, recorded' = [recorded EXCEPT ![q] = @ + n]
          PROVE  /\ recorded' \in [Enlist -> Nat] /\ \A r \in Enlist : recorded'[r] >= recorded[r]
                 /\ n = 1 => recorded'[q] > 0
        <2>1. recorded \in [Enlist -> Nat]
            BY <1>1
        <2> QED BY <1>0, <2>1, SMT
    <1>3. CASE recorded' = [recorded EXCEPT ![q] = @ + 1] /\ Answered(q, "ok") /\ UNCHANGED dropped
        BY <1>0, <1>2, <1>3
    <1>4. CASE Answered(q, "refused") /\ UNCHANGED <<recorded, dropped>>
        <2>1. recorded' \in [Enlist -> Nat] /\ \A r \in Enlist : recorded'[r] >= recorded[r]
            <3>1. recorded \in [Enlist -> Nat] /\ recorded' = recorded
                BY <1>1, <1>4
            <3> QED BY <3>1, SMT
        <2> QED BY <1>2, <1>4, <2>1
    <1>5. CASE /\ k.client = live /\ dropped' = dropped + 1
               /\ \E n \in {0, 1} : recorded' = [recorded EXCEPT ![q] = @ + n]
               /\ TransportFails(q)
        <2>1. recorded' \in [Enlist -> Nat] /\ \A r \in Enlist : recorded'[r] >= recorded[r]
            BY <1>0, <1>5
        <2>2. dropped' \in Nat /\ dropped' >= dropped /\ live + dropped' > k.client + dropped
            BY <1>1, <1>5, SMT
        <2> QED BY <1>1, <1>5, <2>1, <2>2, FailureStep
    <1>6. CASE k.client # live /\ TransportFails(q) /\ UNCHANGED <<recorded, dropped>>
        BY <1>1, <1>6, FailureStep, SMT
    <1> QED BY <1>3, <1>4, <1>5, <1>6 DEF EnlistCall

\* Moves, discoveries and the cache keep it.
LEMMA EnlisterStep ==
    ASSUME EnlisterInv, EnlisterNext
    PROVE  EnlisterInv'
    <1> USE DEF EnlisterInv, CallInv
    <1>1. CASE Move
        <2>1. /\ live' = live + 1 /\ live' \in Nat \ {0} /\ live' >= live /\ entry <= live' /\ cached <= live'
              /\ dropped \in Nat /\ dropped >= dropped /\ \A q \in Enlist : recorded[q] \in Nat /\ recorded[q] >= recorded[q]
            BY <1>1, SMT DEF Move
        <2>2. live' \in Nat
            BY <2>1
        <2>3. \A q \in Enlist : CallInv(q)'
            BY <1>1, <2>1, <2>2, CallStays DEF Move
        <2> QED BY <1>1, <2>1, <2>3 DEF Move
    <1>2. CASE Relist
        BY <1>2, SMT DEF Relist
    <1>3. ASSUME NEW q \in Enlist, ensure_client(q) PROVE EnlisterInv'
        <2> DEFINE l == IF cached = NoClient THEN "discover" ELSE "call"
        <2>1. /\ enlist' \in [Enlist -> EnlistCalls] /\ enlist'[q].pc = l
              /\ enlist'[q].client = cached /\ enlist'[q].ans = enlist[q].ans
              /\ \A r \in Enlist \ {q} : enlist'[r] = enlist[r]
            BY <1>3 DEF ensure_client, EnlistCalls
        <2> QED BY <1>3, <2>1, SMT DEF ensure_client, NoClient
    <1>4. ASSUME NEW q \in Enlist, discover_txn_mgr(q) PROVE EnlisterInv'
        <2> DEFINE l == IF enlist[q].pc = "discover" THEN "cache" ELSE "recache"
        <2>1. /\ enlist' \in [Enlist -> EnlistCalls] /\ enlist'[q].pc = l
              /\ enlist'[q].client = live /\ enlist'[q].ans = enlist[q].ans
              /\ \A r \in Enlist \ {q} : enlist'[r] = enlist[r]
              /\ enlist[q].pc \in {"discover", "rediscover"}
            BY <1>4 DEF discover_txn_mgr, discover_service_channel, EnlistCalls
        <2> QED BY <1>4, <2>1, SMT DEF discover_txn_mgr
    <1>5. ASSUME NEW q \in Enlist, CacheClient(q) PROVE EnlisterInv'
        <2> DEFINE l == IF enlist[q].pc = "cache" THEN "call" ELSE "second"
        <2>1. /\ enlist' \in [Enlist -> EnlistCalls] /\ enlist'[q].pc = l
              /\ enlist'[q].client = enlist[q].client /\ enlist'[q].ans = enlist[q].ans
              /\ \A r \in Enlist \ {q} : enlist'[r] = enlist[r]
              /\ enlist[q].pc \in {"cache", "recache"}
            BY <1>5 DEF CacheClient, EnlistCalls
        <2>2. cached' = enlist[q].client /\ enlist[q].client \in Nat
            BY <1>5 DEF CacheClient, EnlistCalls
        <2> QED BY <1>5, <2>1, <2>2, SMT DEF CacheClient
    <1> QED BY <1>1, <1>2, <1>3, <1>4, <1>5, EnlistCallStep DEF EnlisterNext

-----------------------------------------------------------------------------
(***************************************************************************)
(* The process from boot to its end.                                       *)
(***************************************************************************)

\* The servers drain when no registration is left to cancel.  A request that
\* is not served, or a lease, is that of a task which waits for it or holds
\* it, or is lost; such a task is still to be stopped.
Waits(r) == task[r[1]] = "sent" /\ r[2] = made[r[1]]
Holds(r) == task[r[1]] = "held" /\ r[2] = known[r[1]]
LifeType ==
    /\ left \in Seq(Name) /\ task \in [Name -> {"trying", "sent", "held", "over"}]
    /\ made \in [Name -> Nat] /\ known \in [Name -> Nat]
    /\ asked \subseteq Name \X Nat /\ leased \subseteq Name \X Nat
LifeInv ==
    /\ LifeType
    /\ phase \in {"drain", "clean"} => left = <<>>
    /\ \A r \in asked : Waits(r) \/ r \in lost
    /\ \A r \in leased : Waits(r) \/ Holds(r) \/ r \in lost
    /\ \A s \in Name : task[s] \in {"sent", "held"} => s \in Ours

\* What is left to cancel, but for the first, is left after it.
LEMMA TailKeepsOthers ==
    ASSUME left \in Seq(Name), left # <<>>, left' = Tail(left), NEW s \in Ours, s # Head(left)
    PROVE  s \in Ours'
    <1>1. PICK n \in 1 .. Len(left) : left[n] = s
        BY SMT DEF Ours
    <1>2. n - 1 \in 1 .. Len(Tail(left)) /\ Tail(left)[n - 1] = s
        BY <1>1, SMT
    <1>4. Tail(left) \in Seq(Name)
        BY SMT
    <1>3. n - 1 \in DOMAIN left' /\ left'[n - 1] = s
        BY <1>2, <1>4, SMT
    <1> QED BY <1>3, Zenon DEF Ours

\* A step of one service leaves the requests and leases of the others alone.
LEMMA LifeMove ==
    ASSUME LifeInv, NEW s \in Name, LifeType', Ours' = Ours, s \in Ours, UNCHANGED phase, UNCHANGED left,
           \A n \in Name \ {s} : task'[n] = task[n] /\ made'[n] = made[n] /\ known'[n] = known[n],
           lost \subseteq lost',
           \A r \in asked' : r \in asked \/ r[1] = s,
           \A r \in leased' : r \in leased \/ r[1] = s,
           \A r \in asked' : r[1] = s => Waits(r)' \/ r \in lost',
           \A r \in leased' : r[1] = s => Waits(r)' \/ Holds(r)' \/ r \in lost'
    PROVE  LifeInv'
    <1>1. \A r \in Name \X Nat : r[1] # s => (Waits(r)' <=> Waits(r)) /\ (Holds(r)' <=> Holds(r))
        BY DEF Waits, Holds
    <1>2. \A r \in asked' : Waits(r)' \/ r \in lost'
        BY <1>1 DEF LifeInv, LifeType
    <1>3. \A r \in leased' : Waits(r)' \/ Holds(r)' \/ r \in lost'
        BY <1>1 DEF LifeInv, LifeType
    <1>4. \A n \in Name : task'[n] \in {"sent", "held"} => n \in Ours'
        BY DEF LifeInv
    <1> QED BY <1>2, <1>3, <1>4 DEF LifeInv

\* Requests for a registration, their answers, and renewals.
LEMMA RegisterSteps ==
    ASSUME LifeInv, NEW s \in Name, Register(s) \/ RegisterReturns(s) \/ Reregister(s)
    PROVE  LifeInv'
    <1>1. s \in Ours /\ UNCHANGED <<phase, left>> /\ Ours' = Ours /\ LifeType
        <2>1. s \in Ours /\ UNCHANGED phase /\ UNCHANGED left
            BY DEF Register, RegisterReturns, Reregister
        <2> QED BY <2>1 DEF LifeInv, Ours
    <1>2. \A r \in Name \X Nat : r[1] = s => r = <<s, r[2]>>
        BY SMT
    <1>3. CASE Register(s)
        <2>1. /\ task[s] = "trying" /\ task' = [task EXCEPT ![s] = "sent"] /\ made' = [made EXCEPT ![s] = @ + 1]
              /\ asked' = asked \cup {<<s, made'[s]>>} /\ UNCHANGED <<known, leased, lost>>
            BY <1>3 DEF Register
        <2>2. /\ task' \in [Name -> {"trying", "sent", "held", "over"}] /\ task'[s] = "sent"
              /\ made' \in [Name -> Nat] /\ \A n \in Name \ {s} : task'[n] = task[n] /\ made'[n] = made[n]
            BY <1>1, <2>1, SMT DEF LifeType
        <2>8. <<s, made'[s]>> \in Name \X Nat
            BY <2>2, SMT
        <2>3. LifeType'
            BY <1>1, <2>1, <2>2, <2>8 DEF LifeType
        <2>4. \A r \in asked : r[1] = s => r \in lost
            BY <2>1 DEF LifeInv, Waits
        <2>5. \A r \in leased : r[1] = s => r \in lost
            BY <2>1 DEF LifeInv, Waits, Holds
        <2>6. \A r \in asked' : r \in asked \/ (r[1] = s /\ r[2] = made'[s])
            BY <2>1, SMT
        <2>7. \A r \in asked' : r[1] = s => Waits(r)' \/ r \in lost'
            BY <2>1, <2>2, <2>4, <2>6 DEF Waits
        <2>9. lost' = lost /\ leased' = leased /\ known' = known
            BY <2>1
        <2> QED BY <1>1, <2>2, <2>3, <2>5, <2>6, <2>7, <2>9, LifeMove
    <1>4. CASE RegisterReturns(s)
        <2> DEFINE r == <<s, made[s]>>
        <2>1. task[s] = "sent" /\ UNCHANGED <<made, asked, leased>>
            BY <1>4 DEF RegisterReturns
        <2>2. \A q \in asked : q[1] = s => q = r \/ q \in lost
            BY <1>1, <1>2, <2>1 DEF LifeInv, LifeType, Waits
        <2>3. \A q \in leased : q[1] = s => q = r \/ q \in lost
            BY <1>1, <1>2, <2>1 DEF LifeInv, LifeType, Waits, Holds
        <2>4. CASE /\ r \in leased \ asked /\ task' = [task EXCEPT ![s] = "held"]
                   /\ known' = [known EXCEPT ![s] = made[s]] /\ UNCHANGED lost
            <3>1. /\ LifeType' /\ task'[s] = "held" /\ known'[s] = made[s]
                  /\ \A n \in Name \ {s} : task'[n] = task[n] /\ known'[n] = known[n]
                BY <1>1, <2>1, <2>4 DEF LifeType
            <3>2. Holds(r)'
                BY <2>1, <3>1 DEF Holds
            <3>3. \A q \in asked' : q[1] = s => q \in lost'
                BY <2>1, <2>2, <2>4
            <3>4. \A q \in leased' : q[1] = s => Holds(q)' \/ q \in lost'
                BY <2>1, <2>3, <2>4, <3>2
            <3> HIDE DEF r
            <3> QED BY <1>1, <2>1, <2>4, <3>1, <3>3, <3>4, LifeMove
        <2>5. CASE task' = [task EXCEPT ![s] = "trying"] /\ lost' = lost \cup {r} /\ UNCHANGED known
            <3>1. LifeType' /\ \A n \in Name \ {s} : task'[n] = task[n]
                BY <1>1, <2>1, <2>5 DEF LifeType
            <3> HIDE DEF r
            <3> QED BY <1>1, <2>1, <2>2, <2>3, <2>5, <3>1, LifeMove
        <2> QED BY <1>4, <2>4, <2>5 DEF RegisterReturns
    <1>5. CASE Reregister(s)
        <2>7. <<s, made[s] + 1>> \in Name \X Nat
            BY <1>1, SMT DEF LifeType
        <2> PICK r \in Name \X Nat : r = <<s, made[s] + 1>>
            BY <2>7
        <2> DEFINE k == <<s, known[s]>>
        <2>1. /\ task[s] = "held" /\ made' = [made EXCEPT ![s] = @ + 1] /\ leased' \in {leased, leased \cup {r}}
              /\ UNCHANGED <<task, asked>>
            BY <1>5 DEF Reregister
        <2>2. /\ made' \in [Name -> Nat] /\ made'[s] = made[s] + 1 /\ \A n \in Name \ {s} : made'[n] = made[n]
              /\ r[1] = s /\ r[2] = made[s] + 1
            BY <1>1, <2>1, SMT DEF LifeType
        <2>3. \A q \in asked : q[1] = s => q \in lost
            BY <2>1 DEF LifeInv, Waits
        <2>4. \A q \in leased : q[1] = s => q = k \/ q \in lost
            BY <1>1, <1>2, <2>1 DEF LifeInv, LifeType, Waits, Holds
        <2>5. \A q \in leased' : q \in leased \/ q = r
            BY <2>1
        <2>6. leased' \subseteq Name \X Nat
            BY <1>1, <2>2, <2>5 DEF LifeType
        <2>8. CASE known' = [known EXCEPT ![s] = made'[s]] /\ lost' = lost \cup {k}
            <3>1. known' \in [Name -> Nat] /\ known'[s] = made[s] + 1 /\ \A n \in Name \ {s} : known'[n] = known[n]
                BY <1>1, <2>2, <2>8 DEF LifeType
            <3>2. Holds(r)'
                BY <2>1, <2>2, <3>1 DEF Holds
            <3>3. LifeType'
                BY <1>1, <2>1, <2>2, <2>6, <3>1 DEF LifeType
            <3> HIDE DEF k
            <3>4. \A q \in leased' : q[1] = s => Holds(q)' \/ q \in lost'
                BY <2>4, <2>5, <2>8, <3>2
            <3> QED BY <1>1, <2>1, <2>2, <2>3, <2>5, <2>8, <3>1, <3>3, <3>4, LifeMove
        <2>9. CASE known' = [known EXCEPT ![s] = 0] /\ lost' = lost \cup {k, r}
            <3>1. known' \in [Name -> Nat] /\ \A n \in Name \ {s} : known'[n] = known[n]
                BY <1>1, <2>9 DEF LifeType
            <3>2. LifeType'
                BY <1>1, <2>1, <2>2, <2>6, <3>1 DEF LifeType
            <3> HIDE DEF k
            <3>3. \A q \in leased' : q[1] = s => q \in lost'
                BY <2>4, <2>5, <2>9
            <3> QED BY <1>1, <2>1, <2>2, <2>3, <2>5, <2>9, <3>1, <3>2, <3>3, LifeMove
        <2> QED BY <1>5, <2>8, <2>9 DEF Reregister
    <1> QED BY <1>3, <1>4, <1>5

\* A registration is cancelled, and lost when it cannot be.
LEMMA DeregisterStep ==
    ASSUME LifeInv, deregister
    PROVE  LifeInv'
    <1> DEFINE h == Head(left)
               k == <<h, known[h]>>
    <1>1. /\ left \in Seq(Name) /\ left # <<>> /\ left' = Tail(left) /\ h \in Name
          /\ task' = [task EXCEPT ![h] = "over"] /\ UNCHANGED <<phase, made, known, asked>> /\ phase = "stop"
        BY SMT DEF deregister, LifeInv, LifeType, ids
    <1>2. left' \in Seq(Name)
        BY <1>1, SMT
    <1>3. RegistryServes
        BY <1>1 DEF RegistryServes
    <1>4. LifeType /\ (\A r \in Name \X Nat : r[1] = h => r = <<h, r[2]>>)
        BY SMT DEF LifeInv
    <1>5. /\ task' \in [Name -> {"trying", "sent", "held", "over"}] /\ task'[h] = "over"
          /\ \A n \in Name \ {h} : task'[n] = task[n]
        BY <1>1, <1>4 DEF LifeType
    <1>6. /\ leased' \subseteq leased /\ lost \subseteq lost'
          /\ task[h] = "held" => k \notin leased' \/ k \in lost'
          /\ task[h] = "sent" => <<h, made[h]>> \in lost'
        <2> HIDE DEF h
        <2>1. \/ task[h] = "held" /\ leased' = leased \ {k} /\ UNCHANGED lost
              \/ task[h] = "held" /\ lost' = lost \cup {k} /\ UNCHANGED leased
              \/ task[h] = "sent" /\ lost' = lost \cup {<<h, made[h]>>} /\ UNCHANGED leased
              \/ task[h] = "trying" /\ UNCHANGED <<leased, lost>>
            BY <1>3 DEF deregister, h
        <2> HIDE DEF k
        <2> QED BY <2>1
    <1>7. LifeType'
        BY <1>1, <1>2, <1>4, <1>5, <1>6 DEF LifeType
    <1>8. \A s \in Name : task'[s] \in {"sent", "held"} => s \in Ours'
        BY <1>1, <1>5, TailKeepsOthers DEF LifeInv
    <1> HIDE DEF h
    <1>9. \A r \in Name \X Nat : r[1] # h => (Waits(r)' <=> Waits(r)) /\ (Holds(r)' <=> Holds(r))
        BY <1>1, <1>5 DEF Waits, Holds
    <1>10. \A r \in asked' : Waits(r)' \/ r \in lost'
        <2> SUFFICES ASSUME NEW r \in asked PROVE Waits(r)' \/ r \in lost'
            BY <1>1
        <2>1. r \in Name \X Nat /\ (Waits(r) \/ r \in lost)
            BY <1>4 DEF LifeInv, LifeType
        <2>2. CASE r[1] = h
            BY <1>4, <1>6, <2>1, <2>2 DEF Waits
        <2>3. CASE r[1] # h
            BY <1>6, <1>9, <2>1, <2>3
        <2> QED BY <2>2, <2>3
    <1>11. \A r \in leased' : Waits(r)' \/ Holds(r)' \/ r \in lost'
        <2> SUFFICES ASSUME NEW r \in leased' PROVE Waits(r)' \/ Holds(r)' \/ r \in lost'
            OBVIOUS
        <2>1. r \in Name \X Nat /\ (Waits(r) \/ Holds(r) \/ r \in lost)
            BY <1>4, <1>6 DEF LifeInv, LifeType
        <2>2. CASE r[1] = h /\ Waits(r)
            BY <1>4, <1>6, <2>1, <2>2 DEF Waits
        <2>3. CASE r[1] = h /\ Holds(r)
            BY <1>4, <1>6, <2>1, <2>3 DEF Holds
        <2>4. CASE r[1] # h \/ r \in lost
            BY <1>6, <1>9, <2>1, <2>4
        <2> QED BY <2>1, <2>2, <2>3, <2>4
    <1> QED BY <1>1, <1>7, <1>8, <1>10, <1>11 DEF LifeInv

\* run_all and serve_split keep it: registrations are cancelled while the
\* Registry serves, before anything drains.
LEMMA LifeStep ==
    ASSUME LifeInv, LifeNext
    PROVE  LifeInv'
    <1>1. CASE \E r \in asked : Grants(r)
        <2>1. PICK r \in asked : Grants(r)
            BY <1>1
        <2>2. /\ asked' \subseteq asked /\ leased' \subseteq leased \cup {r}
              /\ UNCHANGED <<phase, left, task, made, known, lost>>
            BY <2>1 DEF Grants, ids
        <2> QED BY <2>2 DEF LifeInv, LifeType, Waits, Holds, Ours
    <1>2. CASE Discover \/ Request \/ Return \/ Stop \/ Drain \/ Drained \/ Fails
        <2>1. UNCHANGED <<left, task, made, known, asked, leased, lost>>
              /\ (phase' \in {"drain", "clean"} => phase \in {"drain", "clean"} \/ left = <<>>)
            BY <1>2 DEF Discover, Request, Return, Stop, Drain, Drained, Fails, leasing, ids
        <2> QED BY <2>1 DEF LifeInv, LifeType, Waits, Holds, Ours
    <1> QED BY <1>1, <1>2, RegisterSteps, DeregisterStep DEF LifeNext

\* It holds at boot, of either process.
LEMMA LifeBoot == LifeInit => LifeInv
    <1> SUFFICES ASSUME LifeInit PROVE LifeInv
        OBVIOUS
    <1>1. \A n \in 1 .. Len(Registered) : Registered[n] \in Name
        BY LifecycleAssumption, SMT DEF Name
    <1>2. Registered \in Seq(Name)
        BY <1>1, LifecycleAssumption, SMT
    <1>3. "Proxy" \in Name
        BY LifecycleAssumption DEF Name
    <1>4. left \in Seq(Name)
        BY <1>2, <1>3, SMT DEF LifeInit
    <1> QED BY <1>4 DEF LifeInit, LifeInv, LifeType

\* Every lease that is left then is lost.
LEMMA LifeClean == LifeInv => CleanLeavesNothing
    <1> SUFFICES ASSUME LifeInv, phase = "clean", NEW r \in leased PROVE r \in lost
        BY DEF CleanLeavesNothing
    <1>1. Ours = {}
        BY SMT DEF LifeInv, Ours
    <1>2. r[1] \in Name
        BY DEF LifeInv, LifeType
    <1> QED BY <1>1, <1>2 DEF LifeInv, Waits, Holds

-----------------------------------------------------------------------------
(***************************************************************************)
(* The theorems.                                                           *)
(***************************************************************************)
\* The lease table keeps its invariant under renewals, cancels and the reaper.
THEOREM DynamoLeaseSafety == Spec => []LeaseInv
    <1>1. Init => LeaseInv
        BY DynamoLeaseAssumption, SMT DEF Init, LeaseInit, LeaseInv, LeaseTimes, TermIsKept, GoneIsFinal
    <1>2. LeaseInv /\ [Next]_vars => LeaseInv'
        <2> SUFFICES ASSUME LeaseInv, [Next]_vars PROVE LeaseInv'
            OBVIOUS
        <2>1. CASE UNCHANGED leaseVars
            BY <2>1 DEF leaseVars, LeaseInv, LeaseTimes, TermIsKept, GoneIsFinal
        <2> QED BY <2>1, LeaseStep, PartsStep
    <1> QED BY <1>1, <1>2, PTL DEF Spec

\* A lease nobody cancelled keeps its row until the time its holder was last
\* told, however stale the list of the reaper is (remove_if_unchanged).
THEOREM TermIsKeptHolds == Spec => []TermIsKept
    <1>1. LeaseInv => TermIsKept
        BY DEF LeaseInv
    <1> QED BY <1>1, DynamoLeaseSafety, PTL

\* A lease that was cancelled or announced never has a row again: the update of
\* a renewal under way is conditional on the row.
THEOREM GoneIsFinalHolds == Spec => []GoneIsFinal
    <1>1. LeaseInv => GoneIsFinal
        BY DEF LeaseInv
    <1> QED BY <1>1, DynamoLeaseSafety, PTL

\* Over DynamoDB one call alone takes a transaction out of Active, and no Enlist
\* is answered OK afterwards, for any number of concurrent calls and however
\* late the gets are (update_state_if, add_participant).
THEOREM LeftActiveOnceHolds == Spec => []LeftActiveOnce
    <1>1. Init => TxnInv
        BY DEF Init, TxnInit, TxnInv
    <1>2. TxnInv /\ [Next]_vars => TxnInv'
        <2> SUFFICES ASSUME TxnInv, [Next]_vars PROVE TxnInv'
            OBVIOUS
        <2>1. CASE UNCHANGED txnVars
            BY <2>1 DEF txnVars, TxnInv
        <2> QED BY <2>1, TxnStep, PartsStep
    <1>3. TxnInv => LeftActiveOnce
        <2>1. 0 <= 1 /\ 1 <= 1
            BY SMT
        <2> QED BY <2>1 DEF TxnInv, LeftActiveOnce
    <1> QED BY <1>1, <1>2, <1>3, PTL DEF Spec

\* An Enlist that is answered OK is recorded; one fails for a lost TransactionMgr
\* only if more than one move or drop happened (enlist's one retry), for any
\* number of concurrent calls that share the cached client.
THEOREM OneMoveIsAbsorbedHolds == Spec => []OneMoveIsAbsorbed
    <1>1. Init => EnlisterInv
        <2> SUFFICES ASSUME EnlisterInit PROVE EnlisterInv
            BY DEF Init
        <2>1. \A q \in Enlist : /\ enlist[q].pc = "idle" /\ enlist[q].client = 0
                                /\ enlist[q].ans = "none"
            BY DEF EnlisterInit, NoClient
        <2>2. live = 1 /\ entry = 1 /\ cached = 0 /\ dropped = 0
              /\ enlist \in [Enlist -> EnlistCalls] /\ recorded \in [Enlist -> Nat]
            BY DEF EnlisterInit, NoClient, EnlistCalls
        <2> QED BY <2>1, <2>2, SMT DEF EnlisterInv, CallInv
    <1>2. EnlisterInv /\ [Next]_vars => EnlisterInv'
        <2> SUFFICES ASSUME EnlisterInv, [Next]_vars PROVE EnlisterInv'
            OBVIOUS
        <2>1. CASE UNCHANGED enlisterVars
            BY <2>1 DEF enlisterVars, EnlisterInv, CallInv
        <2> QED BY <2>1, EnlisterStep, PartsStep
    <1>3. EnlisterInv => OneMoveIsAbsorbed
        BY SMT DEF EnlisterInv, CallInv, OneMoveIsAbsorbed
    <1> QED BY <1>1, <1>2, <1>3, PTL DEF Spec

\* A process that shut down cleanly leaves no lease of its registrations held
\* but those nobody could cancel: answer lost, task aborted, renewal refused, or
\* cancel failed (run_all, serve_split, Registration::deregister), for any
\* number of services and registrations.
THEOREM CleanLeavesNothingHolds == Spec => []CleanLeavesNothing
    <1>1. Init => LifeInv
        BY LifeBoot DEF Init
    <1>2. LifeInv /\ [Next]_vars => LifeInv'
        <2> SUFFICES ASSUME LifeInv, [Next]_vars PROVE LifeInv'
            OBVIOUS
        <2>1. CASE UNCHANGED lifeVars
            BY <2>1 DEF lifeVars, leasing, ids, LifeInv, LifeType, Waits, Holds, Ours
        <2> QED BY <2>1, LifeStep, PartsStep
    <1> QED BY <1>1, <1>2, LifeClean, PTL DEF Spec
=============================================================================
