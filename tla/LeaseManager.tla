---------------------------- MODULE LeaseManager ----------------------------
(***************************************************************************)
(* The lease manager every service embeds (coordin8-lease), over the       *)
(* in-memory lease store: TTL negotiation, grant, renew, cancel and the    *)
(* reaper, with the clock as a variable.                                   *)
(*                                                                         *)
(* An action is the code between two points where another task can act on  *)
(* the store.  The store keeps expires_at and ttl_seconds; the clock never *)
(* steps back.                                                             *)
(***************************************************************************)
EXTENDS Integers

CONSTANTS
    Lease,         \* lease ids; a uuid is never drawn twice
    Caller,        \* renew and cancel calls in flight
    Request,       \* the ttl_seconds clients ask for
    LEASE_FOREVER, \* u64::MAX
    MAX_REPRESENTABLE_TTL_SECS,
    MAX_UTC,       \* the last representable time
    MaxTtl,        \* LeaseConfig.max_ttl, or NoCap
    PreferredTtl,  \* LeaseConfig.preferred_ttl
    MaxTime,       \* bound: the clock
    MaxFailure     \* bound: store errors met by the reaper

LEASE_ANY == 0
NoCap == -1

ASSUME LeaseAssumption ==
    /\ MAX_REPRESENTABLE_TTL_SECS \in Nat
    /\ LEASE_FOREVER \in Nat /\ LEASE_FOREVER > MAX_REPRESENTABLE_TTL_SECS
    /\ MAX_UTC \in Nat /\ MAX_UTC <= LEASE_FOREVER
    /\ MaxTtl \in Nat \cup {NoCap}
    /\ PreferredTtl \in Nat
    /\ Request \subseteq Nat
    /\ MaxTime \in Nat /\ MaxTime < MAX_UTC
    /\ MaxFailure \in Nat

VARIABLES
    now,
    used,       \* ids that were granted
    live,       \* ids in the store
    record,     \* what the store last held under each id
    asked,      \* ids on which cancel was called
    pc,         \* where each call is suspended
    target,     \* the id each call is about
    fresh,      \* the record a renew is about to store
    reaper,     \* where the reaper is: "ticking" or "draining"
    listed,     \* records list_expired returned and drain has not tried
    removed,    \* leases drain_expired removed in this pass
    reclaimed,  \* what was sent on expiry_tx: <<id, reason>>
    failures

store == <<live, record>>
calls == <<pc, target, fresh>>
reap  == <<reaper, listed, removed, failures>>
vars  == <<now, used, live, record, asked, pc, target, fresh,
           reaper, listed, removed, reclaimed, failures>>

Record == [expires_at : Nat, ttl : Nat]
Reason == {"expired", "cancelled"}

-----------------------------------------------------------------------------
\* Mutant: a request above the cap is granted as asked.
UncappedNegotiate(requested) ==
    IF requested = LEASE_ANY THEN PreferredTtl ELSE requested

\* LeaseConfig::negotiate.
negotiate(requested) ==
    IF requested = LEASE_ANY THEN PreferredTtl
    ELSE IF MaxTtl = NoCap
         THEN IF requested > MAX_REPRESENTABLE_TTL_SECS THEN LEASE_FOREVER
              ELSE requested
         ELSE IF requested = LEASE_FOREVER \/ requested > MaxTtl THEN MaxTtl
              ELSE requested

\* expiry_for and checked_expiry: FOREVER is the last time there is, and a
\* time that cannot be represented is refused.
in_range(from, t) == t = LEASE_FOREVER \/ from + t <= MAX_UTC

expiry_for(from, t) == IF t = LEASE_FOREVER THEN MAX_UTC ELSE from + t

\* LeaseRecord::is_expired.
is_expired(r) == r.ttl # LEASE_FOREVER /\ now >= r.expires_at

-----------------------------------------------------------------------------
Init ==
    /\ now = 0
    /\ used = {} /\ live = {} /\ asked = {}
    /\ record = [l \in Lease |-> [expires_at |-> 0, ttl |-> 0]]
    /\ pc = [h \in Caller |-> "idle"]
    /\ target \in [Caller -> Lease]
    /\ fresh = [h \in Caller |-> [expires_at |-> 0, ttl |-> 0]]
    /\ reaper = "ticking" /\ listed = {} /\ removed = {}
    /\ reclaimed = {}
    /\ failures = 0

Tick ==
    /\ now < MaxTime
    /\ now' = now + 1
    /\ UNCHANGED <<used, store, asked, calls, reap, reclaimed>>

Goto(h, l) == pc' = [pc EXCEPT ![h] = l]

\* LeaseManager.grant: negotiate, then LeaseStore.create under a new id.
Grant(l, requested) ==
    LET t == negotiate(requested) IN
    /\ l \notin used
    /\ in_range(now, t)
    /\ used' = used \cup {l}
    /\ live' = live \cup {l}
    /\ record' = [record EXCEPT ![l] = [expires_at |-> expiry_for(now, t), ttl |-> t]]
    /\ UNCHANGED <<now, asked, calls, reap, reclaimed>>

\* LeaseManager.renew reads the record and refuses one that is gone or
\* expired.  A check made later than the read refuses at least as much.
Renew(h, l) ==
    /\ pc[h] = "idle" /\ l \in used
    /\ l \in live /\ ~is_expired(record[l])
    /\ Goto(h, "renewing")
    /\ target' = [target EXCEPT ![h] = l]
    /\ UNCHANGED <<now, used, store, asked, fresh, reap, reclaimed>>

\* ... negotiates; LeaseStore.renew reads the clock for the new expiry, or
\* returns an error when it is out of range ...
RenewExpiry(h, requested) ==
    LET t == negotiate(requested) IN
    /\ pc[h] = "renewing"
    /\ \/ /\ in_range(now, t)
          /\ fresh' = [fresh EXCEPT ![h] = [expires_at |-> expiry_for(now, t), ttl |-> t]]
          /\ Goto(h, "storing")
       \/ /\ ~in_range(now, t)
          /\ Goto(h, "idle")
          /\ UNCHANGED fresh
    /\ UNCHANGED <<now, used, store, asked, target, reap, reclaimed>>

\* Mutant: a renew promises a new term although the lease is gone.
PhantomRenew(h) ==
    /\ pc[h] = "storing"
    /\ record' = [record EXCEPT ![target[h]] = fresh[h]]
    /\ Goto(h, "idle")
    /\ UNCHANGED <<now, used, live, asked, target, fresh, reap, reclaimed>>

\* ... and changes the record in place, if it is still there.
RenewStore(h) ==
    /\ pc[h] = "storing"
    /\ IF target[h] \in live
       THEN record' = [record EXCEPT ![target[h]] = fresh[h]]
       ELSE UNCHANGED record
    /\ Goto(h, "idle")
    /\ UNCHANGED <<now, used, live, asked, target, fresh, reap, reclaimed>>

\* LeaseManager.cancel fetches the record to announce it ...
Cancel(h, l) ==
    /\ pc[h] = "idle" /\ l \in used
    /\ Goto(h, IF l \in live THEN "cancelling" ELSE "cancelling_unknown")
    /\ target' = [target EXCEPT ![h] = l]
    /\ asked' = asked \cup {l}
    /\ UNCHANGED <<now, used, store, fresh, reap, reclaimed>>

\* ... removes it ...
CancelRemove(h) ==
    /\ pc[h] \in {"cancelling", "cancelling_unknown"}
    /\ live' = live \ {target[h]}
    /\ Goto(h, IF pc[h] = "cancelling" THEN "announcing" ELSE "idle")
    /\ UNCHANGED <<now, used, record, asked, target, fresh, reap, reclaimed>>

\* ... and broadcasts what it had fetched.
CancelSend(h) ==
    /\ pc[h] = "announcing"
    /\ reclaimed' = reclaimed \cup {<<target[h], "cancelled">>}
    /\ Goto(h, "idle")
    /\ UNCHANGED <<now, used, store, asked, target, fresh, reap>>

\* The client disconnects: its call is dropped while the store works.
Dropped(h) ==
    /\ pc[h] # "idle"
    /\ Goto(h, "idle")
    /\ UNCHANGED <<now, used, store, asked, target, fresh, reap, reclaimed>>

-----------------------------------------------------------------------------
\* run_reaper's tick: drain_expired lists the expired records.
ReapList ==
    /\ reaper = "ticking"
    /\ reaper' = "draining"
    /\ listed' = {<<l, record[l].expires_at>> :
                     l \in {m \in live : is_expired(record[m])}}
    /\ UNCHANGED <<now, used, store, asked, calls, removed, failures, reclaimed>>

\* LeaseStore.remove_if_unchanged on one of them.
ReapRemove(l, e) ==
    /\ reaper = "draining" /\ <<l, e>> \in listed
    /\ listed' = listed \ {<<l, e>>}
    /\ IF l \in live /\ record[l].expires_at = e
       THEN live' = live \ {l} /\ removed' = removed \cup {l}
       ELSE UNCHANGED <<live, removed>>
    /\ UNCHANGED <<now, used, record, asked, calls, reaper, failures, reclaimed>>

\* Mutant: the error ends the reaper's loop.
ReaperDies ==
    /\ reaper = "draining" /\ listed # {}
    /\ failures < MaxFailure
    /\ failures' = failures + 1
    /\ reaper' = "stopped" /\ listed' = {} /\ removed' = {}
    /\ UNCHANGED <<now, used, store, asked, calls, reclaimed>>

\* A store error ends the pass: what it had removed is not announced.
ReapFails ==
    /\ reaper = "draining" /\ listed # {}
    /\ failures < MaxFailure
    /\ failures' = failures + 1
    /\ reaper' = "ticking" /\ listed' = {} /\ removed' = {}
    /\ UNCHANGED <<now, used, store, asked, calls, reclaimed>>

\* The reaper broadcasts every removed record, then waits for its next tick.
ReapSend ==
    /\ reaper = "draining" /\ listed = {}
    /\ reclaimed' = reclaimed \cup {<<l, "expired">> : l \in removed}
    /\ reaper' = "ticking" /\ removed' = {}
    /\ UNCHANGED <<now, used, store, asked, calls, listed, failures>>

-----------------------------------------------------------------------------
Call(h) ==
    \/ \E l \in Lease : Renew(h, l) \/ Cancel(h, l)
    \/ \E t \in Request : RenewExpiry(h, t)
    \/ RenewStore(h) \/ CancelRemove(h) \/ CancelSend(h) \/ Dropped(h)

ReapOne == \E l \in Lease, e \in 0 .. MAX_UTC : ReapRemove(l, e)

Next ==
    \/ Tick
    \/ \E l \in Lease, t \in Request : Grant(l, t)
    \/ \E h \in Caller : Call(h)
    \/ ReapList \/ ReapOne \/ ReapFails \/ ReapSend

Spec == Init /\ [][Next]_vars

\* The reaper's interval keeps ticking and its pass makes progress.
Fairness == WF_vars(ReapList) /\ WF_vars(ReapOne) /\ WF_vars(ReapSend)
LiveSpec == Spec /\ Fairness
-----------------------------------------------------------------------------
TypeOK ==
    /\ now \in 0 .. MaxTime
    /\ used \subseteq Lease /\ live \subseteq Lease /\ asked \subseteq Lease
    /\ record \in [Lease -> Record]
    /\ pc \in [Caller -> {"idle", "renewing", "storing", "cancelling",
                          "cancelling_unknown", "announcing"}]
    /\ target \in [Caller -> Lease]
    /\ fresh \in [Caller -> Record]
    /\ reaper \in {"ticking", "draining"}
    /\ listed \subseteq Lease \X Nat
    /\ removed \subseteq Lease
    /\ reclaimed \subseteq Lease \X Reason
    /\ failures \in 0 .. MaxFailure

\* A lease nobody asked to cancel is in the store until the time its holder
\* was last told (the expires_at grant or renew returned): the reaper's list
\* may be stale, but it removes nothing that was renewed meanwhile.
PromiseKept ==
    \A l \in used : l \in live \/ l \in asked \/ record[l].expires_at <= now

\* A lease is announced on expiry_tx only when it is gone from the store, so a
\* cascade never cleans up under a live lease.
AnnouncedIsGone == \A x \in reclaimed : x[1] \in used \ live

\* A lease that has left the store never comes back: a renew racing the
\* reaper or a cancel fails, it does not resurrect the lease.
NoReturn == [][\A l \in used : l \notin live => l \notin live']_vars

\* Under a cap, no lease in the store can outlast the policy, whatever
\* sequence of grants and renewals led to it: an unset ttl is bounded too.
PolicyHorizon ==
    MaxTtl # NoCap /\ PreferredTtl <= MaxTtl =>
        \A l \in live : record[l].expires_at <= now + MaxTtl

\* Every lease past its time leaves the store, unless a renew saves it.
ExpiredIsReaped ==
    \A l \in Lease : (l \in live /\ is_expired(record[l]))
                        ~> (l \notin live \/ ~is_expired(record[l]))

\* The reaper "removes them from the store, and broadcasts expiry events".
RemovedIsAnnounced ==
    \A l \in Lease : l \in removed ~> <<l, "expired">> \in reclaimed

-----------------------------------------------------------------------------
\* The inductive invariant behind PromiseKept and AnnouncedIsGone: what the
\* reaper listed had expired and a listed expiry time stays in the past; what
\* it removed and what a cancel is about to announce is gone.
LeaseInv ==
    /\ live \subseteq used
    /\ PromiseKept
    /\ \A x \in listed : x[1] \in used /\ x[2] <= now
    /\ removed \subseteq used \ live
    /\ AnnouncedIsGone
    /\ \A h \in Caller :
          /\ pc[h] # "idle" => target[h] \in used
          /\ pc[h] \in {"cancelling", "cancelling_unknown"} => target[h] \in asked
          /\ pc[h] = "announcing" => target[h] \notin live
          /\ pc[h] = "storing" => fresh[h].expires_at <= MAX_UTC

\* What the holder sees is a lease term.
status == [l \in Lease |-> IF l \notin used THEN "unused"
                           ELSE IF l \in live THEN "standing" ELSE "ended"]
until == [l \in Lease |-> record[l].expires_at]
announced == {x[1] : x \in reclaimed}

Term == INSTANCE LeaseTerm WITH Time <- 0 .. MAX_UTC

\* The manager implements the term: steps between the awaits are invisible.
ImplementsLeaseTerm == Term!Init /\ [][Term!Next]_(Term!vars)
=============================================================================
