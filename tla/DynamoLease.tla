----------------------------- MODULE DynamoLease -----------------------------
(***************************************************************************)
(* The DynamoDB lease table (providers/dynamo/lease_store.rs) under the    *)
(* calls LeaseManager and its reaper make.  A step is one request.  A get  *)
(* and a scan are eventually consistent: they may show the row a write has *)
(* just replaced.                                                          *)
(***************************************************************************)
EXTENDS Naturals

CONSTANTS
    Renewer,     \* renew calls
    Term,        \* the ttl granted
    MaxTime      \* bound: of the clock

ASSUME DynamoLeaseAssumption == Term \in Nat \ {0} /\ MaxTime \in Nat

VARIABLES
    now,
    row,         \* expires_at of the lease's row; 0: no row
    was,         \* what a late read shows
    renew,       \* each renew call: its step, and the expiry it will write
    canceller,   \* the cancel call: its step, and whether its get saw a row
    listed,      \* expires_at of the record the reaper has listed; 0: none
    told,        \* (history) expiry in the latest answer to the holder; 0: none
    cancelled,   \* (history) did a cancel delete the row
    announced    \* (history) was the lease broadcast as reclaimed

leaseVars == <<now, row, was, renew, canceller, listed, told, cancelled, announced>>

LeaseInit ==
    /\ now = 1 /\ row = 0 /\ was = 0 /\ listed = 0 /\ told = 0
    /\ cancelled = FALSE /\ announced = FALSE
    /\ renew = [r \in Renewer |-> [pc |-> "idle", until |-> 0]]
    /\ canceller = [pc |-> "idle", saw |-> FALSE]

Put(e) == row' = e /\ was' \in {row, was, e}

Tick ==
    /\ now < MaxTime /\ now' = now + 1
    /\ UNCHANGED <<row, was, renew, canceller, listed, told, cancelled, announced>>

\* Replicas have caught up.
LeaseSettle ==
    /\ was # row /\ was' = row
    /\ UNCHANGED <<now, row, renew, canceller, listed, told, cancelled, announced>>

create ==
    /\ told = 0
    /\ Put(now + Term) /\ told' = now + Term
    /\ UNCHANGED <<now, renew, canceller, listed, cancelled, announced>>

\* LeaseManager.renew gets the row, which must be there and not expired as it is
\* shown; the store's renew gets it again and computes the new expiry ...
RenewGet(r) ==
    /\ told # 0
    /\ \E e \in {row, was} \ {0} :
          \/ /\ renew[r].pc = "idle" /\ e > now
             /\ renew' = [renew EXCEPT ![r].pc = "again"]
          \/ /\ renew[r].pc = "again"
             /\ renew' = [renew EXCEPT ![r] = [pc |-> "update", until |-> now + Term]]
    /\ UNCHANGED <<now, row, was, canceller, listed, told, cancelled, announced>>

RenewRefused(r) ==
    /\ \/ renew[r].pc = "again" /\ 0 \in {row, was}
       \/ renew[r].pc = "update" /\ row = 0
    /\ renew' = [renew EXCEPT ![r] = [pc |-> "idle", until |-> 0]]
    /\ UNCHANGED <<now, row, was, canceller, listed, told, cancelled, announced>>

\* Mutant: a removed row is written again.
RenewRevives(r) ==
    /\ renew[r].pc = "update"
    /\ Put(renew[r].until) /\ told' = renew[r].until
    /\ renew' = [renew EXCEPT ![r] = [pc |-> "idle", until |-> 0]]
    /\ UNCHANGED <<now, canceller, listed, cancelled, announced>>

\* ... which the update stores if the row still exists.
RenewUpdate(r) ==
    /\ renew[r].pc = "update" /\ row # 0
    /\ Put(renew[r].until) /\ told' = renew[r].until
    /\ renew' = [renew EXCEPT ![r] = [pc |-> "idle", until |-> 0]]
    /\ UNCHANGED <<now, canceller, listed, cancelled, announced>>

\* LeaseManager.cancel gets the row, deletes it whatever it saw ...
CancelGet ==
    /\ told # 0 /\ canceller.pc = "idle"
    /\ \E e \in {row, was} : canceller' = [pc |-> "delete", saw |-> e # 0]
    /\ UNCHANGED <<now, row, was, renew, listed, told, cancelled, announced>>

\* ... and announces it if it saw one.
cancel ==
    /\ canceller.pc = "delete" /\ canceller' = [pc |-> "idle", saw |-> FALSE]
    /\ Put(0) /\ cancelled' = TRUE
    /\ announced' = (announced \/ canceller.saw)
    /\ UNCHANGED <<now, renew, listed, told>>

\* The reaper lists a row that has expired, as the scan shows it ...
list_expired ==
    /\ listed = 0
    /\ \E e \in {row, was} : e # 0 /\ e <= now /\ listed' = e
    /\ UNCHANGED <<now, row, was, renew, canceller, told, cancelled, announced>>

\* Mutant: what was listed is removed.
remove_listed ==
    /\ listed # 0 /\ listed' = 0
    /\ Put(0) /\ announced' = TRUE
    /\ UNCHANGED <<now, renew, canceller, told, cancelled>>

\* ... and removes it if its expiry is still the listed one, then announces it.
remove_if_unchanged ==
    /\ listed # 0 /\ listed' = 0
    /\ IF row = listed THEN Put(0) /\ announced' = TRUE
                       ELSE UNCHANGED <<row, was, announced>>
    /\ UNCHANGED <<now, renew, canceller, told, cancelled>>

LeaseNext ==
    \/ Tick \/ LeaseSettle \/ create \/ CancelGet \/ cancel \/ list_expired \/ remove_if_unchanged
    \/ \E r \in Renewer : RenewGet(r) \/ RenewRefused(r) \/ RenewUpdate(r)

LeaseTypeOK ==
    /\ now \in 1..MaxTime /\ {row, was, listed, told} \subseteq 0..(MaxTime + Term)
    /\ renew \in [Renewer -> [pc : {"idle", "again", "update"}, until : 0..(MaxTime + Term)]]
    /\ canceller \in [pc : {"idle", "delete"}, saw : BOOLEAN]
    /\ cancelled \in BOOLEAN /\ announced \in BOOLEAN

\* A lease that was not cancelled keeps its row until the time the latest answer
\* gave its holder, however stale the reaper's list is (remove_if_unchanged).
TermIsKept == (told > now /\ ~cancelled) => row # 0

\* A lease that was cancelled, or announced as reclaimed, has no row again: no
\* renewal under way, and no stale read, brings it back (renew's condition).
GoneIsFinal == (cancelled \/ announced) => row = 0
=============================================================================
