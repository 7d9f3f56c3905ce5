# Coordin8 in TLA+

Coordin8's daemon, the Djinn (`djinn/`), is a Rust server in the tradition of
Jini: leases, a registry, events, a tuple space, proxies and a two-phase-commit
transaction manager.  This directory models its concurrent parts in TLA+, checks
them with TLC on small instances, and proves the most important properties with
TLAPS for every instance.

## The system

| part | state | operations | interacts with |
|------|-------|------------|----------------|
| Lease (`coordin8-lease`, `coordin8-core/src/lease.rs`) | lease records with an expiry; a broadcast channel of reclaimed leases | grant (with `negotiate`), renew, cancel, reaper tick, watch | every other service embeds one |
| TransactionMgr (`coordin8-txn`) | per transaction: state, participants, lease | begin, enlist, commit, abort, abort_expired | participants over gRPC; its leases |
| Space (`coordin8-space`) | tuples, per-transaction buffers, watches, `enlisted` set | write, read, take, notify, cancel, renew, 2PC participant calls, expiry | TransactionMgr, its leases |
| EventMgr (`coordin8-event`) | subscriptions, durable mailboxes, live broadcast | subscribe, emit, receive, ack, cancel, renew, expiry | its leases |
| Registry (`coordin8-registry`) | entries and their lease index | register, modify_attrs, lookup, watch, expiry | its leases; everyone registers here |
| Proxy (`coordin8-proxy`) | open listeners by proxy id | open, release, reclaim, forward | Registry, its leases |
| Cascade and sweep (`coordin8-djinn/src/services.rs`, `sweep.rs`) | position in the reclaim broadcast; suspects of the last pass | react to a reclaim; two-strike orphan sweep | all stores |
| Bootstrap (`coordin8-bootstrap`) | the service's registration ids; cached clients | register, renew, re-register, deregister; discover and enlist | Registry, TransactionMgr |
| Providers (`providers/local`, `providers/dynamo`) | the tables behind each store | one request at a time; over DynamoDB reads are eventually consistent | every service |
| Process (`coordin8-djinn/src/services.rs`, `coordin8-core/src/shutdown.rs`) | servers, health, registrations | boot, drain, end of streams | all services, bundled or split |

Hard behaviours: handlers are tokio tasks that interleave at every await; every
service cleans up on a lossy broadcast (`tokio::sync::broadcast`) backed by a
periodic sweep; participant calls time out while the participant may still act;
clients disconnect, which drops their handler at an await; with the DynamoDB
provider the stores outlive the process.

## Modules

| module | models |
|--------|--------|
| `TxnManager` | the transaction manager, one transaction, every handler acting on it, the txn cascade and sweep |
| `TxnOutcome` | what a transaction promises: one decision, and participants that follow it |
| `MCTxnManager` | the instance TLC checks |
| `TxnManagerProofs` | the theorems about `TxnManager` |
| `LeaseManager` | the lease manager, its store and the reaper against a clock |
| `LeaseTerm` | what a lease promises its holder: it stands until its time unless cancelled, and ends once |
| `MCLeaseManager` | the instances TLC checks |
| `LeaseWatchProofs` | the theorems about `LeaseManager` and `WatchStream` |
| `OrphanSweep` | one service's resources, the reclaim cascade over its lossy channel, and the two-strike sweep |
| `MCOrphanSweep` | the instances TLC checks |
| `StoreProofs` | the theorems about `OrphanSweep` and `DynamoSpace` |
| `Space` | the tuple space over its in-memory store, composed with a transaction's outcome |
| `MCSpace`, `SpaceProofs` | the instances TLC checks; the theorems |
| `EventMgr` | the event manager over both providers: mailboxes, emits, durable and best-effort streams |
| `MCEventMgr`, `EventProofs` | the instance TLC checks; the theorems |
| `Registry` | Register, ModifyAttrs, reclaim and sweep, request by request, over both providers |
| `SelfRegistration` | a service that keeps itself in that Registry, from boot to shutdown |
| `MCSelfRegistration`, `SelfRegistrationProofs` | the instance TLC checks; the theorem |
| `Proxy`, `MCProxy`, `ProxyProofs` | ports, listeners, accept tasks and forwarding, with the resolver that is found in the background; the theorems |
| `DynamoSpace`, `DynamoLease`, `DynamoTxn` | the DynamoDB stores of tuples, leases and transactions |
| `Matcher` | template operators and matching |
| `InOrder` | what a receiver of a broadcast still has before it, in order (used by the properties of `EventMgr` and `WatchStream`) |
| `WatchStream` | the streams of Space Notify, Registry Watch and lease WatchExpiry; a Space watch's row |
| `Enlister` | the Space's client of a TransactionMgr that moves |
| `Lifecycle` | the bundled process and the split Proxy from boot to exit |
| `Services`, `MCServices` | `DynamoSpace`, `DynamoLease`, `DynamoTxn`, `WatchStream`, `Enlister` and `Lifecycle` in one specification: they share no state, and `service` says which one a behaviour is about |
| `ServicesProofs` | the theorems about the other parts of `Services`, and that it implements the specifications of `DynamoSpace` and `WatchStream` |

### TxnManager

`state`, `participants` and `lease` are the stored `TransactionRecord` and its
lease.  A handler (element of `Caller`, or the `Sweeper` task) is a label `pc`, its
local copy `list` of the participants and the answers `reply` that `join_all`
collects.  Each action is the code between two awaits on shared state: the CAS of
`commit`, `abort` or `abort_expired`, the re-read of the record, the evaluation of
the answers, the release of the lease.  A call to a participant is in `inflight`
until it is `served` or lost; the handler gets the answer or, at any time, an
error (connect failure, lost answer, or the timeout set in `connect_to`), and
the call may still be served later.  What a participant does with a call is
external: it follows the comments of `ParticipantService` in `transaction.proto`.
`Dropped` is a client that disconnects, `Crash` a restart over a durable store.

Every store operation takes one transaction id, so one transaction is modelled.

### LeaseManager

`live` and `record` are the store, `now` the clock (seconds, never stepping back),
`reclaimed` what went out on `expiry_tx`.  `negotiate`, `in_range` and `expiry_for`
are the TTL arithmetic with its sentinels; the width of `u64` and the last
representable `DateTime` are constants.  A renew takes three steps (read and check,
compute the new expiry, store it), a cancel three (fetch, remove, broadcast), a
reaper pass one per listed lease; a store error may end the pass anywhere and a
disconnected client's call is dropped at any step.

### OrphanSweep

Registry, EventMgr and Space keep resources that live as long as a lease.  The
module is generic in the service: a resource is inserted after its lease is granted
(`Grant`, `Insert`; a disconnect in between is `Dropped`), a lease that ends is put
on the broadcast channel (`Reclaim`) or is never announced (`ReclaimUnseen`), the
cascade receives it or lags, and `Clean` is the spawned removal.  The sweep lists the
resources, looks each lease up (a lookup may fail, and a lease granted a moment ago
may not be readable yet), and removes what is absent in two consecutive passes.
`Crash` forgets the channel, the tasks and the suspects, as a restart over a durable
store does.

A lease that was readable-late in one pass is readable in the next: the sweep
interval is far longer than the store's delay, which is what the two strikes rely
on.

### Space

`store` has the six maps of `InMemorySpaceStore` (watches excepted), and one step is
one operation on one of them, because tasks on different threads meet in between: a
write inserts the tuple, then its index, then broadcasts; a take removes the tuple,
then its index, then files it under its transaction; `remove_by_lease` goes through
both indexes; a commit or an abort moves buffers tuple by tuple.  A call of a client
is a record: where it is, method, transaction, tuple in hand, and its broadcast
receiver with the lag flag.  Templates are sets of tuples (`Matches`).  `handler` are
participant calls being served, `remover` executions of `on_tuple_expired`, started by the cascade
or by the sweep.  The coordinator is reduced to what the Space sees of it (`txns`,
`calls`, `votes`): how often the Space is enlisted, which calls it is sent and in
which order they can be; `TxnManager` has the rest.  `history` is for the properties:
where each tuple was written, how often it left, what was returned too early.

### EventMgr

A registration has a row, a mailbox and a lease; `Subscribe` writes them one request
after the other.  An emit takes its number (`counter`), lists the rows, enqueues in each
durable mailbox, and broadcasts last.  A stream is the loop of `receive`: durable, it
peeks a batch, hands it to the channel and acknowledges what was handed over;
best-effort, it reads the broadcast and may lag.  `provider` is chosen at the start:
in memory a mailbox is one map entry, over DynamoDB each entry is a row that a lagging
read may miss, or show after it was deleted.  `handed` is what the transport has pulled.

### Registry, SelfRegistration

`Registry` is the handler of Register (new, or a renewal that cites its
`capability_id`), ModifyAttrs and the removal by lease, over a store of two maps or
two DynamoDB tables with lagging reads; over DynamoDB a renewal may be refused, and a
delete may fail and is left to the sweep.  `SelfRegistration` adds the service: first
registration, a renewal per tick, the fresh registration after NotFound or
FailedPrecondition, and at SIGTERM the end of the renewal task followed by the cancel
of the lease that is live then.  `lost` holds the ids whose lease the service cannot know
to cancel: the answer never came, Registry refused to renew the entry, or a later
registration replaced it.

### Proxy

`next_port` is the `AtomicU16`: an Open reads and increments it, compares, and stores
the lower bound in another step, modulo `Width`.  Each Open call is one proxy: its
listener, its entry in the map, its accept task and its lease.  A connection resolves
its template when it is accepted, through a resolver that is `pending` until the
Registry was reached.  The lookup of `OpenResolve` has no deadline in the code; it is one
step here, which always answers.

### The DynamoDB stores

A step is one request.  What was written lately may be read as it is or as it was:
`late` (tuples, per item), `shown` (the transaction), `saw` (the lease a cancel fetched).
A conditional write sees the current item.  A call may stop between two requests.
`DynamoLease` keeps the expiry that a renewal computed before its update (`until`);
`DynamoTxn` follows `commit` through its claims, with the list it re-read.

### WatchStream, Matcher

A text is a short sequence of letters, a template a function from fields to operators.
A change is stored and announced in two steps.  Registry's store takes more: `register`
indexes the lease and then stores the entry; `modify_attrs` reads an entry, checks its lease
and stores it again, whatever happened in between; `unregister_by_lease` looks the entry up
and then removes it (`back`: an update has stored an entry after its removal).  A stream's receiver holds `Ring` changes
and lags beyond that, its task has a channel of `Channel` messages to the client.  `on`
is the service: Registry Watch matches the interface with the attributes, Notify and
WatchExpiry filter by kind.  A client of Watch takes a snapshot (LookupAll) after the
stream is open.  The watch row is a lease and two maps, or a row and an index; when the
lease has ended the cascade and the sweep each find the row and then remove it, at most
`Removers` at a time, and over DynamoDB the query or the delete may fail.

### Enlister, Lifecycle

`Enlister` has the cached client, calls that share it, and a TransactionMgr that moves
and is listed anew later.  `Lifecycle` has the registrations in the order of `run_all`'s
vector, each with its task and handle slot.  Their Register requests are numbered: one is
`asked`, the Registry grants it a lease (`leased`) also when the task that sent it is gone,
and its answer may not come; the renewal task may replace a registration by another.
`deregister` cancels the lease the handle knows, and the cancel may fail.  An entry follows
its lease by Registry's cascade or sweep, and so may outlive the process; the model has the
leases only.  `phase` follows `run_all` and `serve_split`:
deregister, trigger, drain, bounded by the grace period.  The Proxy's discovery is a task
of its own that installs the resolver and then sets the health status.

## Runs

| run | instance | result |
|-----|----------|--------|
| `txn_safety` | 2 callers and the sweeper, 2 endpoints, at most 2 enlistments, 1 restart | one outcome, by unanimous vote, told truly; `TxnOutcome` is implemented |
| `txn_liveness` | 1 caller and the sweeper, 1 endpoint, 2 enlistments, 1 restart, fair | handlers return; leaseless Active transactions end |
| `lease` | 1 lease, 2 calls, capped policy, clock to 3 and last time 4, 1 store error, fair reaper | no term exceeds the policy, expired leases go, `LeaseTerm` is implemented |
| `sweep` | 2 leases, channel of 1, 1 lost reclaim, 1 store error, 1 restart, fair | no resource is removed while its lease stands; orphans go; a lag does not end the cascade |
| `space_transactions` | 2 tuples, 2 clients with any calls (3 in all), 1 transaction | tuples are neither lost nor obtained twice; uncommitted ones are not seen |
| `space_expiry` | 1 tuple, a writer and a taker, 2 removals at once, 1 expiry, 1 lost message, fair | no tuple is lost or obtained twice; visible tuples go when their lease is gone |
| `space_waiters` | 2 tuples, a writer and a waiter, 4 calls, templates that differ, fair | waiting calls are served |
| `event` | a durable and a best-effort registration, 2 emits, a stream that reopens, broadcast of 1, batch of 1, 1 late row, 1 fault, both providers, fair | what an emit answered OK is delivered at least once, under one number |
| `discovery` | 2 capability ids, the service and another holder of its lease, 1 late read, 1 fault, both providers, fair | a running service is found again; after shutdown it is gone; entries without a lease go |
| `proxy` | 2 Open calls, 2 ports of which 1 is taken, 1 connection, 1 endpoint that leaves, 1 fault, fair | ports stay in the range, reclaimed proxies close and free theirs, connections go to a registered endpoint, Open returns |
| `services` | tuples: 2, with 2 takes, 2 ends, 1 late item, 1 interruption; leases: 2 renewers, clock to 6; transaction: 2 participants, 2 enders; streams: 2 items of which 1 is modified, 4 templates, ring and channel of 1; enlister: 2 calls, 2 moves, 1 lost request; process: 2 registrations, 2 Register requests of each, 1 other request | all properties hold |
| `dynamo_all_called` | as `services` | violated: a participant whose Enlist was answered OK is missing in the list `commit` reads |

The properties of `services`: `TakenOncePerInsert`, `UncommittedIsHidden` and
`Conservation` are the tuple store's promises under stale scans and interrupted calls;
`TermIsKept` and `GoneIsFinal` the lease's; `LeftActiveOnce` the record's CAS
discipline.  `NoSilentGap`: a stream that goes on has missed nothing.  `ViewIsComplete`: a
Watch opened before a snapshot gives a view that lacks nothing, but an entry that an update
stored again after its removal.  `WatchRowIsFindable`: in memory no row of a watch is left
that the sweep could not reach from its lease, whenever that lease ends.
`OneMoveIsAbsorbed`: an OK means the TransactionMgr has
the participant, and one move of it fails no call.  `CleanLeavesNothing`: after a
clean shutdown no lease of the process is held, but those no handle knows and those whose
cancel failed at a Registry that serves.

The runs leave out properties that a theorem below proves for every instance (`ProtocolInv`, `ClientsAgree`, `CommitOwnsOutcome`, `PromiseKept`, `NoReturn`,
`AnnouncedIsGone`), and the type invariants.  Those of `TxnManager`, `LeaseManager` and
`OrphanSweep` are theorems; those of the other modules describe the variables, and adding
`INVARIANT TypeOK` to a configuration checks them.  `IndexKept`, the safety part of
`DeadTuplesGo`, is a theorem as well, and can be added to `SpaceExpiry.cfg` in the same way.

Bounds.  Two callers are enough for every pair of commit, abort, expiry and a
second commit to meet; two enlistments reach both the PrepareAndCommit path (one)
and the two-phase path (two), with the same endpoint enlisted twice or not.  A
restart can happen anywhere.  Symmetry is on callers and endpoints, in the run
without liveness.  The lease clock runs past the longest negotiated term, so leases
expire, are renewed at the boundary and are reaped; leases do not share state, so
one is enough for safety.  Two leases over a channel of one make the cascade lag
and the sweep hold two suspects at once.  In the Space, a writer, a taker and one
more call meet each other and the end of the transaction at every step; two tuples
fill a receiver of capacity one; two entries of one transaction get every
participant call twice.  Expiry is checked with one tuple, since tuples share no
entries of the indexes.  Client, tuple and task
symmetry is used in `space_transactions` only.  In the other services a channel, ring or
batch of one makes the second message the one that lags, waits or is left for the next
round; one fault may hit any request; two ports with one taken make every Open wrap
around the range.  Two tuples, one written in the transaction and one outside, and two
takes likewise, give each pair of take, commit, abort, expiry and interruption.  Two moves
of the TransactionMgr leave the cached client behind twice.  One entry that is modified
(`MaxModify`) meets its own removal and the other entry's registration at every step; two
removers are the cascade and the sweep.  Of the process's registrations two are kept (a
service and the Proxy): they share nothing but the order in which they are cancelled, and two
requests of each (`MaxTry`) let a retry, or a second registration, follow a lost answer.

Fairness.  A ready tokio task is polled again, so a handler's own steps are weakly
fair; every participant call has a timeout, so `CallFails` is; the sweep's
interval keeps ticking, and so does the reaper's.  The cascade's loop and
the tasks it spawns are polled; what it missed is left to the sweep, whose faults are
bounded.  In the Space, tasks are polled and the sweep keeps looking.  In EventMgr,
Registry and Proxy, requests that were accepted are served, tasks are polled, and timers
fire: a stream's steps, the renewal tick, the reclaim of an ended lease.  `Services` has
no liveness property and no fairness.  Nothing is
assumed of participants, the network, transactions or clients.

## Proofs

`TxnManagerProofs` proves, for any sets of callers and endpoints and any bounds:

* `TypeCorrect`: `Spec => []TypeOK`;
* `ProtocolHolds`: `Spec => []ProtocolInv`, the inductive invariant;
* `AgreementHolds`, `UnanimousCommitHolds`, `DecisionIsTrueHolds`,
  `ClientsAgreeHolds`, `CommitOwnsOutcomeHolds`: the safety properties, each a
  consequence of `ProtocolInv`;
* `OnlyForwardHolds`: the action property;
* `Refinement`: `Spec => Abstract!Spec`, with `decision` as the refinement mapping.

The only assumption is `TxnAssumption` (the sweeper is not a caller, the bounds
are natural numbers).  None of the safety properties is inductive: that a commit
call is harmless depends on who may still be about to abort.  `ProtocolInv` says
where the knowledge is: a handler's label determines the record's state
(`PhaseInv`), at most one handler owns the commit and its list is the stored one
(`OwnerInv`), which calls can exist in which state (`CallInv`), collected answers
are the votes given (`ReplyInv`), effects follow the votes and the state
(`OutcomeInv`), and clients were told what the record says (`AnswerInv`).  Each
action has a lemma or a step; the temporal theorems combine them.

`LeaseWatchProofs` proves for any leases, calls, requests and policy: `TypeCorrect`,
`PromiseKeptHolds`, `AnnouncedIsGoneHolds`, `NoReturnHolds`, `PolicyHorizonHolds` and
`Refinement` (the manager implements `LeaseTerm`), from `LeaseAssumption` (the
sentinel is larger than any representable TTL and time).  The inductive invariant
`LeaseInv` adds that whatever the reaper has listed was expired at the listed time,
and that what it removed, or a cancel is about to announce, is gone.  Of the streams
(`WatchSpec`) it proves `ViewIsCompleteHolds` and `WatchRowIsFindableHolds` from
`WatchInv`: a matching entry is in the view, or was brought back by an update, or its
announcement is on its way; "gone" is overtaken only by such an update; and a row that is
stored is indexed, about to be, or in the hands of a removal that has found it.  `NoSilentGapHolds` needs `GapInv` as well: which of its two hands a
stream may hold a change in, that what it has received and holds is the beginning of what is
due, and that the rest of what is due lies in its inbox, at the positions the template asks
for and in that order (`StillToCome`).  The last is an increasing map between positions, so
that no induction over the inbox is needed: `ComesAppend` extends it by an announcement,
`ComesTail` takes the change that is read.  That the stream passes on exactly those is
`PassesIsWanted`: the matcher and the definition of equality, prefix and part agree on every
change and every template, from `TextAssumption` (texts are sequences of strings, with all
their parts; a template's fields are an operation and a text).

`StoreProofs` proves `TypeCorrect`, `SweepInvHolds` and
`NeverReclaimsLeasedHolds` for any leases, capacity and faults.  `NeverReclaimsLeased`
is not inductive, because a removal is decided long before it happens; `SweepInv` says
of everything that may lead to a removal (the channel, spawned removals, the second
strike) that its lease has ended, and of a first strike that the lease had been
granted, so that the next pass can read it.  Of the tuple space over DynamoDB (`SpaceSpec`)
it proves `TakenOncePerInsertHolds`, `UncommittedIsHiddenHolds` and
`DynamoConservationHolds` from `SpaceInv`: how often a tuple was visible exceeds how often
it was taken, by one while it is visible; a tracking item an abort restores from is of a
tuple that was visible; and a tuple is `Settled`, that is, accounted for by something that
no call under way is about to delete.

`SpaceProofs` proves `IsolationHolds` and `ConservationHolds` for the in-memory Space, for
any tuples, clients, transactions, participant calls, expiry tasks, templates and receiver
capacities, from `SpaceAssumption` (the names for "no transaction", "no tuple" and "not
written" are none of the others; a capacity is positive).  Neither property is inductive.
That a tuple is in one place (`HomeInv`) is kept by a write because a lease is granted once,
so a tuple has one writer (`OneWriter`) that has not stored it yet (`ClientInv`); by a take
because the tuple in hand counts as a place; by a commit or abort because what the call has
claimed and not yet shown counts as one, and is empty before the claim (`HandlerInv`).  That
nothing is returned too early needs that everything visible, taken, on a broadcast or about
to be shown is `Free`: written outside a transaction or by one that has committed (`StoreInv`
for the maps, `ClientInv` for receivers and takes, `HandlerInv` for participant calls,
`CallsInv` for commits on their way).  A lemma per action, or per group of actions that move
no tuple, shows that `SpaceInv` is kept.

`IndexKeptHolds`, relative to `SpaceInv`: a visible tuple is in `lease_index`, or the insert,
commit or abort that showed it is about to index it, or an expiry task has unindexed it and is
about to remove it.  The step that could break it is a take or a removal that deletes the index
entry after the tuple: in between the tuple must not have become visible again.  `UnindexInv`
gives that outside a transaction (the tuple has ended, so by `HomeInv` it is nowhere), and
`HomeInv` alone inside one (the take has it in hand, so it is in no other place).

`EventProofs` proves `NumberNamesEventHolds`, `AtLeastOnceHolds` and
`BestEffortCompleteHolds` for any registrations,
events, streams, templates, capacities and faults, and both providers, from
`EventAssumption` (a registration matches only events of its source; capacities are
positive).  `EventInv` is needed because a number outlives its entry: it may be with an emit
that has allocated it and not written the entry, in a page a stream has read, in the channel,
handed over, or in a stale read.  All of these are `Uses` of a number, and `NumInv` says that
a number in use was allocated and stands for one event.  Delivery needs three more facts.
A row that was removed never comes back, and in memory a subscription that stands has its
mailbox (`RowInv`).  An emit that has not failed has each mailbox it owes still to do or
done (`OweInv`).  What a stream acknowledges is in the channel or was handed over
(`AckInv`), and by `NumInv` it is the event whose entry is deleted.  For a best-effort
stream, `BestInv` says that the channel and the loop hold at most one event each and that,
unless it lagged, the stream is `Complete`; each kind of step has a lemma about one stream's
record (`TidyHear`, `TidyWake`, `TidySend`, `TidyPull`).

`SelfRegistrationProofs` proves `DeregisteredIsGoneHolds` for any ids, attributes, faults and
modifications, from `RegistryAssumption` and `CallerAssumption`.  `KnownInv` says that a
lease that is held is the one the service knows, or that its request under way will tell it
of, or is `lost`.  `RequestInv` ties that request to the ids: one without an id makes a fresh
registration (`FreshInv`), one that renews cites the id the service would cancel
(`RenewInv`).  `CallInv` adds that no request is under way when the service is idle or
cancels, so none is granted afterwards.

`ProxyProofs` proves `FreshTargetHolds` for any proxies, connections and endpoints
(`ConnInv`: a connection under way has seen everything registered now), and
`PortInRangeWithRoom`: listeners stay in the range as long as `Room` holds, that is, the
counter has room past the end of the range for the calls between its increment and its
reset.  `PortInRangeHolds` derives it from the number of concurrent calls.  Without room the
property is false (Known divergences).  `PortInv` bounds the counter by the end of the range
plus the number of calls that are about to reset it.

`ServicesProofs` proves `PartsAreImplemented`, that every behaviour of `Services` is one of
`SpaceSpec` and of `WatchSpec`, so that what `StoreProofs` and `LeaseWatchProofs` prove of
these holds of it; and, from the other parts' invariants:

* `TermIsKeptHolds`, `GoneIsFinalHolds` from `LeaseInv`: the row that is there is the one the
  holder was told of last, and what the reaper has listed had expired;
* `LeftActiveOnceHolds` from `TxnInv`: a record that left Active has one claim and the
  participants it had then;
* `OneMoveIsAbsorbedHolds` from `EnlisterInv`: a call's position says how often the
  TransactionMgr has moved or been lost since;
* `CleanLeavesNothingHolds` from `LifeInv`: a lease that is held is known to a handle that is
  still to be cancelled, or its answer is awaited by such a registration's task, or it is
  `lost`; the same of a request that the Registry has still to serve.

The inductive invariants were checked with TLC on the runs' instances before they were
proved.

Every safety property that a passing run checks is a theorem (`PortInRange` where the
counter has room).  Liveness is only model-checked: it is out of the prover's reach.

## Known divergences

What the code does although a reader would expect otherwise.  The first is a run.  The
next seven are properties defined in the modules that no run checks, each with the
instance on which TLC refutes it.  The rest are exceptions that a property names.

* `AllAreCalled` (`dynamo_all_called`): the list `commit` reads again after its claim is
  not final over DynamoDB.
* `CommittedEverywhere` (`TxnManager`; 1 caller, 2 endpoints, 2 enlistments, no restart):
  Committed is recorded although a Commit call failed, and nobody repeats it.
* `LeaseEndDecides` (`TxnManager`, `FairSpec`; 1 caller, 1 endpoint, 1 enlistment): a
  transaction in Voting stays there after its lease has ended.
* `RemovedIsAnnounced` (`LeaseManager`, `LiveSpec`; 2 leases, 1 call, no cap, 1 store
  error): `drain_expired` returns at an error and drops what it has already removed;
  `reaper.rs` says it "broadcasts expiry events".
* `RestoredOnAbort` and `EnlistedOnce` (`Space`; 1 tuple, 2 clients, 2 calls): a take that
  ends after the abort strands its tuple; two operations at once enlist twice.
* `AdoptsRegistration` (`SelfRegistration`; local provider, 2 faults): after a failed
  fresh registration the next one is not adopted, so the service registers anew at
  every tick.
* `DrainingIsNotServing` (`Lifecycle`; the split Proxy): the background discovery may set
  Serving after `serve_split` has set NOT_SERVING.
* The port counter wraps when the range ends at 65535 (`PortInRange` fails with MinPort 6,
  MaxPort 7, Width 8, Busy {6}).  A reclaim the Proxy's cascade misses leaves the listener
  open, there being no sweep of proxies.
* Over DynamoDB a take that is interrupted before its tracking item is stored loses the
  tuple; so does a take in a transaction that is being aborted (`gone`, `stray`).  A commit
  or abort that runs again may insert a tuple that was taken meanwhile.
* Over DynamoDB the older of two renewals may be stored last and shorten the term, and a
  cancel right after the grant may delete the lease without an announcement.
* In memory, an entry whose lease index a concurrent removal has dropped is not found by
  its lease (`StopRenewingToDisappear` speaks of indexed ones, and of DynamoDB).
* In memory, an update of an entry that a removal overtakes stores it again.  Its MODIFIED
  may be announced before the removal's EXPIRED, so that a Watch client drops an entry that
  LookupAll lists (`back` in `ViewIsComplete`).  `register` and `modify_attrs` announce
  MODIFIED even when `update` found nothing to update.
* A watch whose lease ends before `create_watch` returns keeps its row until a sweep; so does
  one whose query or delete fails, since the error is swallowed.
* A Register request of an aborted task may be served after the deregistration, and a service
  does not cancel a registration that Registry refused to renew (`lost`): the entry stays
  until its lease ends.
* `AtLeastOnce` covers the registrations that the emit's listing saw.  Over DynamoDB a stale
  listing may miss a registration whose Subscribe was answered.

Other behaviours the models have, on which no document takes a position: a call blocked
in a transaction is not woken by a write of the same transaction; a blocking read may
return a tuple taken meanwhile; two streams of one durable registration hand out the same
entry; concurrent emits may be broadcast against the order of their numbers; a stream goes
on after its subscription's lease; ModifyAttrs and a renewal undo each other's attributes;
Watch does not say that an entry ceased to match; the task of a Notify client that left
ends at the next match; the `enlisted` entry stays after a commit that answered NOTCHANGED.

## Not modelled

Auth, observability, the SDKs and the CLI, and the reading of the configuration: no
shared state, or I/O.  The participant allowlist, a parser and matcher of host patterns.
Of the providers, the creation of tables and the encoding of items.  Of the Space,
`contents` and `renew`, which change nothing in it; of the Registry, `lookup`, the first
match of `lookup_all`.  Of the Proxy, ephemeral ports and the bytes forwarded.

## Plan

Proofs: the type correctness of the modules that have no theorem for it.
