----------------------------- MODULE TxnManager -----------------------------
(***************************************************************************)
(* The two-phase-commit coordinator (crates/coordin8-txn/src/manager.rs),  *)
(* over the in-memory TxnStore (providers/local/src/txn_store.rs), with    *)
(* the lease-expiry cascade and the orphan sweep that drive abort_expired. *)
(*                                                                         *)
(* Every store operation takes one txn_id and no operation reads two       *)
(* records, so the module follows the life of ONE transaction.  The        *)
(* concurrency is between the RPC handlers that act on it: each element of *)
(* Caller is a tokio task running begin, commit, abort or the cascade's    *)
(* abort_expired, and Sweeper is the orphan-sweep task.  A step of a       *)
(* handler is what it does between two awaits on shared state.  The calls  *)
(* it issues right after a store operation belong to the same step: a call *)
(* not yet sent and a call still in flight look the same to everyone else. *)
(*                                                                         *)
(* Participants are separate gRPC servers.  A call to one is in flight,    *)
(* then served or lost; its caller may give up (connect error, lost        *)
(* answer, 10 s timeout) whether or not it is served later.                *)
(***************************************************************************)
EXTENDS Naturals, Sequences, FiniteSets

CONSTANTS
    Caller,     \* request handlers and cascade tasks on this transaction
    Sweeper,    \* the orphan-sweep task
    Endpoint,   \* participant endpoints the allowlist accepts
    MaxEnlist,  \* bound: entries in the participants list
    MaxCrash    \* bound: process restarts over a durable TxnStore

ASSUME TxnAssumption ==
    /\ Sweeper \notin Caller
    /\ MaxEnlist \in Nat
    /\ MaxCrash \in Nat

VARIABLES
    state,         \* TransactionRecord.state; "none" before store.create
    participants,  \* TransactionRecord.participants
    lease,         \* the txn:<id> lease: "none", "held", or "gone"
    suspect,       \* OrphanTracker: one strike against this transaction
    pc,            \* per handler: where it is suspended
    list,          \* per handler: its local copy of participants
    reply,         \* per handler: answers collected by join_all, per slot
    inflight,      \* participant calls <<kind, slot>> not yet served
    served,        \* participant calls <<kind, slot>> that were executed
    vote,          \* per slot: the wire value of its PrepareResponse
    outcome,       \* per endpoint: what the participant has done
    answered,      \* every answer a client has been given
    crashes        \* restarts so far

store == <<state, participants>>
net   == <<inflight, served, vote, outcome>>
local == <<pc, list, reply>>
vars  == <<state, participants, lease, suspect, pc, list, reply,
           inflight, served, vote, outcome, answered, crashes>>

Handler == Caller \cup {Sweeper}
Slot    == 1..MaxEnlist
Kind    == {"prepare", "commit", "abort", "prepare_and_commit"}

TransactionState == {"active", "voting", "prepared", "committed", "aborted"}
PrepareVote      == {"prepared", "notchanged", "aborted"}

\* The i32 of a PrepareResponse: the three proto values and one unknown to
\* this build.  NoVote is a slot that has not answered.
WireVote == 0..3
NoVote   == 9

\* Mutant: an unknown value counts as yes.
TrustfulVote(v) == IF v = 0 THEN "prepared" ELSE "notchanged"

\* A participant that answers with an unrecognised value has not committed.
vote_from_i32(v) == IF v = 0 THEN "prepared"
                    ELSE IF v = 1 THEN "notchanged" ELSE "aborted"

Reply  == PrepareVote \cup {"none", "waiting", "ok", "error"}

\* The answers that say something about the outcome; CommitInProgress does not.
Answer == {"commit_ok", "commit_aborted", "commit_unknown",
           "abort_ok", "abort_terminal", "internal"}

\* Where a handler waits for participant calls, and which call it made.
Waiting == {"preparing", "pac", "committing", "undoing", "aborting", "expiring"}

CallOf(l) == IF l = "preparing" THEN "prepare"
             ELSE IF l = "pac" THEN "prepare_and_commit"
             ELSE IF l = "committing" THEN "commit" ELSE "abort"

PC == Waiting \cup
      {"idle", "begin_create", "commit_refused", "commit_fetch",
       "commit_empty", "cancel_committed", "cancel_aborted",
       "abort_refused", "abort_fetch", "cancel_abort", "expire_fetch",
       "sweep_check"}

NoReply == [s \in Slot |-> "none"]

\* The answers join_all still waits for, when S are the slots called.
Await(S) == [s \in Slot |-> IF s \in S THEN "waiting" ELSE "none"]

Collected(h) == \A s \in Slot : reply[h][s] # "waiting"

-----------------------------------------------------------------------------
Init ==
    /\ state = "none"
    /\ participants = <<>>
    /\ lease = "none"
    /\ suspect = FALSE
    /\ pc = [h \in Handler |-> "idle"]
    /\ list = [h \in Handler |-> <<>>]
    /\ reply = [h \in Handler |-> NoReply]
    /\ inflight = {}
    /\ served = {}
    /\ vote = [s \in Slot |-> NoVote]
    /\ outcome = [p \in Endpoint |-> {}]
    /\ answered = {}
    /\ crashes = 0

\* The handler moves to label l and keeps its locals.
Goto(h, l) ==
    /\ pc' = [pc EXCEPT ![h] = l]
    /\ UNCHANGED <<list, reply>>

\* The handler returns; its locals are dropped.
Return(h, a) ==
    /\ pc' = [pc EXCEPT ![h] = "idle"]
    /\ list' = [list EXCEPT ![h] = <<>>]
    /\ reply' = [reply EXCEPT ![h] = NoReply]
    /\ answered' = answered \cup a

\* The handler calls the slots S of its list in parallel and waits at l.
CallAll(h, l, S) ==
    /\ pc' = [pc EXCEPT ![h] = l]
    /\ reply' = [reply EXCEPT ![h] = Await(S)]
    /\ inflight' = inflight \cup {<<CallOf(l), s>> : s \in S}
    /\ UNCHANGED <<served, vote, outcome>>

\* Mutant: the update does not look at the expected state.
BlindUpdate(from, to) == state' = to /\ UNCHANGED participants

\* TxnStore.update_state_if, when it finds the expected state.
UpdateStateIf(from, to) ==
    /\ state = from
    /\ state' = to
    /\ UNCHANGED participants

\* TxnManager::transition: the CAS, or Err(Internal) when it is refused.
\* On success the handler moves to l, calling the slots S if l waits.
Transition(h, from, to, l, S) ==
    /\ UNCHANGED <<participants, lease>>
    /\ state' = IF state = from THEN to ELSE state
    /\ IF state # from THEN Return(h, {"internal"}) /\ UNCHANGED net
       ELSE /\ UNCHANGED <<list, answered>>
            /\ IF l \in Waiting THEN CallAll(h, l, S)
               ELSE Goto(h, l) /\ UNCHANGED net

-----------------------------------------------------------------------------
\* begin: the lease is granted before the record exists.
BeginGrant(h) ==
    /\ pc[h] = "idle" /\ h \in Caller
    /\ lease = "none"
    /\ lease' = "held"
    /\ Goto(h, "begin_create")
    /\ UNCHANGED <<store, suspect, net, answered, crashes>>

BeginCreate(h) ==
    /\ pc[h] = "begin_create"
    /\ state' = "active"
    /\ participants' = <<>>
    /\ Goto(h, "idle")
    /\ UNCHANGED <<lease, suspect, net, answered, crashes>>

\* Mutant: enlists are accepted while the vote is running.
LateEnlist(p) ==
    /\ state \in {"active", "voting"}
    /\ Len(participants) < MaxEnlist
    /\ participants' = Append(participants, p)
    /\ UNCHANGED <<state, lease, suspect, local, net, answered, crashes>>

\* enlist: add_participant checks Active and pushes under one entry lock.
Enlist(p) ==
    /\ state = "active"
    /\ Len(participants) < MaxEnlist
    /\ participants' = Append(participants, p)
    /\ UNCHANGED <<state, lease, suspect, local, net, answered, crashes>>

-----------------------------------------------------------------------------
\* commit: the CAS Active -> Voting claims the commit.
CommitClaim(h) ==
    /\ pc[h] = "idle" /\ h \in Caller
    /\ state # "none"
    /\ \/ /\ UpdateStateIf("active", "voting")
          /\ Goto(h, "commit_fetch")
       \/ /\ state # "active"
          /\ Goto(h, "commit_refused")
          /\ UNCHANGED store
    /\ UNCHANGED <<lease, suspect, net, answered, crashes>>

\* The loser of the claim answers from a second read of the record.
CommitRefused(h) ==
    /\ pc[h] = "commit_refused"
    /\ \/ state = "committed" /\ Return(h, {"commit_ok"})
       \/ state = "aborted" /\ Return(h, {"commit_aborted"})
       \/ state \notin {"committed", "aborted"} /\ Return(h, {})
    /\ UNCHANGED <<store, lease, suspect, net, crashes>>

\* The re-read after the CAS, and the dispatch on the number of participants.
CommitFetch(h) ==
    /\ pc[h] = "commit_fetch"
    /\ list' = [list EXCEPT ![h] = participants]
    /\ LET n == Len(participants) IN
          \/ /\ n = 0
             /\ pc' = [pc EXCEPT ![h] = "commit_empty"]
             /\ UNCHANGED <<reply, net>>
          \/ n = 1 /\ CallAll(h, "pac", {1})
          \/ n > 1 /\ CallAll(h, "preparing", 1..n)
    /\ UNCHANGED <<store, lease, suspect, answered, crashes>>

CommitEmpty(h) ==
    /\ pc[h] = "commit_empty"
    /\ Transition(h, "voting", "committed", "cancel_committed", {})
    /\ UNCHANGED <<suspect, crashes>>

\* Mutant: a transport error is taken for a veto.
PacErrorAborts(h) ==
    /\ pc[h] = "pac" /\ Collected(h)
    /\ IF reply[h][1] \in {"prepared", "notchanged"}
       THEN Transition(h, "voting", "committed", "cancel_committed", {})
       ELSE Transition(h, "voting", "aborted", "cancel_aborted", {})
    /\ UNCHANGED <<suspect, crashes>>

\* The answer to PrepareAndCommit decides; a transport error leaves Voting.
PacDone(h) ==
    /\ pc[h] = "pac" /\ Collected(h)
    /\ \/ /\ reply[h][1] \in {"prepared", "notchanged"}
          /\ Transition(h, "voting", "committed", "cancel_committed", {})
       \/ /\ reply[h][1] = "aborted"
          /\ Transition(h, "voting", "aborted", "cancel_aborted", {})
       \/ /\ reply[h][1] = "error"
          /\ Return(h, {"commit_unknown"})
          /\ UNCHANGED <<store, lease, net>>
    /\ UNCHANGED <<suspect, crashes>>

\* The slots of h's list whose prepare answer is r.
Answered(h, r) == {s \in DOMAIN list[h] : reply[h][s] = r}

AbortReason(h) == Answered(h, "aborted") \cup Answered(h, "error") # {}

\* End of phase 1: abort everyone, or record Prepared and commit the voters.
PrepareDone(h) ==
    /\ pc[h] = "preparing" /\ Collected(h)
    /\ \/ /\ AbortReason(h)
          /\ Transition(h, "voting", "aborted", "undoing", DOMAIN list[h])
       \/ /\ ~AbortReason(h)
          /\ Transition(h, "voting", "prepared", "committing",
                        Answered(h, "prepared"))
    /\ UNCHANGED <<suspect, crashes>>

\* End of phase 2: failed commit calls are only logged.
CommitDone(h) ==
    /\ pc[h] = "committing" /\ Collected(h)
    /\ Transition(h, "prepared", "committed", "cancel_committed", {})
    /\ UNCHANGED <<suspect, crashes>>

UndoDone(h) ==
    /\ pc[h] = "undoing" /\ Collected(h)
    /\ Goto(h, "cancel_aborted")
    /\ UNCHANGED <<store, lease, suspect, net, answered, crashes>>

\* lease_manager.cancel, then the answer to the client.
CancelLease(h) ==
    /\ lease' = "gone"
    /\ \/ pc[h] = "cancel_committed" /\ Return(h, {"commit_ok"})
       \/ pc[h] = "cancel_aborted"   /\ Return(h, {"commit_aborted"})
       \/ pc[h] = "cancel_abort"     /\ Return(h, {"abort_ok"})
    /\ UNCHANGED <<store, suspect, net, crashes>>

-----------------------------------------------------------------------------
\* Mutant: abort refuses finished transactions only.
ForcedAbort(h) ==
    /\ pc[h] = "idle" /\ h \in Caller
    /\ state \notin {"none", "committed", "aborted"}
    /\ state' = "aborted"
    /\ Goto(h, "abort_fetch")
    /\ UNCHANGED <<participants, lease, suspect, net, answered, crashes>>

\* abort: the CAS Active -> Aborted, then the calls, then the lease.
AbortClaim(h) ==
    /\ pc[h] = "idle" /\ h \in Caller
    /\ state # "none"
    /\ \/ /\ UpdateStateIf("active", "aborted")
          /\ Goto(h, "abort_fetch")
       \/ /\ state # "active"
          /\ Goto(h, "abort_refused")
          /\ UNCHANGED store
    /\ UNCHANGED <<lease, suspect, net, answered, crashes>>

AbortRefused(h) ==
    /\ pc[h] = "abort_refused"
    /\ \/ state = "committed" /\ Return(h, {"abort_terminal"})
       \/ state = "aborted" /\ Return(h, {"abort_ok"})
       \/ state \notin {"committed", "aborted"} /\ Return(h, {})
    /\ UNCHANGED <<store, lease, suspect, net, crashes>>

AbortFetch(h) ==
    /\ pc[h] = "abort_fetch"
    /\ list' = [list EXCEPT ![h] = participants]
    /\ CallAll(h, "aborting", DOMAIN participants)
    /\ UNCHANGED <<store, lease, suspect, answered, crashes>>

AbortDone(h) ==
    /\ pc[h] = "aborting" /\ Collected(h)
    /\ Goto(h, "cancel_abort")
    /\ UNCHANGED <<store, lease, suspect, net, answered, crashes>>

\* abort_expired: no-op unless Active (a record not yet created included).
AbortExpired(h) ==
    IF state = "active"
    THEN UpdateStateIf("active", "aborted") /\ Goto(h, "expire_fetch")
    ELSE UNCHANGED store /\ Goto(h, "idle")

ExpireFetch(h) ==
    /\ pc[h] = "expire_fetch"
    /\ list' = [list EXCEPT ![h] = participants]
    /\ CallAll(h, "expiring", DOMAIN participants)
    /\ UNCHANGED <<store, lease, suspect, answered, crashes>>

ExpireDone(h) ==
    /\ pc[h] = "expiring" /\ Collected(h)
    /\ Return(h, {})
    /\ UNCHANGED <<store, lease, suspect, net, crashes>>

-----------------------------------------------------------------------------
\* Expiry (reaper) or a client's cancel through LeaseService ends the lease.
LeaseReclaimed ==
    /\ lease = "held"
    /\ lease' = "gone"
    /\ UNCHANGED <<store, suspect, local, net, answered, crashes>>

\* The cascade acts on a reclaim broadcast.  It may be late, lost to lag, or
\* repeated (two cancels, or a cancel racing the reaper, each broadcast).
Cascade(h) ==
    /\ pc[h] = "idle" /\ h \in Caller
    /\ lease = "gone"
    /\ AbortExpired(h)
    /\ UNCHANGED <<lease, suspect, net, answered, crashes>>

\* A sweep pass first lists the Active transactions ...
SweepList ==
    /\ pc[Sweeper] = "idle"
    /\ \/ /\ state = "active"
          /\ Goto(Sweeper, "sweep_check")
          /\ UNCHANGED suspect
       \/ /\ state # "active"
          /\ suspect' = FALSE
          /\ UNCHANGED local
    /\ UNCHANGED <<store, lease, net, answered, crashes>>

\* Mutant: the tracker forgets its suspects between passes.
ForgetfulSweep ==
    /\ pc[Sweeper] = "sweep_check"
    /\ suspect' = FALSE
    /\ Goto(Sweeper, "idle")
    /\ UNCHANGED <<store, lease, net, answered, crashes>>

\* ... then looks up their leases; the second strike in a row reclaims.
SweepCheck ==
    /\ pc[Sweeper] = "sweep_check"
    /\ LET leaseless == lease # "held" IN
          \/ /\ leaseless /\ suspect
             /\ suspect' = FALSE
             /\ AbortExpired(Sweeper)
          \/ /\ ~(leaseless /\ suspect)
             /\ suspect' = leaseless
             /\ Goto(Sweeper, "idle")
             /\ UNCHANGED store
    /\ UNCHANGED <<lease, net, answered, crashes>>

-----------------------------------------------------------------------------
\* What a participant does with a call (external: it follows the contract of
\* ParticipantService in transaction.proto).
Done(s, what) ==
    outcome' = [outcome EXCEPT ![participants[s]] = @ \cup what]

Serve(k, s) ==
    /\ <<k, s>> \in inflight
    /\ inflight' = inflight \ {<<k, s>>}
    /\ served' = served \cup {<<k, s>>}
    /\ \/ k = "commit" /\ Done(s, {"committed"}) /\ UNCHANGED vote
       \/ k = "abort"  /\ Done(s, {"aborted"})   /\ UNCHANGED vote
       \/ \E v \in WireVote :
             /\ k \in {"prepare", "prepare_and_commit"}
             /\ vote' = [vote EXCEPT ![s] = v]
             /\ Done(s, IF v > 1 THEN {"aborted"}
                        ELSE IF v = 0 /\ k = "prepare_and_commit"
                        THEN {"committed"} ELSE {})
    /\ UNCHANGED <<store, lease, suspect, local, answered, crashes>>

Lose(k, s) ==
    /\ <<k, s>> \in inflight
    /\ inflight' = inflight \ {<<k, s>>}
    /\ UNCHANGED <<store, lease, suspect, local, served, vote, outcome,
                   answered, crashes>>

\* call_prepare, call_commit, call_abort, call_prepare_and_commit: Ok(..).
CallReturns(h, s) ==
    /\ pc[h] \in Waiting
    /\ reply[h][s] = "waiting"
    /\ <<CallOf(pc[h]), s>> \in served
    /\ reply' = [reply EXCEPT ![h][s] =
                    IF pc[h] \in {"preparing", "pac"}
                    THEN vote_from_i32(vote[s]) ELSE "ok"]
    /\ UNCHANGED <<store, lease, suspect, pc, list, net, answered, crashes>>

\* Mutant: no timeout; only a lost call is noticed.
NoTimeout(h, s) ==
    /\ pc[h] \in Waiting
    /\ reply[h][s] = "waiting"
    /\ <<CallOf(pc[h]), s>> \notin inflight
    /\ reply' = [reply EXCEPT ![h][s] = "error"]
    /\ UNCHANGED <<store, lease, suspect, pc, list, net, answered, crashes>>

\* ... or Err(..): no connection, a lost answer, or the timeout.
CallFails(h, s) ==
    /\ pc[h] \in Waiting
    /\ reply[h][s] = "waiting"
    /\ reply' = [reply EXCEPT ![h][s] = "error"]
    /\ UNCHANGED <<store, lease, suspect, pc, list, net, answered, crashes>>

-----------------------------------------------------------------------------
\* The client of h went away: tonic drops the handler's future at an await.
\* (A cascade task is spawned and has no client.)
Dropped(h) ==
    /\ h \in Caller
    /\ pc[h] \notin {"idle", "expire_fetch", "expiring"}
    /\ Return(h, {})
    /\ UNCHANGED <<store, lease, suspect, net, crashes>>

\* The process restarts over a durable store: every task and strike is lost.
Crash ==
    /\ crashes < MaxCrash
    /\ crashes' = crashes + 1
    /\ suspect' = FALSE
    /\ pc' = [h \in Handler |-> "idle"]
    /\ list' = [h \in Handler |-> <<>>]
    /\ reply' = [h \in Handler |-> NoReply]
    /\ UNCHANGED <<store, lease, net, answered>>

Step(h) ==
    \/ BeginCreate(h)
    \/ CommitRefused(h) \/ CommitFetch(h) \/ CommitEmpty(h) \/ PacDone(h)
    \/ PrepareDone(h) \/ CommitDone(h) \/ UndoDone(h) \/ CancelLease(h)
    \/ AbortRefused(h) \/ AbortFetch(h) \/ AbortDone(h)
    \/ ExpireFetch(h) \/ ExpireDone(h)

Request(h) == BeginGrant(h) \/ CommitClaim(h) \/ AbortClaim(h) \/ Cascade(h)

Next ==
    \/ \E h \in Handler : Step(h) \/ Request(h) \/ Dropped(h)
    \/ \E h \in Handler, s \in Slot : CallReturns(h, s) \/ CallFails(h, s)
    \/ \E k \in Kind, s \in Slot : Serve(k, s) \/ Lose(k, s)
    \/ \E p \in Endpoint : Enlist(p)
    \/ LeaseReclaimed \/ SweepList \/ SweepCheck \/ Crash

Spec == Init /\ [][Next]_vars

\* tokio keeps polling a task that is ready, every participant call is ended
\* by its timeout at the latest, and the sweep's interval keeps ticking.
Fairness ==
    /\ \A h \in Handler : WF_vars(Step(h))
    /\ \A h \in Handler, s \in Slot : WF_vars(CallFails(h, s))
    /\ WF_vars(SweepList) /\ WF_vars(SweepCheck)

FairSpec == Spec /\ Fairness

-----------------------------------------------------------------------------
Participants == {l \in Seq(Endpoint) : Len(l) <= MaxEnlist}

TypeOK ==
    /\ state \in TransactionState \cup {"none"}
    /\ participants \in Participants
    /\ lease \in {"none", "held", "gone"}
    /\ suspect \in BOOLEAN
    /\ pc \in [Handler -> PC]
    /\ list \in [Handler -> Participants]
    /\ reply \in [Handler -> [Slot -> Reply]]
    /\ inflight \subseteq Kind \X Slot
    /\ served \subseteq Kind \X Slot
    /\ vote \in [Slot -> WireVote \cup {NoVote}]
    /\ outcome \in [Endpoint -> SUBSET {"committed", "aborted"}]
    /\ answered \subseteq Answer
    /\ crashes \in 0..MaxCrash

\* Atomicity: no participant commits its share of the transaction while
\* another (or itself) rolls back, whatever commit, abort, lease expiry and
\* late calls do (manager.rs commit/abort/abort_expired and their CASes).
Agreement ==
    \A p, q \in Endpoint :
        ~("committed" \in outcome[p] /\ "aborted" \in outcome[q])

\* No participant commits unless everyone enlisted in the stored record has
\* answered the vote with PREPARED or NOTCHANGED: no enlist slips in between
\* the claim and the re-read of the list, and no vote defaults to commit.
UnanimousCommit ==
    (\E p \in Endpoint : "committed" \in outcome[p]) =>
        \A s \in DOMAIN participants : vote[s] \in {0, 1}

\* The recorded decision never contradicts what a participant did.
DecisionIsTrue ==
    /\ state \in {"prepared", "committed"} =>
          \A p \in Endpoint : "aborted" \notin outcome[p]
    /\ state = "aborted" =>
          \A p \in Endpoint : "committed" \notin outcome[p]

\* Two clients of one transaction are never told different outcomes, and
\* after an OutcomeUnknown nobody is told that it aborted: the participant
\* may have committed.
ClientsAgree ==
    answered \cap {"abort_ok", "commit_aborted"} # {} =>
        answered \cap {"commit_ok", "abort_terminal", "commit_unknown"} = {}

\* The CASes inside commit never fail ("Failure means some other actor
\* changed the state under us", manager.rs:313): the claim owns the outcome.
CommitOwnsOutcome == "internal" \notin answered

\* The record only moves forward, and a finished transaction stays finished
\* with the participant list it was decided on.
OnlyForward ==
    [][/\ state \in {"committed", "aborted"} => UNCHANGED store
       /\ state = "prepared" => state' \in {"prepared", "committed"}
       /\ state = "voting" => state' \notin {"none", "active"}
       /\ state \notin {"none", "active"} => UNCHANGED participants]_vars

\* An Active transaction whose lease is gone stops being Active, even when
\* the cascade's message is lost or a restart forgets it: the sweep acts.
LeaselessIsEnded == (state = "active" /\ lease = "gone") ~> (state # "active")

\* Every handler returns: unreachable participants cannot hold it forever.
HandlersReturn == \A h \in Handler : pc[h] # "idle" ~> pc[h] = "idle"

-----------------------------------------------------------------------------
(* The inductive invariant behind the safety properties.                   *)

Voting  == {"commit_fetch", "commit_empty", "pac", "preparing"}
Owning  == Voting \cup {"committing"}
Undoing == {"undoing", "cancel_aborted", "abort_fetch", "aborting",
            "cancel_abort", "expire_fetch", "expiring"}
Calls   == inflight \cup served
AllYes  == \A s \in DOMAIN participants : vote[s] \in {0, 1}
Vetoed  == \E s \in DOMAIN participants : vote[s] \in {2, 3}

\* Where a handler is suspended tells what the record says.
PhaseInv ==
    \A h \in Handler :
        /\ pc[h] \in Voting => state = "voting"
        /\ pc[h] = "committing" => state = "prepared"
        /\ pc[h] = "cancel_committed" => state = "committed"
        /\ pc[h] \in Undoing => state = "aborted"

\* The record is created once.
BeginInv ==
    /\ state # "none" => lease # "none"
    /\ \A h \in Handler : pc[h] = "begin_create" =>
           /\ state = "none" /\ lease # "none"
           /\ \A g \in Handler : pc[g] = "begin_create" => g = h

\* One handler at most owns the commit, and its list is the record's.
OwnerInv ==
    \A h \in Handler :
        /\ \A g \in Handler : pc[h] \in Owning /\ pc[g] \in Owning => g = h
        /\ pc[h] \in (Owning \ {"commit_fetch"}) \cup Waiting =>
              list[h] = participants
        /\ pc[h] = "commit_fetch" => Calls = {}
        /\ pc[h] = "commit_empty" => Len(participants) = 0
        /\ pc[h] = "pac" => Len(participants) = 1
        /\ pc[h] = "preparing" => Len(participants) > 1

\* Which calls can exist in which state.
CallInv ==
    /\ state \in {"none", "active"} => Calls = {}
    /\ \A k \in Kind, s \in Slot : <<k, s>> \in Calls =>
          /\ s \in DOMAIN participants
          /\ k = "commit" => state \in {"prepared", "committed"} /\ AllYes
          /\ k = "abort" => state = "aborted"
          /\ k = "prepare" => Len(participants) > 1
          /\ k = "prepare_and_commit" => Len(participants) = 1
    /\ \A s \in Slot :
          /\ <<"prepare", s>> \in inflight => vote[s] = NoVote
          /\ <<"prepare_and_commit", s>> \in inflight =>
                vote[s] = NoVote /\ state = "voting"

\* A handler's collected votes are the ones the participants gave.
TrueReply(h, s) ==
    /\ reply[h][s] \in PrepareVote \cup {"waiting", "error"}
    /\ reply[h][s] \in PrepareVote =>
          vote[s] # NoVote /\ reply[h][s] = vote_from_i32(vote[s])

ReplyInv ==
    \A h \in Handler :
        /\ pc[h] = "pac" => TrueReply(h, 1)
        /\ pc[h] = "preparing" => \A s \in DOMAIN participants : TrueReply(h, s)

\* Decisions, effects and votes are consistent.
OutcomeInv ==
    /\ \A s \in Slot : vote[s] # NoVote <=>
          <<"prepare", s>> \in served \/ <<"prepare_and_commit", s>> \in served
    /\ state \in {"prepared", "committed"} => AllYes
    /\ \A p \in Endpoint :
          /\ "committed" \in outcome[p] =>
                /\ AllYes
                /\ \/ state \in {"prepared", "committed"}
                   \/ state = "voting" /\ Len(participants) = 1
          /\ "aborted" \in outcome[p] =>
                \/ state = "aborted"
                \/ state = "voting" /\ Vetoed

\* What clients were told is what the record says, now and from now on.
AnswerInv ==
    /\ \A a \in answered :
          /\ a # "internal"
          /\ a \in {"commit_ok", "abort_terminal"} => state = "committed"
          /\ a \in {"abort_ok", "commit_aborted"} => state = "aborted"
    /\ "commit_unknown" \in answered =>
          state = "voting" /\ \A h \in Handler : pc[h] \notin Owning

\* The conjunction: one commit owner at a time, whose private knowledge
\* (phase, list, votes) is what the store and the participants hold.
ProtocolInv ==
    /\ PhaseInv
    /\ BeginInv
    /\ OwnerInv
    /\ CallInv
    /\ ReplyInv
    /\ OutcomeInv
    /\ AnswerInv

-----------------------------------------------------------------------------
\* The decision is taken when the coordinator records it, or when the
\* participant that settles it acts: a veto, or the only one committing.
Did(what) == \E p \in Endpoint : what \in outcome[p]

decision ==
    IF state \in {"prepared", "committed"} \/ Did("committed")
    THEN "committed"
    ELSE IF state = "aborted" \/ Did("aborted") THEN "aborted" ELSE "open"

Abstract == INSTANCE TxnOutcome

\* The coordinator with its handlers, calls and crashes implements the
\* one-decision specification.
ImplementsTxnOutcome == Abstract!Spec

\* transaction.proto on COMMITTED: "all participants committed".
CommittedEverywhere ==
    state = "committed" =>
        \A s \in DOMAIN participants :
            vote[s] = 0 => "committed" \in outcome[participants[s]]

\* transaction.proto on Begin: "Let the lease expire and the transaction
\* auto-aborts": a transaction without a lease does not stay undecided.
LeaseEndDecides ==
    (state # "none" /\ lease = "gone") ~> (state \in {"committed", "aborted"})
=============================================================================
