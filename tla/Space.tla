------------------------------- MODULE Space -------------------------------
(***************************************************************************)
(* The tuple space (coordin8-space) over its in-memory store: leased       *)
(* tuples, transaction buffers, blocking read and take, lease expiry, and  *)
(* the Space's side of two-phase commit.                                   *)
(*                                                                         *)
(* A step is an operation on one of the store's concurrent maps: tasks run *)
(* on several threads and meet between any two of them.  Removing a        *)
(* buffer's entries from txn_lease_index is part of the step that claims   *)
(* the buffer: an expiry in between finds nothing either way.  A tuple has *)
(* one lease of its own and stands for it in the indexes.                  *)
(***************************************************************************)
EXTENDS Naturals, Sequences, FiniteSets

CONSTANTS
    Tuple, Client, Txn,
    NoTxn,        \* txn_id is None
    NoTuple,
    Handler,      \* participant calls being served
    Remover,      \* on_tuple_expired tasks
    Matches,      \* the tuples each client's template matches
    Asks,         \* the <<method, txn>> each client may ask for
    Capacity,     \* of the tuple_tx broadcast
    MaxCalls,     \* bound: calls clients make
    MaxExpiry,    \* bound: leases that expire
    MaxLoss       \* bound: answers, participant calls and reclaims that get lost

Context == Txn \cup {NoTxn}
Method == {"write", "read", "take", "cancel"}
Unwritten == "unwritten"

ASSUME SpaceAssumption ==
    /\ NoTxn \notin Txn /\ Unwritten \notin Context /\ NoTuple \notin Tuple
    /\ Matches \in [Client -> SUBSET Tuple]
    /\ Asks \in [Client -> SUBSET (Method \X Context)]
    /\ Capacity \in Nat \ {0} /\ MaxCalls \in Nat /\ MaxExpiry \in Nat /\ MaxLoss \in Nat

VARIABLES
    store,        \* InMemorySpaceStore
    enlisted,     \* SpaceManager.enlisted
    lease,        \* of each tuple: "none", "standing" or "gone"
    reclaims,     \* reclaims the cascade has not handled
    txns,         \* at the coordinator: outcome, entries of the Space in the list
    calls,        \* participant calls on their way: <<txn, call, entry>>
    votes,        \* answers to Prepare: <<txn, entry, prepared>>
    client,       \* each client's call, with its broadcast receiver
    handler,      \* each participant call: tuples to make visible, made
                  \* visible, to release, and the one in hand
    remover,      \* each on_tuple_expired
    history,      \* of each tuple: where it was written, how often it left;
                  \* the tuples returned before they were committed
    spent         \* what is used of the bounds

leases == <<lease, reclaims>>
coord  == <<txns, calls, votes>>
vars   == <<store, enlisted, leases, coord, client, handler, remover, history, spent>>

IdleClient  == [pc |-> "idle", method |-> "none", txn |-> NoTxn, tuple |-> NoTuple,
                inbox |-> <<>>, lagged |-> FALSE]
IdleHandler == [pc |-> "idle", txn |-> NoTxn, method |-> "none",
                todo |-> {}, moved |-> {}, freed |-> {}, tuple |-> NoTuple]
IdleRemover == [pc |-> "idle", tuple |-> NoTuple, txn |-> NoTxn]

Init ==
    /\ store = [tuples |-> {}, lease_index |-> {},
                uncommitted |-> [x \in Txn |-> {}],
                txn_taken |-> [x \in Txn |-> {}],
                txn_self_taken |-> [x \in Txn |-> {}],
                txn_lease_index |-> [t \in Tuple |-> NoTxn]]
    /\ enlisted = {}
    /\ lease = [t \in Tuple |-> "none"] /\ reclaims = {}
    /\ txns = [x \in Txn |-> [outcome |-> "open", entries |-> 0]]
    /\ calls = {} /\ votes = {}
    /\ client = [c \in Client |-> IdleClient]
    /\ handler = [h \in Handler |-> IdleHandler]
    /\ remover = [r \in Remover |-> IdleRemover]
    /\ history = [written |-> [t \in Tuple |-> Unwritten],
                  ended |-> [t \in Tuple |-> 0], leaked |-> {}]
    /\ spent = [calls |-> 0, expiries |-> 0, losses |-> 0]

-----------------------------------------------------------------------------
Goto(c, l)  == client' = [client EXCEPT ![c].pc = l]
HGoto(h, l) == handler' = [handler EXCEPT ![h].pc = l]
RGoto(r, l) == remover' = [remover EXCEPT ![r].pc = l]

\* The call returns, and its receiver is dropped.
Return(c) == client' = [client EXCEPT ![c] = IdleClient]

\* LeaseManager.cancel: a lease that is still there goes, and is announced.
CancelLease(t) ==
    IF lease[t] = "standing"
    THEN lease' = [lease EXCEPT ![t] = "gone"] /\ reclaims' = reclaims \cup {t}
    ELSE UNCHANGED leases

\* The history of tuples that leave the space.
Ended(S) == [t \in Tuple |-> IF t \in S THEN history.ended[t] + 1 ELSE history.ended[t]]

\* A call returns t: too early when t was written in a transaction other than
\* the caller's and that one has not committed.
Result(c, t) ==
    LET x == history.written[t] IN
    history' = IF x \in {NoTxn, client[c].txn} \/ txns[x].outcome = "commit" THEN history
               ELSE [history EXCEPT !.leaked = @ \cup {t}]

\* A call subscribes before it first looks, and is then at one of these.
Subscribed(k) == k.pc \in {"own", "scan", "blocked"}

\* tuple_tx.send reaches the calls that have subscribed; a receiver that is
\* Capacity behind loses its oldest value and is told so.
Send(t, now) ==
    client' = [c \in Client |->
        IF ~Subscribed(now[c]) THEN now[c]
        ELSE IF Len(now[c].inbox) < Capacity THEN [now[c] EXCEPT !.inbox = Append(@, t)]
        ELSE [now[c] EXCEPT !.inbox = Append(Tail(@), t), !.lagged = TRUE]]

-----------------------------------------------------------------------------
\* SpaceManager.write: the lease comes first.
Write(c, t, x) ==
    /\ client[c].pc = "idle" /\ lease[t] = "none"
    /\ lease' = [lease EXCEPT ![t] = "standing"]
    /\ client' = [client EXCEPT ![c] = [@ EXCEPT !.method = "write", !.txn = x, !.tuple = t,
                                        !.pc = IF x = NoTxn THEN "insert" ELSE "check"]]
    /\ UNCHANGED <<store, enlisted, reclaims, coord, history>>

\* SpaceManager.read and take; only a take enlists.
Seek(c, m, x) ==
    /\ client[c].pc = "idle" /\ m \in {"read", "take"}
    /\ client' = [client EXCEPT ![c] = [@ EXCEPT !.method = m, !.txn = x,
                                        !.pc = IF m = "take" /\ x # NoTxn THEN "check" ELSE "scan"]]
    /\ UNCHANGED <<store, enlisted, leases, coord, history>>

AfterEnlist(c) == IF client[c].method = "write" THEN "buffer" ELSE "own"

\* ensure_enlisted: skip when the transaction is known ...
CheckEnlisted(c) ==
    /\ client[c].pc = "check"
    /\ Goto(c, IF client[c].txn \in enlisted THEN AfterEnlist(c) ELSE "enlist")
    /\ UNCHANGED <<store, enlisted, leases, coord, history>>

\* ... else enlist, which the transaction manager refuses once it is claimed ...
Enlist(c) ==
    LET x == client[c].txn IN
    /\ client[c].pc = "enlist"
    /\ \/ /\ txns[x].outcome = "open"
          /\ txns' = [txns EXCEPT ![x].entries = @ + 1]
          /\ Goto(c, "mark")
       \/ txns[x].outcome # "open" /\ Return(c) /\ UNCHANGED txns
    /\ UNCHANGED <<store, enlisted, leases, calls, votes, history>>

\* (the answer may never come: the call fails, though the Space is in the list)
EnlistUnanswered(c) ==
    LET x == client[c].txn IN
    /\ client[c].pc = "enlist" /\ txns[x].outcome = "open"
    /\ txns' = [txns EXCEPT ![x].entries = @ + 1]
    /\ Return(c)
    /\ UNCHANGED <<store, enlisted, leases, calls, votes, history>>

\* ... and remember it.
MarkEnlisted(c) ==
    /\ client[c].pc = "mark"
    /\ enlisted' = enlisted \cup {client[c].txn}
    /\ Goto(c, AfterEnlist(c))
    /\ UNCHANGED <<store, leases, coord, history>>

\* insert_uncommitted: the index, then the buffer.  A take in a transaction
\* comes by here too, to keep its tuple for an abort.
IndexInTxn(c) ==
    LET k == client[c] IN
    /\ k.pc \in {"buffer", "track"}
    /\ store' = [store EXCEPT !.txn_lease_index[k.tuple] = k.txn]
    /\ Goto(c, IF k.pc = "buffer" THEN "push" ELSE "hold")
    /\ UNCHANGED <<enlisted, leases, coord, history>>

\* Mutant: a buffered write is broadcast like any other.
LoudPush(c) ==
    LET k == client[c] IN
    /\ k.pc = "push"
    /\ store' = [store EXCEPT !.uncommitted[k.txn] = @ \cup {k.tuple}]
    /\ history' = [history EXCEPT !.written[k.tuple] = k.txn]
    /\ Send(k.tuple, [client EXCEPT ![c] = IdleClient])
    /\ UNCHANGED <<enlisted, leases, coord>>

BufferPush(c) ==
    LET k == client[c] IN
    /\ k.pc = "push"
    /\ store' = [store EXCEPT !.uncommitted[k.txn] = @ \cup {k.tuple}]
    /\ history' = [history EXCEPT !.written[k.tuple] = k.txn]
    /\ Return(c)
    /\ UNCHANGED <<enlisted, leases, coord>>

\* insert: the tuple, then the index; then the broadcast.
Insert(c) ==
    LET k == client[c] IN
    /\ k.pc = "insert"
    /\ store' = [store EXCEPT !.tuples = @ \cup {k.tuple}]
    /\ history' = [history EXCEPT !.written[k.tuple] = NoTxn]
    /\ Goto(c, "index")
    /\ UNCHANGED <<enlisted, leases, coord>>

InsertIndex(c) ==
    /\ client[c].pc = "index"
    /\ store' = [store EXCEPT !.lease_index = @ \cup {client[c].tuple}]
    /\ Goto(c, "send")
    /\ UNCHANGED <<enlisted, leases, coord, history>>

InsertSend(c) ==
    /\ client[c].pc = "send"
    /\ Send(client[c].tuple, [client EXCEPT ![c] = IdleClient])
    /\ UNCHANGED <<store, enlisted, leases, coord, history>>

-----------------------------------------------------------------------------
\* What a call can find in the place it looks at: the committed tuples, or its
\* transaction's uncommitted ones.
Found(c) ==
    LET k == client[c] IN
    Matches[c] \cap IF k.pc = "own" THEN store.uncommitted[k.txn] ELSE store.tuples

\* A take looks in the own buffer first, a read in the committed tuples.
FirstPlace(c) ==
    IF client[c].method = "take" /\ client[c].txn # NoTxn THEN "own" ELSE "scan"

\* find_match.
ReadMatch(c, t) ==
    /\ client[c].method = "read" /\ client[c].pc \in {"own", "scan"} /\ t \in Found(c)
    /\ Result(c, t)
    /\ Return(c)
    /\ UNCHANGED <<store, enlisted, leases, coord>>

\* The first place has no match: on to the other one.
LookFurther(c) ==
    /\ client[c].txn # NoTxn /\ client[c].pc = FirstPlace(c) /\ Found(c) = {}
    /\ Goto(c, IF client[c].pc = "own" THEN "scan" ELSE "own")
    /\ UNCHANGED <<store, enlisted, leases, coord, history>>

\* Mutant: an own write that is taken is forgotten.
TakeOwnUntracked(c, t) ==
    LET k == client[c] IN
    /\ k.pc = "own" /\ k.method = "take" /\ t \in Found(c)
    /\ store' = [store EXCEPT !.uncommitted[k.txn] = @ \ {t}]
    /\ Result(c, t)
    /\ Return(c)
    /\ UNCHANGED <<enlisted, leases, coord>>

\* take_match tries the transaction's own writes first ...
TakeOwn(c, t) ==
    LET k == client[c] IN
    /\ k.pc = "own" /\ k.method = "take" /\ t \in Found(c)
    /\ store' = [store EXCEPT !.uncommitted[k.txn] = @ \ {t},
                              !.txn_self_taken[k.txn] = @ \cup {t}]
    /\ Result(c, t)
    /\ Return(c)
    /\ UNCHANGED <<enlisted, leases, coord>>

\* ... then removes a committed match, looking again when it lost a race ...
TakeCommitted(c, t) ==
    LET k == client[c] IN
    /\ k.pc = "scan" /\ k.method = "take" /\ t \in Found(c)
    /\ store' = [store EXCEPT !.tuples = @ \ {t}]
    /\ client' = [client EXCEPT ![c].tuple = t, ![c].pc = "unindex"]
    /\ history' = IF k.txn = NoTxn THEN [history EXCEPT !.ended = Ended({t})] ELSE history
    /\ UNCHANGED <<enlisted, leases, coord>>

\* SpaceManager.cancel removes a tuple by its id; what follows is as for take.
Cancel(c, t) ==
    /\ client[c].pc = "idle" /\ t \in store.tuples
    /\ store' = [store EXCEPT !.tuples = @ \ {t}]
    /\ client' = [client EXCEPT ![c].method = "cancel", ![c].tuple = t, ![c].pc = "unindex"]
    /\ history' = [history EXCEPT !.ended = Ended({t})]
    /\ UNCHANGED <<enlisted, leases, coord>>

Unindex(c) ==
    LET k == client[c] IN
    /\ k.pc = "unindex"
    /\ store' = [store EXCEPT !.lease_index = @ \ {k.tuple}]
    /\ Goto(c, IF k.txn = NoTxn THEN "release" ELSE "track")
    /\ UNCHANGED <<enlisted, leases, coord, history>>

\* Outside a transaction the lease is cancelled at once.
Release(c) ==
    /\ client[c].pc = "release"
    /\ CancelLease(client[c].tuple)
    /\ IF client[c].method = "take" THEN Result(c, client[c].tuple) ELSE UNCHANGED history
    /\ Return(c)
    /\ UNCHANGED <<store, enlisted, coord>>

\* In a transaction the tuple is kept.
TrackHold(c) ==
    LET k == client[c] IN
    /\ k.pc = "hold"
    /\ store' = [store EXCEPT !.txn_taken[k.txn] = @ \cup {k.tuple}]
    /\ Result(c, k.tuple)
    /\ Return(c)
    /\ UNCHANGED <<enlisted, leases, coord>>

\* No match: return, or wait for a broadcast.
NoMatch(c) ==
    LET k == client[c] IN
    /\ k.pc \in {"own", "scan"} /\ (k.txn = NoTxn \/ k.pc # FirstPlace(c)) /\ Found(c) = {}
    /\ Return(c) \/ Goto(c, "blocked")
    /\ UNCHANGED <<store, enlisted, leases, coord, history>>

\* A broadcast wakes the call.  A read returns a matching tuple as it is; a
\* take looks again, because another taker may have been faster.
Wake(c) ==
    LET k == client[c]
        t == Head(k.inbox)
    IN
    /\ k.pc = "blocked" /\ ~k.lagged /\ k.inbox # <<>>
    /\ \/ t \in Matches[c] /\ k.method = "read" /\ Result(c, t) /\ Return(c)
       \/ /\ t \in Matches[c] /\ k.method = "take"
          /\ client' = [client EXCEPT ![c].inbox = Tail(@), ![c].pc = FirstPlace(c)]
          /\ UNCHANGED history
       \/ /\ t \notin Matches[c]
          /\ client' = [client EXCEPT ![c].inbox = Tail(@)]
          /\ UNCHANGED history
    /\ UNCHANGED <<store, enlisted, leases, coord>>

\* After a lag both look again.
WakeLagged(c) ==
    /\ client[c].pc = "blocked" /\ client[c].lagged
    /\ client' = [client EXCEPT ![c].lagged = FALSE, ![c].pc = FirstPlace(c)]
    /\ UNCHANGED <<store, enlisted, leases, coord, history>>

\* The call times out, or its client goes away.
GiveUp(c) ==
    /\ client[c].pc = "blocked"
    /\ Return(c)
    /\ UNCHANGED <<store, enlisted, leases, coord, history>>

-----------------------------------------------------------------------------
\* The coordinator claims the transaction for a commit.  The Space alone gets
\* PrepareAndCommit, which leaves the outcome to it; with others, or when it
\* is in the list twice, it is asked to prepare.
TxnCommit(x) ==
    LET ask(call) == {<<x, call, i>> : i \in 1 .. txns[x].entries} IN
    /\ txns[x].outcome = "open"
    /\ \/ /\ txns[x].entries <= 1
          /\ txns' = [txns EXCEPT ![x].outcome = "commit"]
          /\ calls' = calls \cup ask("prepare_and_commit")
       \/ /\ txns[x].entries > 0
          /\ txns' = [txns EXCEPT ![x].outcome = "voting"]
          /\ calls' = calls \cup ask("prepare")
    /\ UNCHANGED votes

\* All have voted: those that prepared are told to commit.
TxnDecideCommit(x) ==
    /\ txns[x].outcome = "voting"
    /\ \A i \in 1 .. txns[x].entries : \E b \in BOOLEAN : <<x, i, b>> \in votes
    /\ txns' = [txns EXCEPT ![x].outcome = "commit"]
    /\ calls' = calls \cup {<<x, "commit", v[2]>> : v \in {w \in votes : w[1] = x /\ w[3]}}
    /\ votes' = {v \in votes : v[1] # x}

\* An abort, an expired lease, a participant that refuses or does not answer.
TxnAbort(x) ==
    /\ txns[x].outcome \in {"open", "voting"}
    /\ txns' = [txns EXCEPT ![x].outcome = "abort"]
    /\ calls' = calls \cup {<<x, "abort", i>> : i \in 1 .. txns[x].entries}
    /\ votes' = {v \in votes : v[1] # x}

\* A call never arrives.
LoseCall(k) == calls' = calls \ {k} /\ UNCHANGED <<txns, votes>>

-----------------------------------------------------------------------------
Buffered(x) == store.uncommitted[x] \cup store.txn_taken[x] \cup store.txn_self_taken[x]

has_txn(x) == Buffered(x) # {}

\* SpaceParticipantService.prepare answers at once.
Prepare(k) ==
    /\ k[2] = "prepare"
    /\ calls' = calls \ {k}
    /\ votes' = votes \cup {<<k[1], k[3], has_txn(k[1])>>}
    /\ UNCHANGED txns

\* The other calls end the transaction here; prepare_and_commit does so only
\* when there is something to commit.
Serve(h, k) ==
    /\ handler[h].pc = "idle" /\ k[2] # "prepare"
    /\ calls' = calls \ {k}
    /\ IF k[2] = "prepare_and_commit" /\ ~has_txn(k[1])
       THEN UNCHANGED handler
       ELSE handler' = [handler EXCEPT ![h].txn = k[1], ![h].method = k[2],
                                       ![h].pc = IF k[2] = "abort" THEN "gone" ELSE "kept"]
    /\ UNCHANGED <<txns, votes>>

\* The lease index of the buffers without the tuples of S.
Unbuffered(S) == [t \in Tuple |-> IF t \in S THEN NoTxn ELSE store.txn_lease_index[t]]

\* commit_txn makes the transaction's writes visible and drops what it took;
\* abort_txn drops the writes first and then restores what was taken.
Kept(h) == IF handler[h].method = "abort" THEN "txn_taken" ELSE "uncommitted"
Gone(h) == IF handler[h].method = "abort" THEN "uncommitted" ELSE "txn_taken"

\* They claim the buffer to be kept ...
ClaimKept(h) ==
    LET x == handler[h].txn
        S == store[Kept(h)][x]
    IN
    /\ handler[h].pc = "kept"
    /\ store' = [store EXCEPT ![Kept(h)][x] = {}, !.txn_lease_index = Unbuffered(S)]
    /\ handler' = [handler EXCEPT ![h].todo = S, ![h].pc = "show"]
    /\ UNCHANGED <<enlisted, leases, client, history>>

\* ... and make its tuples visible one by one, each before its index.
Show(h, t) ==
    /\ handler[h].pc = "show" /\ t \in handler[h].todo
    /\ store' = [store EXCEPT !.tuples = @ \cup {t}]
    /\ handler' = [handler EXCEPT ![h].todo = @ \ {t}, ![h].moved = @ \cup {t},
                                  ![h].tuple = t, ![h].pc = "show_index"]
    /\ UNCHANGED <<enlisted, leases, client, history>>

\* Mutant: what becomes visible is not indexed by its lease.
ShowUnindexed(h) ==
    /\ handler[h].pc = "show_index"
    /\ handler' = [handler EXCEPT ![h].tuple = NoTuple, ![h].pc = "show"]
    /\ UNCHANGED <<store, enlisted, leases, client, history>>

ShowIndex(h) ==
    /\ handler[h].pc = "show_index"
    /\ store' = [store EXCEPT !.lease_index = @ \cup {handler[h].tuple}]
    /\ handler' = [handler EXCEPT ![h].tuple = NoTuple, ![h].pc = "show"]
    /\ UNCHANGED <<enlisted, leases, client, history>>

\* The other buffer is dropped, ...
ClaimGone(h) ==
    LET x == handler[h].txn
        S == store[Gone(h)][x]
    IN
    /\ \/ handler[h].pc = "gone"
       \/ handler[h].pc = "show" /\ handler[h].todo = {} /\ handler[h].method # "abort"
    /\ store' = [store EXCEPT ![Gone(h)][x] = {}, !.txn_lease_index = Unbuffered(S)]
    /\ handler' = [handler EXCEPT ![h].freed = S, ![h].pc = "claim_self"]
    /\ history' = [history EXCEPT !.ended = Ended(S)]
    /\ UNCHANGED <<enlisted, leases, client>>

\* ... and so are own writes that were taken.
ClaimSelf(h) ==
    LET x == handler[h].txn
        S == store.txn_self_taken[x]
    IN
    /\ handler[h].pc = "claim_self"
    /\ store' = [store EXCEPT !.txn_self_taken[x] = {}, !.txn_lease_index = Unbuffered(S)]
    /\ handler' = [handler EXCEPT ![h].freed = @ \cup S,
                                  ![h].pc = IF handler[h].method = "abort" THEN "kept" ELSE "unenlist"]
    /\ history' = [history EXCEPT !.ended = Ended(S)]
    /\ UNCHANGED <<enlisted, leases, client>>

\* commit_space_txn and abort_space_txn forget the enlistment ...
Unenlist(h) ==
    LET k == handler[h] IN
    /\ k.pc = "unenlist" \/ (k.pc = "show" /\ k.todo = {} /\ k.method = "abort")
    /\ enlisted' = enlisted \ {k.txn}
    /\ HGoto(h, "release")
    /\ UNCHANGED <<store, leases, client, history>>

\* ... cancel the leases of what is gone ...
ReleaseFreed(h, t) ==
    /\ handler[h].pc = "release" /\ t \in handler[h].freed
    /\ handler' = [handler EXCEPT ![h].freed = @ \ {t}]
    /\ CancelLease(t)
    /\ UNCHANGED <<store, enlisted, client, history>>

\* Mutant: restored and flushed tuples are not broadcast.
QuietAnnounce(h, t) ==
    /\ handler[h].pc = "release" /\ handler[h].freed = {} /\ t \in handler[h].moved
    /\ handler' = [handler EXCEPT ![h].moved = @ \ {t}]
    /\ UNCHANGED <<store, enlisted, leases, client, history>>

\* ... and broadcast what has become visible.
Announce(h, t) ==
    /\ handler[h].pc = "release" /\ handler[h].freed = {} /\ t \in handler[h].moved
    /\ handler' = [handler EXCEPT ![h].moved = @ \ {t}]
    /\ Send(t, client)
    /\ UNCHANGED <<store, enlisted, leases, history>>

Served(h) ==
    /\ handler[h].pc = "release" /\ handler[h].freed = {} /\ handler[h].moved = {}
    /\ handler' = [handler EXCEPT ![h] = IdleHandler]
    /\ UNCHANGED <<store, enlisted, leases, client, history>>

-----------------------------------------------------------------------------
\* A tuple's lease expires.
Expire(t) ==
    /\ lease[t] = "standing"
    /\ CancelLease(t)

\* The cascade never sees the reclaim.
LoseReclaim(t) == t \in reclaims /\ reclaims' = reclaims \ {t} /\ UNCHANGED lease

\* on_tuple_expired is called by the cascade, or by the orphan sweep, which
\* lists the committed tuples.
Cascade(r, t) ==
    /\ remover[r].pc = "idle" /\ t \in reclaims
    /\ reclaims' = reclaims \ {t}
    /\ remover' = [remover EXCEPT ![r].tuple = t, ![r].pc = "index"]
    /\ UNCHANGED <<store, lease, history>>

Sweep(r, t) ==
    /\ remover[r].pc = "idle" /\ t \in store.tuples /\ lease[t] = "gone"
    /\ remover' = [remover EXCEPT ![r].tuple = t, ![r].pc = "index"]
    /\ UNCHANGED <<store, leases, history>>

Expired(r) == remover' = [remover EXCEPT ![r] = IdleRemover]

\* remove_by_lease looks in the index ...
RemoveIndex(r) ==
    LET t == remover[r].tuple IN
    /\ remover[r].pc = "index"
    /\ store' = [store EXCEPT !.lease_index = @ \ {t}]
    /\ RGoto(r, IF t \in store.lease_index THEN "tuple" ELSE "txn_index")
    /\ UNCHANGED <<leases, history>>

\* ... removes the tuple, which on_tuple_expired broadcasts as expired ...
RemoveTuple(r) ==
    LET t == remover[r].tuple IN
    /\ remover[r].pc = "tuple"
    /\ store' = [store EXCEPT !.tuples = @ \ {t}]
    /\ history' = [history EXCEPT !.ended = Ended(store.tuples \cap {t})]
    /\ IF t \in store.tuples THEN Expired(r) ELSE RGoto(r, "txn_index")
    /\ UNCHANGED leases

\* ... or, failing that, looks for it in the buffers.
RemoveTxnIndex(r) ==
    LET t == remover[r].tuple
        x == store.txn_lease_index[t]
    IN
    /\ remover[r].pc = "txn_index"
    /\ store' = [store EXCEPT !.txn_lease_index[t] = NoTxn]
    /\ IF x = NoTxn THEN Expired(r)
       ELSE remover' = [remover EXCEPT ![r].txn = x, ![r].pc = "buffer"]
    /\ UNCHANGED <<leases, history>>

\* Mutant: what is found in a buffer is copied, not removed.
CopyBuffered(r) ==
    LET t == remover[r].tuple
        x == remover[r].txn
    IN
    /\ remover[r].pc = "buffer"
    /\ history' = [history EXCEPT !.ended = Ended(Buffered(x) \cap {t})]
    /\ Expired(r)
    /\ UNCHANGED <<store, leases>>

RemoveBuffered(r) ==
    LET t == remover[r].tuple
        x == remover[r].txn
    IN
    /\ remover[r].pc = "buffer"
    /\ store' = [store EXCEPT !.uncommitted[x] = @ \ {t}, !.txn_taken[x] = @ \ {t},
                              !.txn_self_taken[x] = @ \ {t}]
    /\ history' = [history EXCEPT !.ended = Ended(Buffered(x) \cap {t})]
    /\ Expired(r)
    /\ UNCHANGED leases

-----------------------------------------------------------------------------
\* What is used of a bound.
Spend(what, max) == spent[what] < max /\ spent' = [spent EXCEPT ![what] = @ + 1]

\* The steps of a client's call, ...
Begin(c) ==
    /\ Spend("calls", MaxCalls)
    /\ \E a \in Asks[c] :
          \/ a[1] = "write" /\ \E t \in Tuple : Write(c, t, a[2])
          \/ a[1] \in {"read", "take"} /\ Seek(c, a[1], a[2])
          \/ a = <<"cancel", NoTxn>> /\ \E t \in Tuple : Cancel(c, t)
    /\ UNCHANGED <<handler, remover>>

Continue(c) ==
    /\ \/ CheckEnlisted(c) \/ Enlist(c) \/ MarkEnlisted(c)
       \/ IndexInTxn(c) \/ BufferPush(c)
       \/ Insert(c) \/ InsertIndex(c) \/ InsertSend(c)
       \/ LookFurther(c) \/ NoMatch(c) \/ Wake(c) \/ WakeLagged(c)
       \/ \E t \in Tuple : ReadMatch(c, t) \/ TakeOwn(c, t) \/ TakeCommitted(c, t)
       \/ Unindex(c) \/ Release(c) \/ TrackHold(c)
    /\ UNCHANGED <<handler, remover, spent>>

Stop(c) ==
    /\ \/ EnlistUnanswered(c) /\ Spend("losses", MaxLoss)
       \/ GiveUp(c) /\ UNCHANGED spent
    /\ UNCHANGED <<handler, remover>>

\* ... of the coordinator and its calls, ...
Coordinate ==
    /\ \/ /\ \E x \in Txn : TxnCommit(x) \/ TxnDecideCommit(x) \/ TxnAbort(x)
          /\ UNCHANGED <<handler, spent>>
       \/ \E k \in calls : LoseCall(k) /\ Spend("losses", MaxLoss) /\ UNCHANGED handler
       \/ \E k \in calls : Prepare(k) /\ UNCHANGED <<handler, spent>>
       \/ \E k \in calls, h \in Handler : Serve(h, k) /\ UNCHANGED spent
    /\ UNCHANGED <<store, enlisted, leases, client, remover, history>>

Participate(h) ==
    /\ \/ ClaimKept(h) \/ ShowIndex(h) \/ ClaimGone(h) \/ ClaimSelf(h) \/ Unenlist(h) \/ Served(h)
       \/ \E t \in Tuple : Show(h, t) \/ ReleaseFreed(h, t) \/ Announce(h, t)
    /\ UNCHANGED <<coord, remover, spent>>

\* ... and of leases and on_tuple_expired.
Lapse(t) ==
    /\ \/ Expire(t) /\ Spend("expiries", MaxExpiry)
       \/ LoseReclaim(t) /\ Spend("losses", MaxLoss)
    /\ UNCHANGED <<store, enlisted, coord, client, handler, remover, history>>

Reclaim(r) ==
    /\ \E t \in Tuple : Cascade(r, t) \/ Sweep(r, t)
    /\ UNCHANGED <<enlisted, coord, client, handler, spent>>

Expiring(r) ==
    /\ RemoveIndex(r) \/ RemoveTuple(r) \/ RemoveTxnIndex(r) \/ RemoveBuffered(r)
    /\ UNCHANGED <<enlisted, coord, client, handler, spent>>

Next ==
    \/ \E c \in Client : Begin(c) \/ Continue(c) \/ Stop(c)
    \/ Coordinate
    \/ \E h \in Handler : Participate(h)
    \/ \E t \in Tuple : Lapse(t)
    \/ \E r \in Remover : Reclaim(r) \/ Expiring(r)

Spec == Init /\ [][Next]_vars

\* Tasks that can run do; the sweep keeps looking.  Nothing is assumed of
\* clients, transactions or the network.
Fairness ==
    /\ \A c \in Client : WF_vars(Continue(c))
    /\ \A h \in Handler : WF_vars(Participate(h))
    /\ \A r \in Remover : WF_vars(Expiring(r)) /\ WF_vars(Reclaim(r))

LiveSpec == Spec /\ Fairness

-----------------------------------------------------------------------------
\* The state is what the store, the manager and the tasks declare, and no
\* receiver holds more than the broadcast's capacity.
TypeOK ==
    /\ store \in [tuples : SUBSET Tuple, lease_index : SUBSET Tuple,
                  uncommitted : [Txn -> SUBSET Tuple], txn_taken : [Txn -> SUBSET Tuple],
                  txn_self_taken : [Txn -> SUBSET Tuple], txn_lease_index : [Tuple -> Context]]
    /\ enlisted \subseteq Txn
    /\ lease \in [Tuple -> {"none", "standing", "gone"}] /\ reclaims \subseteq Tuple
    /\ txns \in [Txn -> [outcome : {"open", "voting", "commit", "abort"}, entries : Nat]]
    /\ calls \subseteq Txn \X {"prepare", "prepare_and_commit", "commit", "abort"} \X Nat
    /\ votes \subseteq Txn \X Nat \X BOOLEAN
    /\ client \in [Client -> [
           pc : {"idle", "check", "enlist", "mark", "buffer", "push", "insert", "index", "send",
                 "own", "scan", "blocked", "unindex", "release", "track", "hold"},
           method : Method \cup {"none"}, txn : Context, tuple : Tuple \cup {NoTuple},
           inbox : Seq(Tuple), lagged : BOOLEAN]]
    /\ \A c \in Client : Len(client[c].inbox) <= Capacity
    /\ handler \in [Handler -> [
           pc : {"idle", "kept", "show", "show_index", "gone", "claim_self", "unenlist", "release"},
           txn : Context, method : {"none", "prepare_and_commit", "commit", "abort"},
           todo : SUBSET Tuple, moved : SUBSET Tuple, freed : SUBSET Tuple,
           tuple : Tuple \cup {NoTuple}]]
    /\ remover \in [Remover -> [pc : {"idle", "index", "tuple", "txn_index", "buffer"},
                                tuple : Tuple \cup {NoTuple}, txn : Context]]
    /\ history \in [written : [Tuple -> Context \cup {Unwritten}],
                    ended : [Tuple -> Nat], leaked : SUBSET Tuple]
    /\ spent \in [calls : 0 .. MaxCalls, expiries : 0 .. MaxExpiry, losses : 0 .. MaxLoss]

\* Where a tuple is: visible, in a buffer, in the hands of a take on its way
\* to a buffer, or of a commit or abort that is about to make it visible.
Places(t) ==
    {<<"tuples", y>> : y \in store.tuples \cap {t}}
    \cup {<<"uncommitted", x>> : x \in {y \in Txn : t \in store.uncommitted[y]}}
    \cup {<<"txn_taken", x>> : x \in {y \in Txn : t \in store.txn_taken[y]}}
    \cup {<<"txn_self_taken", x>> : x \in {y \in Txn : t \in store.txn_self_taken[y]}}
    \cup {<<"taking", c>> : c \in {d \in Client : /\ client[d].pc \in {"unindex", "track", "hold"}
                                                  /\ client[d].txn # NoTxn /\ client[d].tuple = t}}
    \cup {<<"todo", h>> : h \in {g \in Handler : t \in handler[g].todo}}

\* Every tuple written is in exactly one place until it is taken, cancelled,
\* discarded or expired, which happens once: no take gets a tuple another one
\* got, no taken tuple expires, and none is lost, whatever threads meet
\* between the store's maps.
Conservation ==
    \A t \in Tuple : Cardinality(Places(t)) + history.ended[t]
                        = (IF history.written[t] = Unwritten THEN 0 ELSE 1)

\* "Uncommitted writes are invisible to other clients": a read or a take in
\* another context returns a tuple written in a transaction only once that
\* transaction commits.
Isolation == history.leaked = {}

\* A visible tuple can be found by its lease, or is about to be, or its
\* removal is under way: otherwise neither cascade nor sweep could remove it.
IndexKept ==
    \A t \in store.tuples :
        \/ t \in store.lease_index
        \/ \E c \in Client : client[c].pc = "index" /\ client[c].tuple = t
        \/ \E h \in Handler : handler[h].pc = "show_index" /\ handler[h].tuple = t
        \/ \E r \in Remover : remover[r].pc = "tuple" /\ remover[r].tuple = t

\* A visible tuple whose lease is gone does not stay.
DeadTuplesGo ==
    \A t \in Tuple : (t \in store.tuples /\ lease[t] = "gone") ~> t \notin store.tuples

\* A waiting read or take returns once a match is visible and stays so.
WaitersAreServed ==
    \A c \in Client : (client[c].pc = "blocked" /\ store.tuples \cap Matches[c] # {})
                         ~> (client[c].pc = "idle" \/ store.tuples \cap Matches[c] = {})

-----------------------------------------------------------------------------
\* No call is at work, and none is on its way to x.
Quiet(x) ==
    /\ \A c \in Client : client[c].pc = "idle"
    /\ \A h \in Handler : handler[h].pc = "idle"
    /\ \A k \in calls : k[1] # x

\* "Taken tuples are restored on abort" (README).
RestoredOnAbort ==
    \A x \in Txn : txns[x].outcome = "abort" /\ Quiet(x) => store.txn_taken[x] = {}

\* enlisted "prevents duplicate Enlist calls when a single txn does multiple
\* writes/takes" (SpaceManager).
EnlistedOnce == \A x \in Txn : txns[x].entries <= 1
=============================================================================
