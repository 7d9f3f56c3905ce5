----------------------------- MODULE DynamoSpace -----------------------------
(***************************************************************************)
(* The tuple space's DynamoDB store (providers/dynamo/space_store.rs).     *)
(* A step is one request to one table.  A scan, a query and an index read  *)
(* are eventually consistent: each item written of late may be seen as it  *)
(* is or as it was.  A call may be interrupted between any two requests.   *)
(***************************************************************************)
EXTENDS Naturals, FiniteSets

CONSTANTS
    Tuple, Txn, NoTxn, NoTuple,
    Context,     \* the transaction, or NoTxn, each tuple is written in
    Client,      \* calls of take_match
    Asks,        \* the transaction, or NoTxn, each of them is made in
    Handler,     \* calls of commit_txn and abort_txn
    Remover,     \* calls of remove_by_lease
    MaxTake, MaxEnd, MaxLag, MaxFault   \* bounds: takes, ends of
                 \* transactions, items a read may see late, interrupted calls

ASSUME DynamoSpaceAssumption ==
    /\ NoTxn \notin Txn /\ NoTuple \notin Tuple
    /\ Context \in [Tuple -> Txn \cup {NoTxn}] /\ Asks \in [Client -> Txn \cup {NoTxn}]
    /\ MaxTake \in Nat /\ MaxEnd \in Nat /\ MaxLag \in Nat /\ MaxFault \in Nat

VARIABLES
    tuples,      \* table of visible tuples
    uncommitted, \* table of written tuples, each under its Context
    taken,       \* table of <<txn, tuple, own_write>>
    late,        \* items a read may still see as they were
    proc,        \* each call: step, the tuples it has yet to deal with, the one
                 \* at hand, its transaction
    decided,     \* each transaction: "open", "commit" or "abort"
    expired,     \* tuples whose lease has ended
    written,     \* (history) tuples whose write was stored
    inserts, takes, \* (history) how often each became visible, was taken from there
    gone,        \* (history) tuples handed out, removed, discarded, or lost
                 \* with an interrupted take
    stray,       \* (history) tuples a transaction took after it was told to end
    used         \* how much of the bounds is used

tables == <<tuples, uncommitted, taken, late>>
history == <<written, inserts, takes, gone, stray>>
spaceVars == <<tables, proc, decided, expired, history, used>>

Caller == Client \cup Handler \cup Remover
Idle == [pc |-> "idle", todo |-> {}, at |-> NoTuple, txn |-> NoTxn]

SpaceInit ==
    /\ tuples = {} /\ uncommitted = {} /\ taken = {} /\ late = {}
    /\ proc = [c \in Caller |-> Idle]
    /\ decided = [t \in Txn |-> "open"] /\ expired = {}
    /\ written = {} /\ gone = {} /\ stray = {}
    /\ inserts = [x \in Tuple |-> 0] /\ takes = [x \in Tuple |-> 0]
    /\ used = [take |-> 0, end |-> 0, fault |-> 0]

Spend(what, max) == used[what] < max /\ used' = [used EXCEPT ![what] = @ + 1]
Wrote(item) == late' \in {late \ {item}} \cup (IF Cardinality(late \cup {item}) <= MaxLag
                                              THEN {late \cup {item}} ELSE {})
Seen(table, items) ==
    {S \in SUBSET (items \cup {i[2] : i \in {l \in late : l[1] = table}}) :
        \A x \in (items \ S) \cup (S \ items) : <<table, x>> \in late}
\* A query by txn_id shows the writes of that transaction alone.
QueryWrites(t) == {{x \in S : Context[x] = t} : S \in Seen("uncommitted", uncommitted)}
Set(c, l, todo, x) == proc' = [proc EXCEPT ![c].pc = l, ![c].todo = todo, ![c].at = x]

\* insert: the tuple is visible (again).
Insert(x) ==
    /\ tuples' = tuples \cup {x}
    /\ inserts' = [inserts EXCEPT ![x] = IF x \in tuples THEN @ ELSE @ + 1]
    /\ Wrote(<<"tuples", x>>)

\* insert, insert_uncommitted
Write(x) ==
    /\ x \notin written /\ written' = written \cup {x}
    /\ IF Context[x] = NoTxn THEN Insert(x) /\ UNCHANGED uncommitted
       ELSE /\ uncommitted' = uncommitted \cup {x} /\ Wrote(<<"uncommitted", x>>)
            /\ UNCHANGED <<tuples, inserts>>
    /\ UNCHANGED <<taken, proc, decided, expired, takes, gone, used, stray>>

-----------------------------------------------------------------------------
\* take_match: the transaction's own writes first, of which the template matches
\* one or none ...
TakeQuery(c) ==
    LET t == Asks[c] IN
    /\ proc[c].pc = "idle" /\ Spend("take", MaxTake)
    /\ \E own \in IF t = NoTxn THEN {{}} ELSE QueryWrites(t) :
          \/ Set(c, "scan", {}, NoTuple)
          \/ \E x \in own : Set(c, "own", {}, x)
    /\ UNCHANGED <<tables, decided, expired, history>>

\* ... deleted without a condition ...
OwnDelete(c) ==
    LET x == proc[c].at IN
    /\ proc[c].pc = "own"
    /\ uncommitted' = uncommitted \ {x} /\ Wrote(<<"uncommitted", x>>)
    /\ Set(c, "own_track", {}, x)
    /\ UNCHANGED <<tuples, taken, decided, expired, history, used>>

\* Mutant: an own write is tracked like a committed tuple.
OwnTrackPlain(c) ==
    LET x == proc[c].at IN
    /\ proc[c].pc = "own_track"
    /\ taken' = taken \cup {<<Asks[c], x, FALSE>>} /\ Wrote(<<"taken", <<Asks[c], x, FALSE>>>>)
    /\ Set(c, "idle", {}, NoTuple)
    /\ UNCHANGED <<tuples, uncommitted, decided, expired, history, used>>

\* ... and tracked so that an abort does not restore them.
OwnTrack(c) ==
    LET x == proc[c].at IN
    /\ proc[c].pc = "own_track"
    /\ taken' = taken \cup {<<Asks[c], x, TRUE>>} /\ Wrote(<<"taken", <<Asks[c], x, TRUE>>>>)
    /\ Set(c, "idle", {}, NoTuple)
    /\ UNCHANGED <<tuples, uncommitted, decided, expired, history, used>>

\* Then the visible ones that match, as one scan shows them ...
TakeScan(c) ==
    /\ proc[c].pc = "scan"
    /\ \E S \in Seen("tuples", tuples) : \E M \in SUBSET S : Set(c, "try", M, NoTuple)
    /\ UNCHANGED <<tables, decided, expired, history, used>>

\* Mutant: the delete has no condition, and what was read is handed out.
TakeTryBlind(c) ==
    /\ proc[c].pc = "try"
    /\ \E x \in proc[c].todo :
          /\ tuples' = tuples \ {x} /\ Wrote(<<"tuples", x>>)
          /\ takes' = [takes EXCEPT ![x] = @ + 1]
          /\ IF Asks[c] = NoTxn THEN gone' = gone \cup {x} /\ Set(c, "idle", {}, NoTuple)
             ELSE Set(c, "track", {}, x) /\ UNCHANGED gone
    /\ UNCHANGED <<uncommitted, taken, decided, expired, written, inserts, used, stray>>

\* ... each deleted if it still exists: the first one that does is taken ...
TakeTry(c) ==
    /\ proc[c].pc = "try"
    /\ \/ \E x \in proc[c].todo \cap tuples :
             /\ tuples' = tuples \ {x} /\ Wrote(<<"tuples", x>>)
             /\ takes' = [takes EXCEPT ![x] = @ + 1]
             /\ IF Asks[c] = NoTxn THEN gone' = gone \cup {x} /\ Set(c, "idle", {}, NoTuple)
                ELSE Set(c, "track", {}, x) /\ UNCHANGED gone
       \/ \E x \in proc[c].todo \ tuples :
             Set(c, "try", proc[c].todo \ {x}, NoTuple) /\ UNCHANGED <<tuples, late, takes, gone>>
       \/ proc[c].todo = {} /\ Set(c, "idle", {}, NoTuple) /\ UNCHANGED <<tuples, late, takes, gone>>
    /\ UNCHANGED <<uncommitted, taken, decided, expired, written, inserts, used, stray>>

\* ... and tracked, in a transaction, for an abort to restore.
Track(c) ==
    LET x == proc[c].at IN
    /\ proc[c].pc = "track"
    /\ taken' = taken \cup {<<Asks[c], x, FALSE>>} /\ Wrote(<<"taken", <<Asks[c], x, FALSE>>>>)
    /\ stray' = IF decided[Asks[c]] = "open" THEN stray ELSE stray \cup {x}
    /\ Set(c, "idle", {}, NoTuple)
    /\ UNCHANGED <<tuples, uncommitted, decided, expired, written, inserts, takes, gone, used>>

-----------------------------------------------------------------------------
\* The participant is told to commit or to abort, once more perhaps: it reads
\* the transaction's writes ...
End(h, t, how) ==
    /\ proc[h].pc = "idle" /\ Spend("end", MaxEnd)
    /\ decided[t] \in {"open", how} /\ decided' = [decided EXCEPT ![t] = how]
    /\ \E S \in QueryWrites(t) :
          proc' = [proc EXCEPT ![h] = [pc |-> "writes", todo |-> S, at |-> NoTuple, txn |-> t]]
    /\ UNCHANGED <<tables, expired, history>>

\* ... commit_txn inserts each one before ...
Flush(h) ==
    /\ proc[h].pc = "writes" /\ decided[proc[h].txn] = "commit"
    /\ \E x \in proc[h].todo : Insert(x) /\ Set(h, "unbuffer", proc[h].todo, x)
    /\ UNCHANGED <<uncommitted, taken, decided, expired, written, takes, gone, used, stray>>

\* ... it deletes it from the buffer;
Unbuffer(h) ==
    LET x == proc[h].at IN
    /\ proc[h].pc = "unbuffer"
    /\ uncommitted' = uncommitted \ {x} /\ Wrote(<<"uncommitted", x>>)
    /\ Set(h, "writes", proc[h].todo \ {x}, NoTuple)
    /\ UNCHANGED <<tuples, taken, decided, expired, history, used>>

\* abort_txn only deletes it.
Discard(h) ==
    /\ proc[h].pc = "writes" /\ decided[proc[h].txn] = "abort"
    /\ \E x \in proc[h].todo :
          /\ uncommitted' = uncommitted \ {x} /\ Wrote(<<"uncommitted", x>>)
          /\ gone' = gone \cup {x}
          /\ Set(h, "writes", proc[h].todo \ {x}, NoTuple)
    /\ UNCHANGED <<tuples, taken, decided, expired, written, inserts, takes, stray, used>>

\* Then the items of what it has taken, as a query shows them ...
EndTaken(h) ==
    /\ proc[h].pc = "writes" /\ proc[h].todo = {}
    /\ \E S \in Seen("taken", {i \in taken : i[1] = proc[h].txn}) :
          Set(h, "takes", {i \in S : i[1] = proc[h].txn}, NoTuple)
    /\ UNCHANGED <<tables, decided, expired, history, used>>

\* Mutant: the tracking item is deleted before the tuple is back.
RestoreLast(h) ==
    /\ proc[h].pc = "takes" /\ decided[proc[h].txn] = "abort"
    /\ \E i \in {j \in proc[h].todo : ~j[3]} :
          /\ taken' = taken \ {i} /\ Wrote(<<"taken", i>>)
          /\ Set(h, "untrack", proc[h].todo, i)
    /\ UNCHANGED <<tuples, uncommitted, decided, expired, history, used>>

\* ... abort_txn inserts each tuple again unless the item says own_write ...
Restore(h) ==
    /\ proc[h].pc = "takes" /\ decided[proc[h].txn] = "abort"
    /\ \E i \in {j \in proc[h].todo : ~j[3]} :
          Insert(i[2]) /\ Set(h, "untrack", proc[h].todo, i)
    /\ UNCHANGED <<uncommitted, taken, decided, expired, written, takes, gone, used, stray>>

\* ... and then deletes its item, as it does at once with an own write;
Untrack(h) ==
    /\ proc[h].pc \in {"takes", "untrack"} /\ decided[proc[h].txn] = "abort"
    /\ \E i \in IF proc[h].pc = "untrack" THEN {proc[h].at} ELSE {j \in proc[h].todo : j[3]} :
          /\ taken' = taken \ {i} /\ Wrote(<<"taken", i>>)
          /\ gone' = IF proc[h].pc = "untrack" THEN gone ELSE gone \cup {i[2]}
          /\ Set(h, "takes", proc[h].todo \ {i}, NoTuple)
    /\ UNCHANGED <<tuples, uncommitted, decided, expired, written, inserts, takes, stray, used>>

\* commit_txn deletes the items: the tuples stay taken.
Finalize(h) ==
    /\ proc[h].pc = "takes" /\ decided[proc[h].txn] = "commit"
    /\ \E i \in proc[h].todo :
          /\ taken' = taken \ {i} /\ Wrote(<<"taken", i>>)
          /\ gone' = gone \cup {i[2]}
          /\ Set(h, "takes", proc[h].todo \ {i}, NoTuple)
    /\ UNCHANGED <<tuples, uncommitted, decided, expired, written, inserts, takes, stray, used>>

EndReturns(h) ==
    /\ proc[h].pc = "takes" /\ proc[h].todo = {}
    /\ proc' = [proc EXCEPT ![h] = Idle]
    /\ UNCHANGED <<tables, decided, expired, history, used>>
-----------------------------------------------------------------------------
Expire(x) ==
    /\ x \in written \ expired /\ expired' = expired \cup {x}
    /\ UNCHANGED <<tables, proc, decided, history, used>>

\* remove_by_lease, for the cascade or the sweep: the index shows the tuple, or
\* it is looked for in the buffers ...
RemoveQuery(r) ==
    /\ proc[r].pc = "idle" /\ Spend("end", MaxEnd)
    /\ \E x \in expired, S \in Seen("tuples", tuples) :
          Set(r, IF x \in S THEN "remove" ELSE "buffers", {}, x)
    /\ UNCHANGED <<tables, decided, expired, history>>

Remove(r) ==
    LET x == proc[r].at IN
    /\ proc[r].pc = "remove"
    /\ IF x \in tuples
       THEN /\ tuples' = tuples \ {x} /\ Wrote(<<"tuples", x>>) /\ gone' = gone \cup {x}
            /\ Set(r, "idle", {}, NoTuple)
       ELSE Set(r, "buffers", {}, x) /\ UNCHANGED <<tuples, late, gone>>
    /\ UNCHANGED <<uncommitted, taken, decided, expired, written, inserts, takes, used, stray>>

\* ... first among the uncommitted ...
RemoveUncommitted(r) ==
    LET x == proc[r].at IN
    /\ proc[r].pc = "buffers"
    /\ \/ /\ x \in uncommitted
          /\ uncommitted' = uncommitted \ {x} /\ Wrote(<<"uncommitted", x>>)
          /\ gone' = gone \cup {x} /\ Set(r, "idle", {}, NoTuple)
       \/ /\ x \notin uncommitted \/ <<"uncommitted", x>> \in late
          /\ Set(r, "taken", {}, x) /\ UNCHANGED <<uncommitted, late, gone>>
    /\ UNCHANGED <<tuples, taken, decided, expired, written, inserts, takes, used, stray>>

\* ... then among the taken: the first item whose delete finds it.
RemoveTaken(r) ==
    LET x == proc[r].at IN
    /\ proc[r].pc = "taken"
    /\ \/ \E i \in {j \in taken : j[2] = x} :
             taken' = taken \ {i} /\ Wrote(<<"taken", i>>) /\ gone' = gone \cup {x}
       \/ /\ \A i \in taken : i[2] = x => <<"taken", i>> \in late
          /\ UNCHANGED <<taken, late, gone>>
    /\ Set(r, "idle", {}, NoTuple)
    /\ UNCHANGED <<tuples, uncommitted, decided, expired, written, inserts, takes, used, stray>>

-----------------------------------------------------------------------------
\* A request fails, the caller goes away or the process ends: the call stops
\* where it is.  A take that has deleted and not tracked its tuple loses it.
Interrupt(c) ==
    /\ proc[c].pc # "idle" /\ Spend("fault", MaxFault)
    /\ gone' = IF proc[c].pc \in {"track", "own_track"} THEN gone \cup {proc[c].at} ELSE gone
    /\ proc' = [proc EXCEPT ![c] = Idle]
    /\ UNCHANGED <<tables, decided, expired, written, inserts, takes, stray>>

\* Every replica has caught up with an item.
Settle ==
    /\ \E i \in late : late' = late \ {i}
    /\ UNCHANGED <<tuples, uncommitted, taken, proc, decided, expired, history, used>>

SpaceNext ==
    \/ \E x \in Tuple : Write(x) \/ Expire(x)
    \/ \E c \in Client : \/ TakeQuery(c) \/ OwnDelete(c) \/ OwnTrack(c) \/ TakeScan(c)
                         \/ TakeTry(c) \/ Track(c)
    \/ \E h \in Handler : \/ \E t \in Txn, how \in {"commit", "abort"} : End(h, t, how)
                          \/ Flush(h) \/ Unbuffer(h) \/ Discard(h) \/ EndTaken(h)
                          \/ Restore(h) \/ Untrack(h) \/ Finalize(h) \/ EndReturns(h)
    \/ \E r \in Remover : RemoveQuery(r) \/ Remove(r) \/ RemoveUncommitted(r) \/ RemoveTaken(r)
    \/ \E c \in Caller : Interrupt(c)
    \/ Settle

SpaceSpec == SpaceInit /\ [][SpaceNext]_spaceVars

-----------------------------------------------------------------------------
SpaceTypeOK ==
    /\ tuples \cup uncommitted \cup expired \cup written \cup gone \subseteq Tuple
    /\ taken \subseteq Txn \X Tuple \X BOOLEAN
    /\ Cardinality(late) <= MaxLag
    /\ decided \in [Txn -> {"open", "commit", "abort"}]
    /\ \A c \in Caller : proc[c].pc \in {"idle", "own", "own_track", "scan", "try", "track", "writes",
          "unbuffer", "takes", "untrack", "remove", "buffers", "taken"}

\* However stale the scans are, a tuple is taken from the visible table no more
\* often than it was put there: no two takes share one (take_match's condition).
TakenOncePerInsert == \A x \in Tuple : takes[x] <= inserts[x]

\* A write of a transaction that has not been told to commit is never visible,
\* also if the transaction took it itself and aborts (own_write).
UncommittedIsHidden ==
    \A x \in Tuple : (Context[x] # NoTxn /\ inserts[x] > 0) => decided[Context[x]] = "commit"

\* A stored tuple is in a table, or with a take that is about to track it, until
\* it is handed out, removed or discarded: commit_txn and abort_txn may stop
\* anywhere. Two cases do lose one: a take interrupted before it has tracked
\* (gone), and a take in a transaction that is being aborted, whose tracking
\* item the abort deletes (stray).
Conservation ==
    \A x \in written \ (gone \cup stray) :
        \/ x \in tuples \cup uncommitted \cup {i[2] : i \in taken}
        \/ \E c \in Client : proc[c].pc \in {"track", "own_track"} /\ proc[c].at = x
=============================================================================
