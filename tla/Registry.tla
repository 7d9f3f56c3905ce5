------------------------------ MODULE Registry ------------------------------
(***************************************************************************)
(* The Registry (coordin8-registry): leased entries, over the in-memory    *)
(* store (an entry map and a lease index) or one DynamoDB table.           *)
(*                                                                         *)
(* An entry keeps the lease it was registered with, so one name stands for *)
(* a capability id and its lease id.  A step is one operation on one map   *)
(* or table.  A DynamoDB read may return what was there before the last    *)
(* write (`old`).                                                          *)
(***************************************************************************)
EXTENDS Naturals, FiniteSets

CONSTANTS
    Cap,         \* capability ids (and the ids of their leases)
    NoCap,       \* the empty id
    Key,         \* attributes
    Caller,      \* requests under way
    Providers,   \* COORDIN8_PROVIDER
    MaxLag,      \* bound: entries whose last write lags at one time
    MaxModify,   \* bound: ModifyAttrs calls
    MaxFault     \* bound: failing requests, lost calls, restarts, late renewals

ASSUME RegistryAssumption ==
    /\ NoCap \notin Cap /\ Providers \subseteq {"local", "dynamo"}
    /\ MaxLag \in Nat /\ MaxModify \in Nat /\ MaxFault \in Nat

VARIABLES
    provider,
    entries,     \* what is stored under each id
    old,         \* ... and what a lagging read may still see there
    index,       \* lease_index of the in-memory store
    lease,       \* of each id: "none", "held" or "ended"
    remover,     \* of each id: is a remove_by_lease half-way
    call,        \* each request: its step, the id it cites, what it read
    modifies,    \* what is used of MaxModify
    faults       \* what is used of MaxFault

store == <<entries, old, index>>
spent == <<modifies, faults>>
registry == <<provider, store, lease, remover, call, spent>>

Absent == [there |-> FALSE, attrs |-> {}]

Present(A) == [there |-> TRUE, attrs |-> A]
IdleCall == [pc |-> "idle", cap |-> NoCap, put |-> {}, got |-> {}, ans |-> "none"]

RegistryInit ==
    /\ provider \in Providers
    /\ entries = [c \in Cap |-> Absent] /\ old = entries /\ index = {}
    /\ lease = [c \in Cap |-> "none"]
    /\ remover = [c \in Cap |-> FALSE]
    /\ call = [q \in Caller |-> IdleCall]
    /\ modifies = 0 /\ faults = 0

Local  == provider = "local"
Dynamo == provider = "dynamo"
Fault  == faults < MaxFault /\ faults' = faults + 1 /\ UNCHANGED modifies

\* get, list_all and the query by lease.
Seen(c) == {entries[c], old[c]}

Store(c, v) ==
    /\ entries' = [entries EXCEPT ![c] = v]
    /\ \/ old' = [old EXCEPT ![c] = v]
       \/ /\ Dynamo /\ Cardinality({d \in Cap \ {c} : old[d] # entries[d]}) < MaxLag
          /\ old' = [old EXCEPT ![c] = entries[c]]

Goto(q, l) == call' = [call EXCEPT ![q].pc = l]
Answer(q, a) == call' = [call EXCEPT ![q].pc = "done", ![q].ans = a]

-----------------------------------------------------------------------------
\* register without a capability_id: a new id and its lease.  (A new id is
\* one that nothing refers to any more; `Cited` are those clients hold.)
Grant(q, Cited) ==
    LET free == {c \in Cap : /\ lease[c] # "held" /\ c \notin index \cup Cited
                             /\ ~entries[c].there /\ ~old[c].there /\ ~remover[c]
                             /\ \A p \in Caller : call[p].cap # c}
    IN
    /\ call[q].pc = "new" /\ free # {}
    /\ LET c == CHOOSE d \in free : TRUE IN
       /\ lease' = [lease EXCEPT ![c] = "held"]
       /\ call' = [call EXCEPT ![q].pc = IF Local THEN "index" ELSE "insert", ![q].cap = c]
    /\ UNCHANGED <<provider, store, remover, spent>>

\* In memory, the lease index is written before the entry ...
InsertIndex(q) ==
    /\ call[q].pc = "index"
    /\ index' = index \cup {call[q].cap}
    /\ Goto(q, "insert")
    /\ UNCHANGED <<provider, entries, old, lease, remover, spent>>

Insert(q) ==
    /\ call[q].pc = "insert"
    /\ Store(call[q].cap, Present(call[q].put))
    /\ Answer(q, "ok")
    /\ UNCHANGED <<provider, index, lease, remover, spent>>

\* register with a capability_id, and modify_attrs (`put` is what it adds; it
\* removes the other keys, then adds): the caller holds the entry's lease.
Get(q) ==
    LET c == call[q].cap IN
    /\ call[q].pc \in {"get", "modify"}
    /\ \E v \in Seen(c) :
          IF ~v.there THEN Answer(q, "not_found")
          ELSE call' = [call EXCEPT ![q].got = v.attrs,
                  ![q].pc = IF call[q].pc = "get" THEN "renew" ELSE "update",
                  ![q].put = IF call[q].pc = "get" THEN @ ELSE (v.attrs \ (Key \ @)) \cup @]
    /\ UNCHANGED <<provider, store, lease, remover, spent>>

\* The lease is renewed first; an entry that is not changed is left alone.
\* Over DynamoDB the lease is found by a read that may lag, and a lease that is
\* held may be taken for one that is not there, or expired before a renewal.
Renew(q) ==
    /\ call[q].pc = "renew"
    /\ \/ (lease[call[q].cap] # "held" \/ Dynamo) /\ Answer(q, "precondition")
       \/ /\ lease[call[q].cap] = "held"
          /\ IF call[q].got = call[q].put THEN Answer(q, "ok") ELSE Goto(q, "update")
    /\ UNCHANGED <<provider, store, lease, remover, spent>>

\* update in DynamoDB: one conditional put (its None is not an error) ...
UpdateItem(q) ==
    LET c == call[q].cap IN
    /\ call[q].pc = "update" /\ Dynamo
    /\ IF entries[c].there THEN Store(c, Present(call[q].put)) ELSE UNCHANGED <<entries, old>>
    /\ Answer(q, "ok")
    /\ UNCHANGED <<provider, index, lease, remover, spent>>

\* ... and in memory a check and three writes.
UpdateCheck(q) ==
    /\ call[q].pc = "update" /\ Local
    /\ IF entries[call[q].cap].there THEN Goto(q, "unindex") ELSE Answer(q, "ok")
    /\ UNCHANGED <<provider, store, lease, remover, spent>>

UpdateIndex(q) ==
    /\ \/ call[q].pc = "unindex" /\ index' = index \ {call[q].cap} /\ Goto(q, "reindex")
       \/ call[q].pc = "reindex" /\ index' = index \cup {call[q].cap} /\ Goto(q, "put")
    /\ UNCHANGED <<provider, entries, old, lease, remover, spent>>

UpdateEntry(q) ==
    /\ call[q].pc = "put"
    /\ Store(call[q].cap, Present(call[q].put))
    /\ Answer(q, "ok")
    /\ UNCHANGED <<provider, index, lease, remover, spent>>

\* A request to DynamoDB fails, or the client has gone and the call is dropped.
\* Whatever fails in the renewal is answered as a lease that cannot be renewed.
CallFails(q) ==
    /\ call[q].pc \notin {"idle", "done"} /\ Dynamo /\ Fault
    /\ Answer(q, IF call[q].pc = "renew" THEN "precondition" ELSE "error")
    /\ UNCHANGED <<provider, store, lease, remover>>

Serve(q, Cited) ==
    \/ Grant(q, Cited) \/ InsertIndex(q) \/ Insert(q) \/ Get(q) \/ Renew(q)
    \/ UpdateItem(q) \/ UpdateCheck(q) \/ UpdateIndex(q) \/ UpdateEntry(q)

-----------------------------------------------------------------------------
\* Mutant: the delete is conditional on the entry being as it was registered.
DeleteUnmodified(c) ==
    /\ remover[c]
    /\ IF entries[c].attrs = {} THEN Store(c, Absent) ELSE UNCHANGED <<entries, old>>
    /\ remover' = [remover EXCEPT ![c] = FALSE]
    /\ UNCHANGED <<provider, index, lease, call, spent>>

\* unregister_by_lease: find the entry by its lease ...
RemoveByLease(c) ==
    /\ ~remover[c]
    /\ IF Local THEN c \in index ELSE \E v \in Seen(c) : v.there
    /\ index' = index \ {c}
    /\ remover' = [remover EXCEPT ![c] = TRUE]
    /\ UNCHANGED <<provider, entries, old, lease, call, spent>>

\* ... and delete it.
Delete(c) ==
    /\ remover[c]
    /\ Store(c, Absent)
    /\ remover' = [remover EXCEPT ![c] = FALSE]
    /\ UNCHANGED <<provider, index, lease, call, spent>>

\* The request to delete fails, and the error is dropped.
DeleteFails(c) ==
    /\ remover[c] /\ Dynamo /\ Fault
    /\ remover' = [remover EXCEPT ![c] = FALSE]
    /\ UNCHANGED <<provider, store, lease, call>>

\* The reclaim of the lease arrives; or it was missed, or came too early, and
\* the sweep lists the entry and finds no lease.
Cascade(c) == lease[c] = "ended" /\ RemoveByLease(c)
Sweep(c) == (\E v \in Seen(c) : v.there) /\ lease[c] = "ended" /\ RemoveByLease(c)

Settle(c) ==
    /\ old[c] # entries[c] /\ old' = [old EXCEPT ![c] = entries[c]]
    /\ UNCHANGED <<provider, entries, index, lease, remover, call, spent>>

\* The Registry restarts; in memory nothing is left, not even the leases.
RegistryRestart ==
    /\ Fault
    /\ call' = [q \in Caller |-> IF call[q].pc = "idle" THEN IdleCall
                                 ELSE [call[q] EXCEPT !.pc = "done", !.ans = "error"]]
    /\ remover' = [c \in Cap |-> FALSE]
    /\ IF Local
       THEN /\ entries' = [c \in Cap |-> Absent] /\ old' = entries' /\ index' = {}
            /\ lease' = [c \in Cap |-> IF lease[c] = "none" THEN "none" ELSE "ended"]
       ELSE UNCHANGED <<store, lease>>
    /\ UNCHANGED provider

RegistryTypeOK ==
    LET Stored == [there : BOOLEAN, attrs : SUBSET Key] IN
    /\ provider \in Providers
    /\ entries \in [Cap -> Stored] /\ old \in [Cap -> Stored] /\ index \subseteq Cap
    /\ lease \in [Cap -> {"none", "held", "ended"}]
    /\ remover \in [Cap -> BOOLEAN]
    /\ call \in [Caller -> [pc : {"idle", "new", "index", "insert", "get", "modify", "renew",
                                  "update", "unindex", "reindex", "put", "done"},
                            cap : Cap \cup {NoCap}, put : SUBSET Key, got : SUBSET Key,
                            ans : {"none", "ok", "not_found", "precondition", "error"}]]
    /\ modifies \in 0..MaxModify /\ faults \in 0..MaxFault
=============================================================================
