----------------------- MODULE SelfRegistrationProofs -----------------------
(***************************************************************************)
(* A service that shuts down gracefully leaves no lease behind that it     *)
(* knows: for every number of capability ids, attributes, faults and       *)
(* modifications, and both providers.                                      *)
(***************************************************************************)
EXTENDS SelfRegistration, TLAPS

\* Most steps are first-order; those that count or update records cite SMT.
USE Zenon

-----------------------------------------------------------------------------
(***************************************************************************)
(* The inductive invariant.                                                *)
(***************************************************************************)

Stored == [there : BOOLEAN, attrs : SUBSET Key]
Calls == [pc : {"idle", "new", "index", "insert", "get", "modify", "renew", "update", "unindex", "reindex",
                "put", "done"},
          cap : Cap \cup {NoCap}, put : SUBSET Key, got : SUBSET Key,
          ans : {"none", "ok", "not_found", "precondition", "error"}]
Svcs == [pc : {"boot", "first", "idle", "renewing", "fresh", "cancel", "down"},
         req : Cap \cup {NoCap}, cur : Cap \cup {NoCap}, stop : BOOLEAN, clean : BOOLEAN]

SelfType ==
    /\ entries \in [Cap -> Stored] /\ old \in [Cap -> Stored]
    /\ lease \in [Cap -> {"none", "held", "ended"}] /\ call \in [Caller -> Calls]
    /\ svc \in Svcs /\ lost \subseteq Cap \cup {NoCap}

\* Only leases of S are held.
HeldIn(S) == \A c \in Cap : lease[c] = "held" => c \in S

\* The service has a request under way exactly while it waits for one, and
\* none after a clean shutdown; only it registers anew.
CallInv ==
    /\ call[tool].pc # "new"
    /\ svc.pc \in {"boot", "idle", "cancel"} => call[me].pc = "idle"
    /\ svc.clean => svc.pc = "down" /\ call[me].pc = "idle"
    /\ \A q \in Caller : call[q].pc \in {"get", "modify"} => call[q].cap \in Cap
    /\ call[me].pc \in {"idle", "new"} => call[me].cap = NoCap

\* A request without an id is not refused; one that renews cites the id that
\* the service knows.
FreshInv == /\ call[me].pc \in {"new", "index", "insert", "done"}
            /\ call[me].pc = "done" => call[me].ans \in {"ok", "error"}
RenewInv == call[me].cap = svc.req /\ call[me].pc \notin {"idle", "new", "index", "insert"}

\* The request of the service fits the ids it knows, and the id it renews is
\* the one it would cancel.
RequestInv ==
    /\ svc.pc \in {"first", "fresh"} \/ (svc.pc = "renewing" /\ svc.req = NoCap) => FreshInv
    /\ svc.pc = "renewing" /\ svc.req # NoCap => RenewInv
    /\ svc.pc \in {"boot", "first", "fresh"} => svc.req = NoCap /\ svc.cur = NoCap
    /\ svc.pc \in {"idle", "renewing", "cancel"} => svc.req \in {NoCap, svc.cur}

\* A lease that is held is the one the service knows, or is about to know, or
\* it is lost.
KnownInv ==
    /\ svc.pc # "down" => HeldIn(lost \cup {svc.cur, call[me].cap})
    /\ svc.clean => HeldIn(lost)

SelfInv == SelfType /\ CallInv /\ RequestInv /\ KnownInv

-----------------------------------------------------------------------------
(***************************************************************************)
(* The Registry's steps.                                                   *)
(***************************************************************************)

\* The caller's part of the constants.
LEMMA Callers == me \in Caller /\ tool \in Caller /\ me # tool /\ Caller \subseteq {me, tool} /\ NoCap \notin Cap
    BY CallerAssumption, RegistryAssumption

\* What an idle call is.
LEMMA IdleCallFacts ==
    IdleCall \in Calls /\ IdleCall.pc = "idle" /\ IdleCall.cap = NoCap
    BY SMT DEF IdleCall, Calls

\* Leases only end, and what is held stays lost.
LEMMA HeldStays ==
    ASSUME NEW S, HeldIn(lost \cup S), \A c \in Cap : lease'[c] = "held" => lease[c] = "held",
           \A c \in Cap : lease[c] = "held" /\ c \in lost => c \in lost'
    PROVE  \A c \in Cap : lease'[c] = "held" => c \in lost' \cup S
    BY DEF HeldIn

\* No lease is granted, and the service's request moves on or stays.
LEMMA RegistryMove ==
    ASSUME SelfInv, SelfType', UNCHANGED svc, call'[tool].pc # "new",
           \A c \in Cap : lease'[c] = "held" => lease[c] = "held",
           \A c \in Cap : lease[c] = "held" /\ c \in lost => c \in lost',
           \A q \in Caller : call'[q].pc \in {"get", "modify"} => call'[q].cap \in Cap,
           \/ call'[me] = call[me]
           \/ /\ call'[me].cap = call[me].cap /\ call[me].pc # "idle" /\ call'[me].pc \notin {"idle", "new"}
              /\ call'[me].pc \in {"index", "insert"} => call[me].pc \in {"index", "insert"}
              /\ call[me].pc \in {"new", "index", "insert", "done"} =>
                    call'[me].pc = "insert" \/ (call'[me].pc = "done" /\ call'[me].ans \in {"ok", "error"})
    PROVE  SelfInv'
    <1>1. SelfType /\ CallInv /\ RequestInv /\ KnownInv
        BY DEF SelfInv
    <1>2. call'[me].cap = call[me].cap
        OBVIOUS
    <1>3. CallInv'
        BY <1>1 DEF CallInv
    <1>4. FreshInv => FreshInv'
        BY DEF FreshInv
    <1>5. RenewInv => RenewInv'
        BY DEF RenewInv
    <1>6. RequestInv'
        BY <1>1, <1>4, <1>5 DEF RequestInv
    <1>7. svc.pc # "down" => HeldIn(lost \cup {svc.cur, call[me].cap})'
        <2>1. svc.pc # "down" => \A c \in Cap : lease'[c] = "held" => c \in lost' \cup {svc.cur, call[me].cap}
            BY <1>1, HeldStays DEF KnownInv
        <2> QED BY <1>2, <2>1 DEF HeldIn
    <1>8. svc.clean => HeldIn(lost)'
        BY <1>1 DEF KnownInv, HeldIn
    <1>9. KnownInv'
        BY <1>7, <1>8 DEF KnownInv
    <1> QED BY <1>3, <1>6, <1>9 DEF SelfInv

\* ... as a request of either caller that is served does.
LEMMA Served ==
    ASSUME SelfInv, NEW q \in Caller, NEW k \in Calls, call' = [call EXCEPT ![q] = k],
           UNCHANGED <<svc, lease>>, entries' \in [Cap -> Stored], old' \in [Cap -> Stored],
           lost' \subseteq Cap \cup {NoCap}, \A c \in Cap : lease[c] = "held" /\ c \in lost => c \in lost',
           k.cap = call[q].cap, call[q].pc # "idle", k.pc \notin {"idle", "new", "get", "modify"},
           k.pc \in {"index", "insert"} => call[q].pc \in {"index", "insert"},
           call[q].pc \in {"new", "index", "insert", "done"} =>
               k.pc = "insert" \/ (k.pc = "done" /\ k.ans \in {"ok", "error"})
    PROVE  SelfInv'
    <1>1. SelfType /\ CallInv
        BY DEF SelfInv
    <1>2. call' \in [Caller -> Calls] /\ call'[q] = k /\ \A p \in Caller \ {q} : call'[p] = call[p]
        BY <1>1 DEF SelfType
    <1>3. SelfType'
        BY <1>1, <1>2 DEF SelfType
    <1>4. \A p \in Caller : call'[p].pc \in {"get", "modify"} => call'[p].cap \in Cap
        BY <1>1, <1>2 DEF CallInv
    <1>5. CASE q = me
        <2>1. call'[me] = k /\ call'[tool] = call[tool]
            BY <1>2, <1>5, Callers
        <2>2. call'[tool].pc # "new"
            BY <1>1, <2>1 DEF CallInv
        <2> QED BY <1>3, <1>4, <1>5, <2>1, <2>2, RegistryMove
    <1>6. CASE q = tool
        <2>1. call'[tool] = k /\ call'[me] = call[me]
            BY <1>2, <1>6, Callers
        <2> QED BY <1>3, <1>4, <2>1, RegistryMove
    <1> QED BY <1>5, <1>6, Callers

\* A write to the store keeps its type.
LEMMA StoreType ==
    ASSUME SelfType, NEW c, NEW v \in Stored, Store(c, v)
    PROVE  entries' \in [Cap -> Stored] /\ old' \in [Cap -> Stored]
    <1>1. entries' \in [Cap -> Stored]
        BY DEF SelfType, Store
    <1>2. CASE old' = [old EXCEPT ![c] = v]
        BY <1>1, <1>2 DEF SelfType
    <1>3. CASE old' = [old EXCEPT ![c] = entries[c]]
        BY <1>1, <1>3 DEF SelfType
    <1> QED BY <1>1, <1>2, <1>3 DEF Store

\* A request goes on ...
LEMMA GotoUpdates ==
    ASSUME SelfType, NEW q \in Caller, NEW l \in {"insert", "update", "unindex", "reindex", "put"}, Goto(q, l)
    PROVE  \E k \in Calls : call' = [call EXCEPT ![q] = k] /\ k.cap = call[q].cap /\ k.pc = l
    <1>1. call[q] \in Calls
        BY DEF SelfType
    <1> DEFINE k == [call[q] EXCEPT !.pc = l]
    <1>2. k \in Calls /\ k.cap = call[q].cap /\ k.pc = l
        BY <1>1 DEF Calls
    <1>3. call' = [call EXCEPT ![q] = k]
        BY DEF Goto
    <1> QED BY <1>2, <1>3

\* ... or is answered.
LEMMA AnswerUpdates ==
    ASSUME SelfType, NEW q \in Caller, NEW a \in {"ok", "not_found", "precondition", "error"}, Answer(q, a)
    PROVE  \E k \in Calls : call' = [call EXCEPT ![q] = k] /\ k.cap = call[q].cap /\ k.pc = "done" /\ k.ans = a
    <1>1. call[q] \in Calls
        BY DEF SelfType
    <1> DEFINE k == [call[q] EXCEPT !.pc = "done", !.ans = a]
    <1>2. k \in Calls /\ k.cap = call[q].cap /\ k.pc = "done" /\ k.ans = a
        BY <1>1 DEF Calls
    <1>3. call' = [call EXCEPT ![q] = k]
        BY DEF Answer
    <1> QED BY <1>2, <1>3

\* The steps of register and modify_attrs after the grant.
LEMMA ServeStep ==
    ASSUME SelfInv, NEW q \in Caller, UNCHANGED svc, lost' \subseteq Cap \cup {NoCap},
           \A c \in Cap : lease[c] = "held" /\ c \in lost => c \in lost',
           \/ InsertIndex(q) \/ Insert(q) \/ Get(q) \/ Renew(q) \/ UpdateItem(q) \/ UpdateCheck(q)
           \/ UpdateIndex(q) \/ UpdateEntry(q) \/ CallFails(q)
    PROVE  SelfInv'
    <1>1. SelfType /\ call[q] \in Calls
        BY DEF SelfInv, SelfType
    <1>2. UNCHANGED lease
        BY DEF InsertIndex, Insert, Get, Renew, UpdateItem, UpdateCheck, UpdateIndex, UpdateEntry, CallFails
    <1>3. \A A \in SUBSET Key : Present(A) \in Stored
        BY DEF Present, Stored
    <1>4. entries' \in [Cap -> Stored] /\ old' \in [Cap -> Stored]
        <2>1. CASE Insert(q) \/ UpdateEntry(q) \/ UpdateItem(q)
            <3>1. Present(call[q].put) \in Stored
                BY <1>1, <1>3 DEF Calls
            <3>2. Store(call[q].cap, Present(call[q].put)) \/ UNCHANGED <<entries, old>>
                BY <2>1 DEF Insert, UpdateEntry, UpdateItem
            <3>3. CASE Store(call[q].cap, Present(call[q].put))
                BY <1>1, <3>1, <3>3, StoreType
            <3>4. CASE UNCHANGED <<entries, old>>
                BY <1>1, <3>4 DEF SelfType
            <3> QED BY <3>2, <3>3, <3>4
        <2>2. CASE ~(Insert(q) \/ UpdateEntry(q) \/ UpdateItem(q))
            <3>1. UNCHANGED <<entries, old>>
                BY <2>2 DEF InsertIndex, Get, Renew, UpdateCheck, UpdateIndex, CallFails, store
            <3> QED BY <1>1, <3>1 DEF SelfType
        <2> QED BY <2>1, <2>2
    <1>5. CASE InsertIndex(q)
        <2>1. call[q].pc = "index" /\ Goto(q, "insert")
            BY <1>5 DEF InsertIndex
        <2>2. PICK k \in Calls : call' = [call EXCEPT ![q] = k] /\ k.cap = call[q].cap /\ k.pc = "insert"
            BY <1>1, <2>1, GotoUpdates
        <2> QED BY <1>2, <1>4, <2>1, <2>2, Served
    <1>6. CASE Get(q) /\ \E v \in Seen(call[q].cap) :
                /\ v.there
                /\ call' = [call EXCEPT ![q].got = v.attrs,
                      ![q].pc = IF call[q].pc = "get" THEN "renew" ELSE "update",
                      ![q].put = IF call[q].pc = "get" THEN @ ELSE (v.attrs \ (Key \ @)) \cup @]
        <2>1. PICK v \in Seen(call[q].cap) :
                /\ v.there
                /\ call' = [call EXCEPT ![q].got = v.attrs,
                      ![q].pc = IF call[q].pc = "get" THEN "renew" ELSE "update",
                      ![q].put = IF call[q].pc = "get" THEN @ ELSE (v.attrs \ (Key \ @)) \cup @]
            BY <1>6
        <2>2. call[q].pc \in {"get", "modify"}
            BY <1>6 DEF Get
        <2>3. PICK l \in {"renew", "update"} : l = IF call[q].pc = "get" THEN "renew" ELSE "update"
            OBVIOUS
        <2>4. call[q].cap \in Cap
            BY <2>2 DEF SelfInv, CallInv
        <2>5. v.attrs \in SUBSET Key
            BY <1>1, <2>4 DEF Seen, SelfType, Stored
        <2>6. PICK A \in SUBSET Key : A = IF call[q].pc = "get" THEN call[q].put ELSE (v.attrs \ (Key \ call[q].put)) \cup call[q].put
            BY <1>1, <2>5 DEF Calls
        <2> DEFINE k == [call[q] EXCEPT !.got = v.attrs, !.pc = l, !.put = A]
        <2>7. k \in Calls /\ k.cap = call[q].cap /\ k.pc = l
            BY <1>1, <2>5 DEF Calls
        <2>8. call' = [call EXCEPT ![q] = k]
            BY <2>1, <2>3, <2>6
        <2> HIDE DEF k
        <2> QED BY <1>2, <1>4, <2>2, <2>7, <2>8, Served
    <1>7. CASE \E a \in {"ok", "not_found", "precondition", "error"} :
                 /\ Answer(q, a) /\ call[q].pc \notin {"idle", "done"}
                 /\ call[q].pc \in {"new", "index", "insert"} => a \in {"ok", "error"}
        <2>1. PICK a \in {"ok", "not_found", "precondition", "error"} :
                 /\ Answer(q, a) /\ call[q].pc \notin {"idle", "done"}
                 /\ call[q].pc \in {"new", "index", "insert"} => a \in {"ok", "error"}
            BY <1>7
        <2>2. PICK k \in Calls : call' = [call EXCEPT ![q] = k] /\ k.cap = call[q].cap /\ k.pc = "done" /\ k.ans = a
            BY <1>1, <2>1, AnswerUpdates
        <2> QED BY <1>2, <1>4, <2>1, <2>2, Served
    <1>8. CASE \E l \in {"update", "unindex", "reindex", "put"} :
                 Goto(q, l) /\ call[q].pc \in {"renew", "update", "unindex", "reindex"}
        <2>1. PICK l \in {"update", "unindex", "reindex", "put"} :
                 Goto(q, l) /\ call[q].pc \in {"renew", "update", "unindex", "reindex"}
            BY <1>8
        <2>2. l \in {"insert", "update", "unindex", "reindex", "put"}
            OBVIOUS
        <2>3. PICK k \in Calls : call' = [call EXCEPT ![q] = k] /\ k.cap = call[q].cap /\ k.pc = l
            BY <1>1, <2>1, <2>2, GotoUpdates
        <2> QED BY <1>2, <1>4, <2>1, <2>3, Served
    <1>9. CASE Insert(q) \/ UpdateItem(q) \/ UpdateEntry(q)
        BY <1>7, <1>9 DEF Insert, UpdateItem, UpdateEntry
    <1>12. CASE CallFails(q)
        <2>1. PICK a \in {"precondition", "error"} : a = IF call[q].pc = "renew" THEN "precondition" ELSE "error"
            OBVIOUS
        <2>2. Answer(q, a) /\ call[q].pc \notin {"idle", "done"}
            BY <1>12, <2>1 DEF CallFails
        <2> QED BY <1>7, <2>1, <2>2
    <1>10. CASE Renew(q) \/ UpdateCheck(q) \/ UpdateIndex(q)
        BY <1>7, <1>8, <1>10 DEF Renew, UpdateCheck, UpdateIndex
    <1>11. CASE Get(q)
        <2>1. PICK v \in Seen(call[q].cap) :
                  IF ~v.there THEN Answer(q, "not_found")
                  ELSE call' = [call EXCEPT ![q].got = v.attrs,
                          ![q].pc = IF call[q].pc = "get" THEN "renew" ELSE "update",
                          ![q].put = IF call[q].pc = "get" THEN @ ELSE (v.attrs \ (Key \ @)) \cup @]
            BY <1>11 DEF Get
        <2>2. call[q].pc \in {"get", "modify"}
            BY <1>11 DEF Get
        <2>3. CASE ~v.there
            BY <1>7, <2>1, <2>2, <2>3
        <2>4. CASE v.there
            BY <1>6, <1>11, <2>1, <2>4
        <2> QED BY <2>3, <2>4
    <1> QED BY <1>5, <1>9, <1>10, <1>11, <1>12

\* A registration without an id is granted a lease: the service's first one,
\* or one after it gave up the last.
LEMMA GrantStep ==
    ASSUME SelfInv, NEW q \in Caller, UNCHANGED svc, lost' \subseteq Cap \cup {NoCap},
           \A c \in Cap : lease[c] = "held" /\ c \in lost => c \in lost',
           Grant(q, Cited)
    PROVE  SelfInv'
    <1>1. SelfType /\ CallInv /\ RequestInv /\ KnownInv /\ call[q].pc = "new"
        BY DEF SelfInv, Grant
    <1>2. q = me /\ call[me].pc = "new"
        BY <1>1, Callers DEF CallInv
    <1>3. PICK c \in Cap : /\ lease' = [lease EXCEPT ![c] = "held"]
                           /\ call' = [call EXCEPT ![q].pc = IF Local THEN "index" ELSE "insert", ![q].cap = c]
        BY DEF Grant
    <1>4. UNCHANGED <<entries, old>>
        BY DEF Grant, store
    <1>5. PICK l \in {"index", "insert"} : l = IF Local THEN "index" ELSE "insert"
        OBVIOUS
    <1> DEFINE k == [call[me] EXCEPT !.pc = l, !.cap = c]
    <1>6. k \in Calls /\ k.pc = l /\ k.cap = c
        <2>1. call[me] \in Calls
            BY <1>1, Callers DEF SelfType
        <2> QED BY <2>1 DEF Calls
    <1>7. call' = [call EXCEPT ![me] = k]
        BY <1>2, <1>3, <1>5
    <1> HIDE DEF k
    <1>8. call' \in [Caller -> Calls] /\ call'[me] = k /\ \A p \in Caller \ {me} : call'[p] = call[p]
        BY <1>1, <1>6, <1>7, Callers DEF SelfType
    <1>9. /\ lease' \in [Cap -> {"none", "held", "ended"}]
          /\ \A d \in Cap : lease'[d] = "held" => lease[d] = "held" \/ d = c
        BY <1>1, <1>3 DEF SelfType
    <1>10. SelfType'
        BY <1>1, <1>4, <1>8, <1>9 DEF SelfType
    <1>11. svc.pc \notin {"boot", "idle", "cancel"} /\ ~svc.clean
        BY <1>1, <1>2 DEF CallInv
    <1>12. CallInv'
        <2>1. \A p \in Caller : call'[p].pc \in {"get", "modify"} => call'[p].cap \in Cap
            BY <1>1, <1>6, <1>8 DEF CallInv
        <2>2. call'[me].pc \notin {"idle", "new"} /\ call'[tool] = call[tool]
            BY <1>6, <1>8, Callers
        <2> QED BY <1>1, <1>11, <2>1, <2>2 DEF CallInv
    <1>13. RequestInv'
        <2>1. FreshInv /\ call[me].pc = "new" => FreshInv'
            BY <1>6, <1>8 DEF FreshInv
        <2>2. ~(svc.pc = "renewing" /\ svc.req # NoCap)
            BY <1>1, <1>2 DEF RequestInv, RenewInv
        <2> QED BY <1>1, <1>2, <2>1, <2>2 DEF RequestInv
    <1>14. KnownInv'
        <2>1. ASSUME svc.pc # "down", NEW d \in Cap, lease'[d] = "held"
              PROVE  d \in lost' \cup {svc.cur, c}
            <3>1. CASE d = c
                BY <3>1
            <3>2. CASE d # c
                <4>1. lease[d] = "held"
                    BY <1>9, <2>1, <3>2
                <4>2. d \in lost \cup {svc.cur, NoCap}
                    BY <1>1, <1>2, <2>1, <4>1 DEF KnownInv, HeldIn, CallInv
                <4> QED BY <4>1, <4>2, Callers
            <3> QED BY <3>1, <3>2
        <2>2. svc.pc # "down" => HeldIn(lost \cup {svc.cur, call[me].cap})'
            BY <1>6, <1>8, <2>1 DEF HeldIn
        <2> QED BY <1>11, <2>2 DEF KnownInv
    <1> QED BY <1>10, <1>12, <1>13, <1>14 DEF SelfInv

\* The store is cleaned, and a lagging write settles.
LEMMA CleanSteps ==
    ASSUME SelfInv, UNCHANGED <<svc, lost>>, NEW c \in Cap,
           Cascade(c) \/ Sweep(c) \/ Delete(c) \/ DeleteFails(c) \/ Settle(c)
    PROVE  SelfInv'
    <1>1. SelfType /\ CallInv /\ UNCHANGED <<lease, call>>
        BY DEF SelfInv, Cascade, Sweep, RemoveByLease, Delete, DeleteFails, Settle
    <1>2. entries' \in [Cap -> Stored] /\ old' \in [Cap -> Stored]
        <2>1. CASE Cascade(c) \/ Sweep(c)
            BY <1>1, <2>1 DEF Cascade, Sweep, RemoveByLease, SelfType
        <2>2. CASE Delete(c)
            <3>1. Absent \in Stored
                BY DEF Absent, Stored
            <3> QED BY <1>1, <2>2, <3>1, StoreType DEF Delete
        <2>3. CASE DeleteFails(c) \/ Settle(c)
            BY <1>1, <2>3 DEF DeleteFails, Settle, SelfType, store
        <2> QED BY <2>1, <2>2, <2>3
    <1>3. SelfType'
        BY <1>1, <1>2 DEF SelfType
    <1> QED BY <1>1, <1>3, RegistryMove DEF CallInv

\* The Registry restarts.
LEMMA RestartStep ==
    ASSUME SelfInv, UNCHANGED <<svc, lost>>, RegistryRestart
    PROVE  SelfInv'
    <1>1. SelfType /\ CallInv
        BY DEF SelfInv
    <1>2. call' = [q \in Caller |-> IF call[q].pc = "idle" THEN IdleCall ELSE [call[q] EXCEPT !.pc = "done", !.ans = "error"]]
        BY DEF RegistryRestart
    <1>3. ASSUME NEW q \in Caller
          PROVE  /\ call'[q] \in Calls
                 /\ call[q].pc = "idle" => call'[q].pc = "idle"
                 /\ call[q].pc # "idle" => call'[q].pc = "done" /\ call'[q].ans = "error" /\ call'[q].cap = call[q].cap
        <2>1. CASE call[q].pc = "idle"
            BY <1>2, <2>1, IdleCallFacts
        <2>2. CASE call[q].pc # "idle"
            <3> DEFINE k == [call[q] EXCEPT !.pc = "done", !.ans = "error"]
            <3>1. k \in Calls /\ k.pc = "done" /\ k.ans = "error" /\ k.cap = call[q].cap
                BY <1>1 DEF SelfType, Calls
            <3>2. call'[q] = k
                BY <1>2, <2>2
            <3> HIDE DEF k
            <3> QED BY <2>2, <3>1, <3>2
        <2> QED BY <2>1, <2>2
    <1>4. call' \in [Caller -> Calls]
        BY <1>2, <1>3
    <1>5. /\ lease' \in [Cap -> {"none", "held", "ended"}] /\ \A c \in Cap : lease'[c] = "held" => lease[c] = "held"
          /\ entries' \in [Cap -> Stored] /\ old' \in [Cap -> Stored]
        <2>1. CASE Local
            <3>1. /\ entries' = [c \in Cap |-> Absent] /\ old' = entries'
                  /\ lease' = [c \in Cap |-> IF lease[c] = "none" THEN "none" ELSE "ended"]
                BY <2>1 DEF RegistryRestart
            <3>2. Absent \in Stored
                BY DEF Absent, Stored
            <3>3. \A c \in Cap : lease'[c] \in {"none", "ended"}
                BY <3>1
            <3> QED BY <3>1, <3>2, <3>3
        <2>2. CASE ~Local
            BY <1>1, <2>2 DEF RegistryRestart, store, SelfType
        <2> QED BY <2>1, <2>2
    <1>6. SelfType'
        BY <1>1, <1>4, <1>5 DEF SelfType
    <1>7. \A q \in Caller : call'[q].pc \notin {"new", "get", "modify"}
        BY <1>3
    <1>8. CASE call[me].pc = "idle"
        <2>1. call'[me] = IdleCall
            BY <1>2, <1>8, Callers
        <2>2. CallInv'
            BY <1>1, <1>7, <2>1, IdleCallFacts, Callers DEF CallInv
        <2>3. call'[me].cap = call[me].cap /\ svc.pc \notin {"first", "fresh", "renewing"}
            BY <1>1, <1>8, <2>1, IdleCallFacts DEF SelfInv, CallInv, RequestInv, FreshInv, RenewInv
        <2>4. RequestInv'
            BY <2>3 DEF SelfInv, RequestInv
        <2>5. KnownInv'
            BY <1>5, <2>3 DEF SelfInv, KnownInv, HeldIn
        <2> QED BY <1>6, <2>2, <2>4, <2>5 DEF SelfInv
    <1>9. CASE call[me].pc # "idle"
        BY <1>3, <1>5, <1>6, <1>7, <1>9, Callers, RegistryMove
    <1> QED BY <1>8, <1>9

\* A call is lost, a lease runs out, and the other holder modifies the entry.
LEMMA OutsideSteps ==
    ASSUME SelfInv, Unreachable \/ Modified \/ (\E c \in Cap : LeaseRunsOut(c)) \/ (\E A \in SUBSET Key : ModifyAttrs(A))
    PROVE  SelfInv'
    <1>1. SelfType /\ CallInv /\ call[tool] \in Calls
        BY Callers DEF SelfInv, SelfType
    <1>2. UNCHANGED <<entries, old, svc, lost>>
        BY DEF Unreachable, Modified, LeaseRunsOut, ModifyAttrs, store
    <1>3. CASE Unreachable
        <2>1. Answer(me, "error") /\ call[me].pc \in {"new", "get", "done"} /\ UNCHANGED lease
            BY <1>3 DEF Unreachable, Replied
        <2>2. PICK k \in Calls : call' = [call EXCEPT ![me] = k] /\ k.cap = call[me].cap /\ k.pc = "done" /\ k.ans = "error"
            BY <1>1, <2>1, Callers, AnswerUpdates
        <2>3. entries' \in [Cap -> Stored] /\ old' \in [Cap -> Stored]
            BY <1>1, <1>2 DEF SelfType
        <2>4. lost' \subseteq Cap \cup {NoCap} /\ k.pc = "done" /\ k.ans \in {"ok", "error"}
            BY <1>1, <1>2, <2>2 DEF SelfType
        <2> QED BY <1>2, <2>1, <2>2, <2>3, <2>4, Callers, Served
    <1>4. CASE \E c \in Cap : LeaseRunsOut(c)
        <2>1. UNCHANGED call /\ \E c \in Cap : lease' = [lease EXCEPT ![c] = "ended"]
            BY <1>4 DEF LeaseRunsOut
        <2>2. lease' \in [Cap -> {"none", "held", "ended"}] /\ \A c \in Cap : lease'[c] = "held" => lease[c] = "held"
            BY <1>1, <2>1 DEF SelfType
        <2>3. SelfType'
            BY <1>1, <1>2, <2>1, <2>2 DEF SelfType
        <2> QED BY <1>1, <1>2, <2>1, <2>2, <2>3, RegistryMove DEF CallInv
    <1>5. CASE Modified \/ \E A \in SUBSET Key : ModifyAttrs(A)
        <2>1. UNCHANGED lease
            BY <1>5 DEF Modified, ModifyAttrs
        <2>2. PICK k \in Calls : /\ call' = [call EXCEPT ![tool] = k] /\ k.pc # "new"
                                 /\ k.pc \in {"get", "modify"} => k.cap \in Cap
            <3>1. CASE Modified
                BY <3>1, IdleCallFacts DEF Modified
            <3>2. CASE \E A \in SUBSET Key : ModifyAttrs(A)
                <4>1. PICK A \in SUBSET Key : ModifyAttrs(A)
                    BY <3>2
                <4> DEFINE k == [IdleCall EXCEPT !.pc = "modify", !.cap = svc.req, !.put = A]
                <4>2. svc.req \in Cap /\ call' = [call EXCEPT ![tool] = k]
                    BY <4>1 DEF ModifyAttrs
                <4>3. k \in Calls /\ k.pc = "modify" /\ k.cap = svc.req
                    BY <4>2, IdleCallFacts DEF Calls
                <4> HIDE DEF k
                <4> QED BY <4>2, <4>3
            <3> QED BY <1>5, <3>1, <3>2
        <2>3. call' \in [Caller -> Calls] /\ call'[tool] = k /\ \A p \in Caller \ {tool} : call'[p] = call[p]
            BY <1>1, <2>2, Callers DEF SelfType
        <2>4. SelfType'
            BY <1>1, <1>2, <2>1, <2>3 DEF SelfType
        <2>5. \A p \in Caller : call'[p].pc \in {"get", "modify"} => call'[p].cap \in Cap
            BY <1>1, <2>2, <2>3 DEF CallInv
        <2>6. call'[me] = call[me] /\ call'[tool].pc # "new"
            BY <2>2, <2>3, Callers
        <2> QED BY <1>2, <2>1, <2>4, <2>5, <2>6, RegistryMove
    <1> QED BY <1>3, <1>4, <1>5

-----------------------------------------------------------------------------
(***************************************************************************)
(* The service's steps.                                                    *)
(***************************************************************************)

\* The service moves on, with a request or none.
LEMMA SvcMove ==
    ASSUME SelfInv, NEW k \in Svcs, NEW m \in Calls, svc' = k, call' = [call EXCEPT ![me] = m],
           lease' \in [Cap -> {"none", "held", "ended"}], UNCHANGED <<entries, old>>, lost' \subseteq Cap \cup {NoCap},
           m.pc \in {"get", "modify"} => m.cap \in Cap, m.pc \in {"idle", "new"} => m.cap = NoCap,
           k.pc \in {"boot", "idle", "cancel"} => m.pc = "idle", k.clean => k.pc = "down" /\ m.pc = "idle"
    PROVE  /\ SelfType' /\ CallInv' /\ call'[me] = m
    <1>1. SelfType /\ CallInv
        BY DEF SelfInv
    <1>2. call' \in [Caller -> Calls] /\ call'[me] = m /\ \A p \in Caller \ {me} : call'[p] = call[p]
        BY <1>1, Callers DEF SelfType
    <1>3. SelfType'
        BY <1>1, <1>2 DEF SelfType
    <1>4. \A p \in Caller : call'[p].pc \in {"get", "modify"} => call'[p].cap \in Cap
        BY <1>1, <1>2 DEF CallInv
    <1>5. call'[tool].pc # "new"
        BY <1>1, <1>2, Callers DEF CallInv
    <1> QED BY <1>2, <1>3, <1>4, <1>5 DEF CallInv

\* A request that is sent cites an id, or asks for a new one.
LEMMA SendFacts ==
    ASSUME NEW c \in Cap \cup {NoCap}, Send(c)
    PROVE  \E m \in Calls : /\ call' = [call EXCEPT ![me] = m] /\ m.cap = c
                            /\ m.pc = "new" <=> c = NoCap
                            /\ m.pc = "get" <=> c # NoCap
                            /\ m.pc \in {"new", "get"}
    <1>1. PICK l \in {"new", "get"} : l = IF c = NoCap THEN "new" ELSE "get"
        OBVIOUS
    <1> DEFINE m == [IdleCall EXCEPT !.pc = l, !.cap = c]
    <1>2. m \in Calls /\ m.pc = l /\ m.cap = c
        BY IdleCallFacts DEF Calls
    <1>3. call' = [call EXCEPT ![me] = m]
        BY <1>1 DEF Send
    <1> HIDE DEF m
    <1> QED BY <1>1, <1>2, <1>3

\* Dial, and every tick of the renewal task.
LEMMA SendSteps ==
    ASSUME SelfInv, Dial \/ Tick
    PROVE  SelfInv'
    <1>1. /\ SelfType /\ CallInv /\ RequestInv /\ KnownInv /\ svc \in Svcs /\ ~svc.clean
          /\ UNCHANGED <<entries, old, lease, lost>> /\ call[me].cap = NoCap
        BY DEF SelfInv, SelfType, CallInv, Dial, Tick, store
    <1>2. lease' \in [Cap -> {"none", "held", "ended"}] /\ lost' \subseteq Cap \cup {NoCap}
        BY <1>1 DEF SelfType
    <1>3. CASE Dial
        <2>1. svc.pc = "boot" /\ Send(NoCap) /\ svc' = [svc EXCEPT !.pc = "first"]
            BY <1>3 DEF Dial
        <2>2. PICK m \in Calls : call' = [call EXCEPT ![me] = m] /\ m.cap = NoCap /\ m.pc = "new"
            BY <2>1, SendFacts
        <2> DEFINE k == [svc EXCEPT !.pc = "first"]
        <2>3. k \in Svcs /\ k.pc = "first" /\ k.clean = svc.clean /\ k.req = svc.req /\ k.cur = svc.cur
            BY <1>1 DEF Svcs
        <2>4. svc' = k
            BY <2>1
        <2> HIDE DEF k
        <2>5. SelfType' /\ CallInv' /\ call'[me] = m
            BY <1>1, <1>2, <2>2, <2>3, <2>4, SvcMove
        <2>6. RequestInv'
            BY <1>1, <2>1, <2>2, <2>3, <2>4, <2>5 DEF RequestInv, FreshInv
        <2>7. KnownInv'
            BY <1>1, <2>1, <2>2, <2>3, <2>4, <2>5 DEF KnownInv, HeldIn
        <2> QED BY <2>5, <2>6, <2>7 DEF SelfInv
    <1>4. CASE Tick
        <2>1. svc.pc = "idle" /\ Send(svc.req) /\ svc' = [svc EXCEPT !.pc = "renewing"] /\ svc.req \in Cap \cup {NoCap}
            BY <1>1, <1>4 DEF Tick, Svcs
        <2>2. PICK m \in Calls : /\ call' = [call EXCEPT ![me] = m] /\ m.cap = svc.req
                                 /\ m.pc = "new" <=> svc.req = NoCap
                                 /\ m.pc = "get" <=> svc.req # NoCap
                                 /\ m.pc \in {"new", "get"}
            BY <2>1, SendFacts
        <2> DEFINE k == [svc EXCEPT !.pc = "renewing"]
        <2>3. k \in Svcs /\ k.pc = "renewing" /\ k.clean = svc.clean /\ k.req = svc.req /\ k.cur = svc.cur
            BY <1>1 DEF Svcs
        <2>4. svc' = k
            BY <2>1
        <2> HIDE DEF k
        <2>5. m.pc \in {"get", "modify"} => m.cap \in Cap
            BY <2>1, <2>2
        <2>6. SelfType' /\ CallInv' /\ call'[me] = m
            BY <1>1, <1>2, <2>2, <2>3, <2>4, <2>5, SvcMove
        <2>7. svc.req \in {NoCap, svc.cur}
            BY <1>1, <2>1 DEF RequestInv
        <2>8. RequestInv'
            <3>1. svc.req = NoCap => FreshInv'
                BY <2>2, <2>6 DEF FreshInv
            <3>2. svc.req # NoCap => RenewInv'
                BY <2>2, <2>3, <2>4, <2>6 DEF RenewInv
            <3> QED BY <2>3, <2>4, <2>7, <3>1, <3>2 DEF RequestInv
        <2>9. KnownInv'
            <3>1. HeldIn(lost \cup {svc.cur, NoCap})
                BY <1>1, <2>1 DEF KnownInv
            <3>2. HeldIn(lost \cup {svc.cur, call[me].cap})'
                BY <1>1, <2>2, <2>3, <2>4, <2>6, <3>1, Callers DEF HeldIn
            <3> QED BY <1>1, <2>3, <2>4, <3>2 DEF KnownInv
        <2> QED BY <2>6, <2>8, <2>9 DEF SelfInv
    <1> QED BY <1>3, <1>4

\* The answer to a registration without an id: adopt it, or never know.
LEMMA AdoptSteps ==
    ASSUME SelfInv, Registered \/ Reregistered
    PROVE  SelfInv'
    <1>1. /\ SelfType /\ CallInv /\ RequestInv /\ KnownInv /\ svc \in Svcs /\ call[me] \in Calls
          /\ svc.pc \in {"first", "fresh"} /\ call[me].pc = "done" /\ Hung
          /\ UNCHANGED <<entries, old, lease>>
          /\ lost' = lost \cup IF call[me].ans = "ok" THEN {} ELSE {call[me].cap}
        BY Callers DEF SelfInv, SelfType, Registered, Reregistered, Replied, store
    <1>2. ~svc.clean /\ svc.req = NoCap /\ svc.cur = NoCap
        BY <1>1 DEF CallInv, RequestInv
    <1>3. /\ lease' \in [Cap -> {"none", "held", "ended"}] /\ lost' \subseteq Cap \cup {NoCap}
          /\ call' = [call EXCEPT ![me] = IdleCall] /\ call[me].cap \in Cap \cup {NoCap}
        BY <1>1 DEF SelfType, Hung, Calls
    <1>4. \A c \in Cap : lease'[c] = "held" => c \in lost \cup {call[me].cap}
        BY <1>1, <1>2, Callers DEF KnownInv, HeldIn
    <1>5. CASE call[me].ans = "ok"
        <2> DEFINE k == [svc EXCEPT !.pc = "idle", !.req = call[me].cap, !.cur = call[me].cap]
        <2>1. k \in Svcs /\ k.pc = "idle" /\ k.clean = svc.clean /\ k.req = call[me].cap /\ k.cur = call[me].cap
            BY <1>1, <1>3 DEF Svcs
        <2>2. svc' = k /\ lost' = lost
            BY <1>1, <1>5 DEF Registered, Reregistered
        <2> HIDE DEF k
        <2>3. SelfType' /\ CallInv' /\ call'[me] = IdleCall
            BY <1>1, <1>2, <1>3, <2>1, <2>2, IdleCallFacts, SvcMove
        <2>4. RequestInv'
            BY <2>1, <2>2 DEF RequestInv
        <2>5. KnownInv'
            BY <1>2, <1>4, <2>1, <2>2 DEF KnownInv, HeldIn
        <2> QED BY <2>3, <2>4, <2>5 DEF SelfInv
    <1>6. CASE call[me].ans # "ok"
        <2>1. PICK l \in {"boot", "idle"} : svc' = [svc EXCEPT !.pc = l]
            BY <1>6 DEF Registered, Reregistered
        <2> DEFINE k == [svc EXCEPT !.pc = l]
        <2>2. k \in Svcs /\ k.pc = l /\ k.clean = svc.clean /\ k.req = svc.req /\ k.cur = svc.cur
            BY <1>1 DEF Svcs
        <2>3. svc' = k /\ lost' = lost \cup {call[me].cap}
            BY <1>1, <1>6, <2>1
        <2> HIDE DEF k
        <2>4. SelfType' /\ CallInv' /\ call'[me] = IdleCall
            BY <1>1, <1>2, <1>3, <2>2, <2>3, IdleCallFacts, SvcMove
        <2>5. RequestInv'
            BY <1>2, <2>2, <2>3 DEF RequestInv
        <2>6. KnownInv'
            BY <1>2, <1>4, <2>2, <2>3 DEF KnownInv, HeldIn
        <2> QED BY <2>4, <2>5, <2>6 DEF SelfInv
    <1> QED BY <1>5, <1>6

\* The answer to a renewal: keep the lease, or lose it and start afresh.
LEMMA RenewedStep ==
    ASSUME SelfInv, Renewed
    PROVE  SelfInv'
    <1>1. /\ SelfType /\ CallInv /\ RequestInv /\ KnownInv /\ svc \in Svcs /\ call[me] \in Calls
          /\ svc.pc = "renewing" /\ call[me].pc = "done" /\ UNCHANGED <<entries, old, lease>>
        BY Callers DEF SelfInv, SelfType, Renewed, Replied, store
    <1>2. /\ svc.req \in Cap \cup {NoCap} /\ svc.cur \in Cap \cup {NoCap} /\ call[me].cap \in Cap \cup {NoCap}
          /\ lost \subseteq Cap \cup {NoCap} /\ lease' \in [Cap -> {"none", "held", "ended"}]
        BY <1>1 DEF SelfType, Svcs, Calls
    <1>3. /\ ~svc.clean /\ svc.req \in {NoCap, svc.cur}
          /\ svc.req = NoCap => call[me].ans \in {"ok", "error"}
          /\ svc.req # NoCap => call[me].cap = svc.req
        BY <1>1 DEF CallInv, RequestInv, FreshInv, RenewInv
    <1>4. \A c \in Cap : lease'[c] = "held" => c \in lost \cup {svc.cur, call[me].cap}
        BY <1>1 DEF KnownInv, HeldIn
    <1>5. CASE entry_is_unusable(call[me].ans)
        <2>1. Send(NoCap) /\ svc' = [svc EXCEPT !.pc = "fresh", !.req = NoCap, !.cur = NoCap] /\ lost' = lost \cup {svc.req}
            BY <1>5 DEF Renewed
        <2>2. PICK m \in Calls : call' = [call EXCEPT ![me] = m] /\ m.cap = NoCap /\ m.pc = "new"
            BY <2>1, SendFacts
        <2> DEFINE k == [svc EXCEPT !.pc = "fresh", !.req = NoCap, !.cur = NoCap]
        <2>3. k \in Svcs /\ k.pc = "fresh" /\ k.clean = svc.clean /\ k.req = NoCap /\ k.cur = NoCap
            BY <1>1 DEF Svcs
        <2>4. svc' = k
            BY <2>1
        <2> HIDE DEF k
        <2>10. lost' \subseteq Cap \cup {NoCap}
            BY <1>2, <2>1
        <2>5. SelfType' /\ CallInv' /\ call'[me] = m
            BY <1>1, <1>2, <1>3, <2>2, <2>3, <2>4, <2>10, SvcMove
        <2>6. svc.req # NoCap
            BY <1>3, <1>5 DEF entry_is_unusable
        <2>7. RequestInv'
            BY <2>2, <2>3, <2>4, <2>5 DEF RequestInv, FreshInv
        <2>8. \A c \in Cap : lease'[c] = "held" => c \in lost'
            BY <1>3, <1>4, <2>1, <2>6
        <2>9. KnownInv'
            BY <2>8 DEF KnownInv, HeldIn
        <2> QED BY <2>5, <2>7, <2>9 DEF SelfInv
    <1>6. CASE ~entry_is_unusable(call[me].ans)
        <2>1. PICK c \in Cap \cup {NoCap} : c = IF call[me].ans = "ok" THEN call[me].cap ELSE svc.cur
            BY <1>2
        <2>2. Hung /\ svc' = [svc EXCEPT !.pc = "idle", !.cur = c]
            BY <1>6, <2>1 DEF Renewed
        <2>3. lost' = lost \cup (IF svc.req # NoCap THEN {} ELSE IF call[me].ans = "ok" THEN {svc.cur} ELSE {call[me].cap})
            BY <1>6 DEF Renewed
        <2> DEFINE k == [svc EXCEPT !.pc = "idle", !.cur = c]
        <2>4. k \in Svcs /\ k.pc = "idle" /\ k.clean = svc.clean /\ k.cur = c /\ k.req = svc.req
            BY <1>1 DEF Svcs
        <2>5. svc' = k /\ call' = [call EXCEPT ![me] = IdleCall]
            BY <2>2 DEF Hung
        <2> HIDE DEF k
        <2>6. lost' \subseteq Cap \cup {NoCap}
            BY <1>2, <2>3
        <2>7. SelfType' /\ CallInv' /\ call'[me] = IdleCall
            BY <1>1, <1>2, <1>3, <2>4, <2>5, <2>6, IdleCallFacts, SvcMove
        <2>8. svc.req # NoCap => c = svc.req
            BY <1>3, <2>1
        <2>9. RequestInv'
            BY <2>4, <2>5, <2>8 DEF RequestInv
        <2>10. \A d \in Cap : lease'[d] = "held" => d \in lost' \cup {c}
            <3>1. CASE svc.req # NoCap
                BY <1>3, <1>4, <2>3, <2>8, <3>1
            <3>2. CASE svc.req = NoCap /\ call[me].ans = "ok"
                BY <1>4, <2>1, <2>3, <3>2
            <3>3. CASE svc.req = NoCap /\ call[me].ans # "ok"
                BY <1>4, <2>1, <2>3, <3>3
            <3> QED BY <3>1, <3>2, <3>3
        <2>11. KnownInv'
            BY <1>3, <2>4, <2>5, <2>10 DEF KnownInv, HeldIn
        <2> QED BY <2>7, <2>9, <2>11 DEF SelfInv
    <1> QED BY <1>5, <1>6

\* The way down: told to stop, the renewal task stopped, or killed.
LEMMA StopSteps ==
    ASSUME SelfInv, Shutdown \/ StopRenewal \/ Killed
    PROVE  SelfInv'
    <1>1. /\ SelfType /\ CallInv /\ RequestInv /\ KnownInv /\ svc \in Svcs /\ call[me] \in Calls /\ svc.pc # "down"
          /\ UNCHANGED <<entries, old, lease, call, lost>>
        BY Callers DEF SelfInv, SelfType, Shutdown, StopRenewal, Killed, registry, store
    <1>2. ~svc.clean
        BY <1>1 DEF CallInv
    <1>3. PICK k \in Svcs : /\ svc' = k /\ k.clean = svc.clean /\ k.req = svc.req /\ k.cur = svc.cur
                            /\ k.pc = svc.pc \/ k.pc = "down" \/ (svc.pc = "idle" /\ k.pc = "cancel")
        <2>1. CASE Shutdown
            <3>1. svc' = [svc EXCEPT !.stop = TRUE]
                BY <2>1 DEF Shutdown
            <3> DEFINE k == [svc EXCEPT !.stop = TRUE]
            <3>2. k \in Svcs /\ k.clean = svc.clean /\ k.req = svc.req /\ k.cur = svc.cur /\ k.pc = svc.pc
                BY <1>1 DEF Svcs
            <3> QED BY <3>1, <3>2
        <2>2. CASE Killed \/ StopRenewal
            <3>1. PICK l \in {"cancel", "down"} : svc' = [svc EXCEPT !.pc = l] /\ (l = "cancel" => svc.pc = "idle")
                BY <2>2 DEF Killed, StopRenewal
            <3> DEFINE k == [svc EXCEPT !.pc = l]
            <3>2. k \in Svcs /\ k.clean = svc.clean /\ k.req = svc.req /\ k.cur = svc.cur /\ k.pc = l
                BY <1>1 DEF Svcs
            <3>3. l = "down" \/ (svc.pc = "idle" /\ l = "cancel")
                BY <3>1
            <3> QED BY <3>1, <3>2, <3>3
        <2> QED BY <2>1, <2>2
    <1>4. /\ lease' \in [Cap -> {"none", "held", "ended"}] /\ lost' \subseteq Cap \cup {NoCap}
          /\ call' = [call EXCEPT ![me] = call[me]]
        BY <1>1 DEF SelfType
    <1>5. SelfType' /\ CallInv'
        <2>1. call[me].pc \in {"get", "modify"} => call[me].cap \in Cap
            BY <1>1, Callers DEF CallInv
        <2>2. k.pc \in {"boot", "idle", "cancel"} => call[me].pc = "idle"
            BY <1>1, <1>3 DEF CallInv
        <2>3. call[me].pc \in {"idle", "new"} => call[me].cap = NoCap
            BY <1>1 DEF CallInv
        <2> QED BY <1>1, <1>2, <1>3, <1>4, <2>1, <2>2, <2>3, SvcMove
    <1>6. KnownInv'
        BY <1>1, <1>2, <1>3 DEF KnownInv, HeldIn
    <1>7. RequestInv'
        <2>1. CASE k.pc = svc.pc
            BY <1>1, <1>3, <2>1 DEF RequestInv, FreshInv, RenewInv
        <2>2. CASE k.pc = "down"
            BY <1>3, <2>2 DEF RequestInv
        <2>3. CASE svc.pc = "idle" /\ k.pc = "cancel"
            BY <1>1, <1>3, <2>3 DEF RequestInv
        <2> QED BY <1>3, <2>1, <2>2, <2>3
    <1> QED BY <1>5, <1>6, <1>7 DEF SelfInv

\* The lease that is live now is cancelled, last.
LEMMA CancelLeaseStep ==
    ASSUME SelfInv, CancelLease
    PROVE  SelfInv'
    <1>1. /\ SelfType /\ CallInv /\ RequestInv /\ KnownInv /\ svc \in Svcs /\ call[me] \in Calls /\ svc.pc = "cancel"
          /\ call[me].pc = "idle" /\ call[me].cap = NoCap /\ UNCHANGED <<entries, old, call, lost>>
          /\ svc' = [svc EXCEPT !.pc = "down", !.clean = TRUE]
          /\ lease' = IF svc.cur \in Cap /\ lease[svc.cur] = "held" THEN [lease EXCEPT ![svc.cur] = "ended"] ELSE lease
        BY Callers DEF SelfInv, SelfType, CallInv, CancelLease, store
    <1> DEFINE k == [svc EXCEPT !.pc = "down", !.clean = TRUE]
    <1>2. k \in Svcs /\ k.pc = "down" /\ k.clean
        BY <1>1 DEF Svcs
    <1>3. svc' = k
        BY <1>1
    <1> HIDE DEF k
    <1>4. /\ lease' \in [Cap -> {"none", "held", "ended"}] /\ lost' \subseteq Cap \cup {NoCap}
          /\ call' = [call EXCEPT ![me] = call[me]]
        BY <1>1 DEF SelfType
    <1>5. SelfType' /\ CallInv'
        BY <1>1, <1>2, <1>3, <1>4, SvcMove
    <1>6. HeldIn(lost)'
        <2>1. ASSUME NEW c \in Cap, lease'[c] = "held"
              PROVE  c \in lost
            <3>1. lease[c] = "held" => c \in lost \cup {svc.cur}
                BY <1>1, Callers DEF KnownInv, HeldIn
            <3>2. CASE c = svc.cur
                BY <1>1, <2>1, <3>2 DEF SelfType
            <3>3. CASE c # svc.cur
                BY <1>1, <2>1, <3>1, <3>3 DEF SelfType
            <3> QED BY <3>2, <3>3
        <2> QED BY <1>1, <2>1 DEF HeldIn
    <1>7. KnownInv' /\ RequestInv'
        BY <1>2, <1>3, <1>6 DEF KnownInv, RequestInv
    <1> QED BY <1>5, <1>7 DEF SelfInv

\* A request nobody waits for.
LEMMA ForgetStep ==
    ASSUME SelfInv, Forget
    PROVE  SelfInv'
    <1>1. /\ SelfType /\ CallInv /\ RequestInv /\ KnownInv /\ svc.pc = "down" /\ svc \in Svcs
          /\ UNCHANGED <<entries, old, lease, svc, lost>> /\ call' = [call EXCEPT ![me] = IdleCall]
        BY DEF SelfInv, SelfType, Forget, Hung, store
    <1>2. lease' \in [Cap -> {"none", "held", "ended"}] /\ lost' \subseteq Cap \cup {NoCap}
        BY <1>1 DEF SelfType
    <1>3. SelfType' /\ CallInv'
        BY <1>1, <1>2, IdleCallFacts, SvcMove
    <1>4. KnownInv' /\ RequestInv'
        BY <1>1 DEF KnownInv, HeldIn, RequestInv
    <1> QED BY <1>3, <1>4 DEF SelfInv

-----------------------------------------------------------------------------
(***************************************************************************)
(* The theorems.                                                           *)
(***************************************************************************)

\* The service boots and the Registry is empty.
LEMMA SelfInit ==
    ASSUME Init
    PROVE  SelfInv
    <1>1. SelfType
        <2>1. Absent \in Stored
            BY DEF Absent, Stored
        <2>2. svc \in Svcs
            BY SMT DEF Init, Svcs
        <2> QED BY <2>1, <2>2, IdleCallFacts DEF Init, RegistryInit, SelfType
    <1>2. \A q \in Caller : call[q] = IdleCall
        BY DEF Init, RegistryInit
    <1>3. svc.pc = "boot" /\ svc.clean = FALSE /\ svc.req = NoCap /\ svc.cur = NoCap
        BY SMT DEF Init
    <1>4. CallInv
        BY <1>2, <1>3, IdleCallFacts, Callers DEF CallInv
    <1>5. KnownInv /\ RequestInv
        BY <1>3 DEF Init, RegistryInit, KnownInv, HeldIn, RequestInv
    <1> QED BY <1>1, <1>4, <1>5 DEF SelfInv

\* A step that changes nothing.
LEMMA SelfStutter ==
    ASSUME SelfInv, UNCHANGED vars
    PROVE  SelfInv'
    <1>1. UNCHANGED <<entries, old, lease, call, svc, lost>>
        BY DEF vars, registry, store
    <1>2. SelfType' /\ CallInv
        BY <1>1 DEF SelfInv, SelfType
    <1> QED BY <1>1, <1>2, RegistryMove DEF CallInv

\* Every step of the service, the Registry and their surroundings keeps the
\* invariant.
LEMMA SelfStep ==
    ASSUME SelfInv, [Next]_vars
    PROVE  SelfInv'
    <1>1. CASE Service
        BY <1>1, SendSteps, AdoptSteps, RenewedStep, StopSteps, CancelLeaseStep DEF Service
    <1>2. CASE Unreachable \/ Modified \/ (\E c \in Cap : LeaseRunsOut(c)) \/ (\E A \in SUBSET Key : ModifyAttrs(A))
        BY <1>2, OutsideSteps
    <1>3. CASE Shutdown \/ Killed \/ Forget
        BY <1>3, StopSteps, ForgetStep
    <1>4. CASE Trouble
        <2>1. UNCHANGED <<svc, lost>> /\ lost' \subseteq Cap \cup {NoCap}
            BY <1>4 DEF Trouble, SelfInv, SelfType
        <2> QED BY <1>4, <2>1, ServeStep, CleanSteps, RestartStep DEF Trouble
    <1>5. ASSUME NEW q \in Caller, Server(q)
          PROVE  SelfInv'
        <2>1. /\ UNCHANGED svc /\ lost' \subseteq Cap \cup {NoCap}
              /\ \A c \in Cap : lease[c] = "held" /\ c \in lost => c \in lost'
            BY <1>5 DEF Server
        <2> QED BY <1>5, <2>1, GrantStep, ServeStep DEF Server, Serve
    <1>6. ASSUME NEW c \in Cap, Reclaim(c) \/ (Settle(c) /\ UNCHANGED <<svc, lost>>)
          PROVE  SelfInv'
        BY <1>6, CleanSteps DEF Reclaim
    <1>7. CASE UNCHANGED vars
        BY <1>7, SelfStutter
    <1> QED BY <1>1, <1>2, <1>3, <1>4, <1>5, <1>6, <1>7 DEF Next

\* The invariant of a service that registers itself: it knows every lease
\* that is held, or is about to, or has lost it.
THEOREM SelfSafety == Spec => []SelfInv
    <1>1. Init => SelfInv
        BY SelfInit
    <1>2. SelfInv /\ [Next]_vars => SelfInv'
        BY SelfStep
    <1> QED BY <1>1, <1>2, PTL DEF Spec

\* After a graceful shutdown no lease is held, now or later, but those of
\* registrations the service could not know: their answer was not received,
\* Registry refused to renew them, or a later one replaced them.  For any
\* number of ids, faults and modifications, with either provider
\* (Registration::deregister, SelfRegistrationHandle::cancel, the renewal task).
THEOREM DeregisteredIsGoneHolds == Spec => []DeregisteredIsGone
    <1>1. SelfInv => DeregisteredIsGone
        BY DEF SelfInv, KnownInv, HeldIn, DeregisteredIsGone
    <1> QED BY <1>1, SelfSafety, PTL
=============================================================================
