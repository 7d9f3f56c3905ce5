----------------------------- MODULE SpaceProofs -----------------------------
(***************************************************************************)
(* The safety of the tuple space over its in-memory store, for every       *)
(* number of tuples, clients, transactions, participant calls and expiry   *)
(* tasks, templates and capacities.                                        *)
(***************************************************************************)
EXTENDS Space, FiniteSetTheorems, TLAPS

\* Most steps are first-order; those that count or update records cite SMT.  In a
\* module of this size a prover is slow to start, so each leaf is given 30 seconds.
USE ZenonT(30)

-----------------------------------------------------------------------------
(***************************************************************************)
(* The inductive invariant.                                                *)
(***************************************************************************)

Buffers == [Txn -> SUBSET Tuple]
Stores == [tuples : SUBSET Tuple, lease_index : SUBSET Tuple, uncommitted : Buffers,
           txn_taken : Buffers, txn_self_taken : Buffers, txn_lease_index : [Tuple -> Context]]
Txns == [outcome : {"open", "voting", "commit", "abort"}, entries : Nat]
ClientSteps == {"idle", "check", "enlist", "mark", "buffer", "push", "insert", "index", "send",
                "own", "scan", "blocked", "unindex", "release", "track", "hold"}
Clients == [pc : ClientSteps, method : Method \cup {"none"}, txn : Context, tuple : Tuple \cup {NoTuple},
            inbox : Seq(Tuple), lagged : BOOLEAN]
HandlerSteps == {"idle", "kept", "show", "show_index", "gone", "claim_self", "unenlist", "release"}
Commits == {"commit", "prepare_and_commit"}
Handlers == [pc : HandlerSteps, txn : Context, method : Commits \cup {"none", "abort"},
             todo : SUBSET Tuple, moved : SUBSET Tuple, freed : SUBSET Tuple, tuple : Tuple \cup {NoTuple}]
Removers == [pc : {"idle", "index", "tuple", "txn_index", "buffer"}, tuple : Tuple \cup {NoTuple}, txn : Context]
Histories == [written : [Tuple -> Context \cup {Unwritten}], ended : [Tuple -> Nat], leaked : SUBSET Tuple]

SpaceType ==
    /\ store \in Stores /\ lease \in [Tuple -> {"none", "standing", "gone"}]
    /\ reclaims \subseteq Tuple /\ txns \in [Txn -> Txns]
    /\ \A k \in calls : k[1] \in Txn /\ k[2] \in Commits \cup {"prepare", "abort"}
    /\ client \in [Client -> Clients] /\ handler \in [Handler -> Handlers]
    /\ remover \in [Remover -> Removers] /\ history \in Histories

\* Anyone may see the tuple: it was written in no transaction, or that
\* transaction has committed.
Free(t) ==
    \/ history.written[t] = NoTxn
    \/ history.written[t] \in Txn /\ txns[history.written[t]].outcome = "commit"

\* A write that has not stored its tuple yet.
Writing(c) == client[c].method = "write" /\ client[c].pc \in {"check", "enlist", "mark", "buffer", "push", "insert"}

\* A take in a transaction has the tuple in hand.
Holds(c, t) == client[c].pc \in {"unindex", "track", "hold"} /\ client[c].txn # NoTxn /\ client[c].tuple = t

\* What a client's call has at each of its steps.
ClientInv(c) ==
    /\ client[c].pc = "idle" => client[c].txn = NoTxn
    /\ client[c].pc \in {"check", "enlist", "mark", "buffer", "push", "own", "track", "hold"} => client[c].txn # NoTxn
    /\ client[c].pc \in {"buffer", "push", "insert"} => client[c].method = "write"
    /\ Writing(c) => /\ client[c].tuple \in Tuple /\ lease[client[c].tuple] # "none"
                     /\ history.written[client[c].tuple] = Unwritten
    /\ client[c].pc \in {"index", "send"} => client[c].tuple \in Tuple /\ history.written[client[c].tuple] = NoTxn
    /\ client[c].pc \in {"unindex", "release", "track", "hold"} => client[c].tuple \in Tuple /\ Free(client[c].tuple)
    /\ \A n \in 1 .. Len(client[c].inbox) : Free(client[c].inbox[n])

\* A lease is granted once, so a tuple has one writer.
OneWriter == \A c, d \in Client : Writing(c) /\ Writing(d) /\ client[c].tuple = client[d].tuple => c = d

\* What a participant call has at each of its steps: it works for the outcome it
\* was told, and has nothing to show before it has claimed the buffer.
HandlerInv(h) ==
    /\ handler[h].pc # "idle" => handler[h].txn # NoTxn
    /\ handler[h].pc # "idle" /\ handler[h].method # "abort" => txns[handler[h].txn].outcome = "commit"
    /\ handler[h].pc \notin {"show", "show_index"} => handler[h].todo = {}
    /\ handler[h].pc = "show_index" => handler[h].tuple \in Tuple
    /\ \A t \in handler[h].todo \cup handler[h].moved : Free(t)

\* A commit is sent when it was decided; on_tuple_expired is for a tuple.
CallsInv ==
    /\ \A k \in calls : k[2] \in Commits => txns[k[1]].outcome = "commit"
    /\ \A r \in Remover : /\ remover[r].pc # "idle" => remover[r].tuple \in Tuple
                          /\ remover[r].pc = "buffer" => remover[r].txn # NoTxn

\* What is visible, and what was taken from there, anyone may see; a buffer
\* holds what its transaction wrote; the lease comes before the tuple.
StoreInv ==
    /\ \A t \in Tuple : lease[t] = "none" => history.written[t] = Unwritten
    /\ \A t \in store.tuples : Free(t)
    /\ \A x \in Txn : /\ \A t \in store.txn_taken[x] : Free(t)
                      /\ \A t \in store.uncommitted[x] : history.written[t] = x

\* A tuple that was written is in one place, or has ended once.
HomeInv(t) ==
    \/ history.written[t] = Unwritten /\ history.ended[t] = 0 /\ Places(t) = {}
    \/ history.written[t] # Unwritten /\ history.ended[t] = 1 /\ Places(t) = {}
    \/ history.written[t] # Unwritten /\ history.ended[t] = 0 /\ \E p \in Places(t) : Places(t) = {p}

SpaceInv ==
    /\ SpaceType /\ OneWriter /\ CallsInv /\ StoreInv /\ Isolation
    /\ \A c \in Client : ClientInv(c)
    /\ \A h \in Handler : HandlerInv(h)
    /\ \A t \in Tuple : HomeInv(t)

-----------------------------------------------------------------------------
(***************************************************************************)
(* What steps leave alone.                                                 *)
(***************************************************************************)

\* A commit is final, a tuple is written once, and a lease granted once.
Lasting ==
    /\ \A x \in Txn : txns[x].outcome = "commit" => txns'[x].outcome = "commit"
    /\ \A t \in Tuple : history.written[t] # Unwritten => history'.written[t] = history.written[t]
    /\ \A t \in Tuple : lease[t] # "none" => lease'[t] # "none"

\* What anyone may see stays so.
LEMMA FreeStays ==
    ASSUME SpaceType, Lasting, NEW t \in Tuple, Free(t)
    PROVE  Free(t)'
    <1>1. history.written[t] # Unwritten
        BY SpaceAssumption DEF Free, Context
    <1>2. history'.written[t] = history.written[t]
        BY <1>1 DEF Lasting
    <1> QED BY <1>2 DEF Free, Lasting

\* A call that takes no step keeps what it has.
LEMMA ClientStays ==
    ASSUME SpaceType, Lasting, NEW c \in Client, ClientInv(c), client'[c] = client[c],
           Writing(c) => history'.written[client[c].tuple] = history.written[client[c].tuple]
    PROVE  ClientInv(c)'
    <1>1. client[c] \in Clients
        BY DEF SpaceType
    <1>2. \A n \in 1 .. Len(client[c].inbox) : client[c].inbox[n] \in Tuple
        BY <1>1, SMTT(30) DEF Clients
    <1>3. \A n \in 1 .. Len(client[c].inbox) : Free(client[c].inbox[n])'
        BY <1>2, FreeStays DEF ClientInv
    <1>4. client[c].pc \in {"unindex", "release", "track", "hold"} => client[c].tuple \in Tuple /\ Free(client[c].tuple)'
        BY FreeStays DEF ClientInv
    <1>5. Writing(c) => lease'[client[c].tuple] # "none" /\ history'.written[client[c].tuple] = Unwritten
        BY DEF ClientInv, Lasting
    <1>6. client[c].pc \in {"index", "send"} => history'.written[client[c].tuple] = NoTxn
        BY SpaceAssumption DEF ClientInv, Lasting, Context
    <1> QED BY <1>3, <1>4, <1>5, <1>6 DEF ClientInv, Writing

\* So does a participant call.
LEMMA HandlerStays ==
    ASSUME SpaceType, Lasting, NEW h \in Handler, HandlerInv(h), handler'[h] = handler[h]
    PROVE  HandlerInv(h)'
    <1>1. handler[h] \in Handlers
        BY DEF SpaceType
    <1>2. handler[h].todo \subseteq Tuple /\ handler[h].moved \subseteq Tuple /\ handler[h].txn \in Context
        BY <1>1, SMTT(30) DEF Handlers
    <1>3. \A t \in handler[h].todo \cup handler[h].moved : Free(t)'
        BY <1>2, FreeStays DEF HandlerInv
    <1> QED BY <1>2, <1>3 DEF HandlerInv, Lasting, Context

\* Where a tuple can be.
At(t, p) ==
    \/ p = <<"tuples", t>> /\ t \in store.tuples
    \/ \E x \in Txn : \/ p = <<"uncommitted", x>> /\ t \in store.uncommitted[x]
                      \/ p = <<"txn_taken", x>> /\ t \in store.txn_taken[x]
                      \/ p = <<"txn_self_taken", x>> /\ t \in store.txn_self_taken[x]
    \/ \E c \in Client : p = <<"taking", c>> /\ Holds(c, t)
    \/ \E h \in Handler : p = <<"todo", h>> /\ t \in handler[h].todo

\* The set of a tuple's places, as a condition on a place.
LEMMA PlacesAt ==
    ASSUME NEW t \in Tuple, NEW p
    PROVE  (p \in Places(t) <=> At(t, p)) /\ (p \in Places(t)' <=> At(t, p)')
    <1>1. p \in Places(t) <=> At(t, p)
        BY DEF Places, At, Holds
    <1>2. p \in Places(t)' <=> At(t, p)'
        BY DEF Places, At, Holds
    <1> QED BY <1>1, <1>2

\* A tuple that stays where it was.
LEMMA HomeStays ==
    ASSUME NEW t \in Tuple, HomeInv(t), \A p : At(t, p)' <=> At(t, p),
           history'.written[t] = history.written[t], history'.ended[t] = history.ended[t]
    PROVE  HomeInv(t)'
    <1>1. \A p : p \in Places(t)' <=> p \in Places(t)
        BY PlacesAt
    <1>2. Places(t)' = Places(t)
        BY <1>1
    <1> QED BY <1>2 DEF HomeInv

\* A tuple that is in one place is in no other.
LEMMA OnePlace ==
    ASSUME NEW t \in Tuple, HomeInv(t), NEW a, At(t, a)
    PROVE  /\ \A p : At(t, p) => p = a
           /\ history.written[t] # Unwritten /\ history.ended[t] = 0
    <1>1. a \in Places(t)
        BY PlacesAt
    <1>2. history.written[t] # Unwritten /\ history.ended[t] = 0 /\ \E p \in Places(t) : Places(t) = {p}
        BY <1>1 DEF HomeInv
    <1>3. Places(t) = {a}
        BY <1>1, <1>2
    <1> QED BY <1>2, <1>3, PlacesAt

\* A tuple that goes from one place to another, or is written.
LEMMA HomeMoves ==
    ASSUME NEW t \in Tuple, NEW b, \A p : At(t, p)' <=> p = b,
           history'.written[t] # Unwritten, history'.ended[t] = 0
    PROVE  HomeInv(t)'
    <1>1. \A p : p \in Places(t)' <=> p = b
        BY PlacesAt
    <1>2. Places(t)' = {b}
        BY <1>1
    <1>3. b \in Places(t)'
        BY <1>1
    <1> QED BY <1>2, <1>3 DEF HomeInv

\* A tuple that leaves.
LEMMA HomeEnds ==
    ASSUME NEW t \in Tuple, \A p : ~At(t, p)',
           history'.written[t] # Unwritten, history'.ended[t] = 1
    PROVE  HomeInv(t)'
    <1>1. \A p : p \notin Places(t)'
        BY PlacesAt
    <1>2. Places(t)' = {}
        BY <1>1
    <1> QED BY <1>2 DEF HomeInv

-----------------------------------------------------------------------------
(***************************************************************************)
(* Steps that move no tuple.                                               *)
(***************************************************************************)

SamePlaces ==
    /\ store'.tuples = store.tuples /\ store'.uncommitted = store.uncommitted
    /\ store'.txn_taken = store.txn_taken /\ store'.txn_self_taken = store.txn_self_taken
    /\ history' = history

\* Nothing moves in the store: what is seen there may be seen.
LEMMA StoreStays ==
    ASSUME SpaceType, Lasting, SamePlaces, StoreInv, \A t \in Tuple : lease'[t] = "none" => lease[t] = "none"
    PROVE  StoreInv'
    <1>1. store.tuples \subseteq Tuple /\ store.txn_taken \in Buffers
        BY SMTT(30) DEF SpaceType, Stores
    <1>2. \A x \in Txn : store.txn_taken[x] \subseteq Tuple
        BY <1>1, SMTT(30) DEF Buffers
    <1>3. \A t \in store.tuples : Free(t)'
        BY <1>1, FreeStays DEF StoreInv
    <1>4. \A x \in Txn : \A t \in store.txn_taken[x] : Free(t)'
        BY <1>2, FreeStays DEF StoreInv
    <1> QED BY <1>3, <1>4 DEF StoreInv, SamePlaces

\* A step that moves no tuple keeps what the calls do not disturb.
LEMMA QuietStep ==
    ASSUME SpaceInv, SpaceType', Lasting, SamePlaces, OneWriter', CallsInv',
           \A t \in Tuple : lease'[t] = "none" => lease[t] = "none",
           \A c \in Client : ClientInv(c)' /\ \A t \in Tuple : Holds(c, t)' <=> Holds(c, t),
           \A h \in Handler : HandlerInv(h)' /\ handler'[h].todo = handler[h].todo
    PROVE  SpaceInv'
    <1>1. StoreInv'
        BY StoreStays DEF SpaceInv
    <1>2. ASSUME NEW t \in Tuple
          PROVE  HomeInv(t)'
        <2>1. \A p : At(t, p)' <=> At(t, p)
            BY DEF At, SamePlaces
        <2>2. HomeInv(t)
            BY DEF SpaceInv
        <2> QED BY <2>1, <2>2, HomeStays DEF SamePlaces
    <1>3. Isolation'
        BY DEF SpaceInv, Isolation, SamePlaces
    <1> QED BY <1>1, <1>2, <1>3 DEF SpaceInv

\* One call takes such a step.
LEMMA ClientQuiet ==
    ASSUME SpaceInv, NEW c \in Client, client' \in [Client -> Clients], store' \in Stores,
           SamePlaces, ClientInv(c)', \A d \in Client \ {c} : client'[d] = client[d],
           Writing(c)' => Writing(c) /\ client'[c].tuple = client[c].tuple,
           \A t \in Tuple : Holds(c, t)' <=> Holds(c, t),
           leases' = leases, txns' \in [Txn -> Txns], \A x \in Txn : txns'[x].outcome = txns[x].outcome,
           UNCHANGED <<calls, handler, remover>>
    PROVE  SpaceInv'
    <1>1. SpaceType'
        BY DEF SpaceInv, SpaceType, SamePlaces, leases
    <1>2. Lasting /\ lease' = lease
        BY DEF Lasting, SamePlaces, leases
    <1>3. CallsInv'
        BY DEF SpaceInv, SpaceType, CallsInv
    <1>4. ASSUME NEW d \in Client
          PROVE  ClientInv(d)' /\ (\A t \in Tuple : Holds(d, t)' <=> Holds(d, t))
                 /\ (Writing(d)' => Writing(d) /\ client'[d].tuple = client[d].tuple)
        <2>1. CASE d = c
            BY <2>1
        <2>2. CASE d # c
            <3>1. client'[d] = client[d]
                BY <2>2
            <3>2. ClientInv(d)'
                BY <1>2, <3>1, ClientStays DEF SpaceInv, SamePlaces
            <3> QED BY <3>1, <3>2 DEF Holds, Writing
        <2> QED BY <2>1, <2>2
    <1>5. OneWriter'
        BY <1>4 DEF SpaceInv, OneWriter
    <1>6. \A h \in Handler : HandlerInv(h)' /\ handler'[h].todo = handler[h].todo
        BY <1>2, HandlerStays DEF SpaceInv
    <1> QED BY <1>1, <1>2, <1>3, <1>4, <1>5, <1>6, QuietStep

\* No call, and no participant call, takes a step.
LEMMA OthersQuiet ==
    ASSUME SpaceInv, SpaceType', Lasting, SamePlaces, CallsInv', UNCHANGED <<client, handler>>,
           \A t \in Tuple : lease'[t] = "none" => lease[t] = "none"
    PROVE  SpaceInv'
    <1>1. OneWriter'
        BY DEF SpaceInv, OneWriter, Writing
    <1>2. \A c \in Client : ClientInv(c)' /\ \A t \in Tuple : Holds(c, t)' <=> Holds(c, t)
        BY ClientStays DEF SpaceInv, SamePlaces, Holds
    <1>3. \A h \in Handler : HandlerInv(h)' /\ handler'[h].todo = handler[h].todo
        BY HandlerStays DEF SpaceInv
    <1> QED BY <1>1, <1>2, <1>3, QuietStep

\* A call's record with another step.
LEMMA StepTo ==
    ASSUME NEW k \in Clients, NEW l \in ClientSteps, NEW r, r = [k EXCEPT !.pc = l]
    PROVE  /\ r \in Clients /\ r.pc = l /\ r.method = k.method /\ r.txn = k.txn
           /\ r.tuple = k.tuple /\ r.inbox = k.inbox
    BY SMTT(30) DEF Clients

\* The call goes on at another step ...
LEMMA GotoFacts ==
    ASSUME client \in [Client -> Clients], NEW c \in Client, NEW l \in ClientSteps, Goto(c, l)
    PROVE  /\ client' \in [Client -> Clients] /\ \A d \in Client \ {c} : client'[d] = client[d]
           /\ client'[c].pc = l /\ client'[c].method = client[c].method /\ client'[c].txn = client[c].txn
           /\ client'[c].tuple = client[c].tuple /\ client'[c].inbox = client[c].inbox
    <1> DEFINE r == [client[c] EXCEPT !.pc = l]
    <1>1. client[c] \in Clients /\ r = [client[c] EXCEPT !.pc = l]
        OBVIOUS
    <1>2. client' = [client EXCEPT ![c] = r]
        BY DEF Goto
    <1> HIDE DEF r
    <1>3. /\ r \in Clients /\ r.pc = l /\ r.method = client[c].method /\ r.txn = client[c].txn
          /\ r.tuple = client[c].tuple /\ r.inbox = client[c].inbox
        BY <1>1, StepTo, SMTT(30)
    <1> QED BY <1>2, <1>3

\* ... or returns.
LEMMA IdleFacts ==
    /\ IdleClient \in Clients /\ IdleClient.pc = "idle" /\ IdleClient.txn = NoTxn
    /\ \A n : n \notin 1 .. Len(IdleClient.inbox)
    BY SMTT(30) DEF IdleClient, Clients, ClientSteps, Context

\* A client without a call has nothing.
LEMMA IdleInv ==
    ASSUME NEW c \in Client, client'[c] = IdleClient
    PROVE  ClientInv(c)' /\ ~Writing(c)' /\ \A t \in Tuple : ~Holds(c, t)'
    <1>1. client'[c].pc = "idle" /\ client'[c].txn = NoTxn /\ \A n : n \notin 1 .. Len(client'[c].inbox)
        BY IdleFacts
    <1>2. ~Writing(c)' /\ \A t \in Tuple : ~Holds(c, t)'
        BY <1>1 DEF Writing, Holds
    <1>3. ClientInv(c)'
        BY <1>1, <1>2 DEF ClientInv
    <1> QED BY <1>2, <1>3

\* A call that returns leaves the other clients alone.
LEMMA ReturnFacts ==
    ASSUME client \in [Client -> Clients], NEW c \in Client, Return(c)
    PROVE  /\ client' \in [Client -> Clients] /\ \A d \in Client \ {c} : client'[d] = client[d]
           /\ client'[c] = IdleClient /\ ClientInv(c)' /\ ~Writing(c)' /\ \A t \in Tuple : ~Holds(c, t)'
    <1>1. client' \in [Client -> Clients] /\ client'[c] = IdleClient /\ \A d \in Client \ {c} : client'[d] = client[d]
        BY IdleFacts DEF Return
    <1> QED BY <1>1, IdleInv

\* What may be seen, or is the caller's own, is returned without a leak.
LEMMA ResultClean ==
    ASSUME NEW c \in Client, NEW t \in Tuple, Result(c, t), Free(t) \/ history.written[t] = client[c].txn
    PROVE  history' = history
    BY DEF Result, Free

\* A call returns with no tuple in hand.
LEMMA ReturnQuiet ==
    ASSUME SpaceInv, NEW c \in Client, Return(c), client[c].pc \notin {"unindex", "track", "hold"},
           UNCHANGED <<store, history, handler, remover, calls>>, leases' = leases,
           txns' \in [Txn -> Txns], \A x \in Txn : txns'[x].outcome = txns[x].outcome
    PROVE  SpaceInv'
    <1>1. client \in [Client -> Clients] /\ store' \in Stores /\ SamePlaces
        BY DEF SpaceInv, SpaceType, SamePlaces
    <1>2. \A t \in Tuple : ~Holds(c, t)
        BY DEF Holds
    <1> QED BY <1>1, <1>2, ReturnFacts, ClientQuiet

\* ensure_enlisted: the call keeps what it is about to write.
LEMMA EnlistQuiet ==
    ASSUME SpaceInv, NEW c \in Client, client[c].pc \in {"check", "enlist", "mark"},
           NEW l \in {"enlist", "mark", AfterEnlist(c)}, Goto(c, l),
           UNCHANGED <<store, history, handler, remover, calls>>, leases' = leases,
           txns' \in [Txn -> Txns], \A x \in Txn : txns'[x].outcome = txns[x].outcome
    PROVE  SpaceInv'
    <1>1. client \in [Client -> Clients] /\ store' \in Stores /\ SamePlaces /\ SpaceType /\ ClientInv(c)
        BY DEF SpaceInv, SpaceType, SamePlaces
    <1>2. l \in ClientSteps /\ l \in {"enlist", "mark", "buffer", "own"} /\ (l = "buffer" => client[c].method = "write")
        BY DEF AfterEnlist, ClientSteps
    <1>3. /\ client' \in [Client -> Clients] /\ \A d \in Client \ {c} : client'[d] = client[d]
          /\ client'[c].pc = l /\ client'[c].method = client[c].method /\ client'[c].txn = client[c].txn
          /\ client'[c].tuple = client[c].tuple /\ client'[c].inbox = client[c].inbox
        BY <1>1, <1>2, GotoFacts
    <1>4. Writing(c)' => Writing(c)
        BY <1>2, <1>3 DEF Writing
    <1>5. \A t \in Tuple : ~Holds(c, t) /\ ~Holds(c, t)'
        BY <1>2, <1>3 DEF Holds
    <1>6. Lasting /\ lease' = lease /\ history' = history
        BY DEF Lasting, leases
    <1>7. \A n \in 1 .. Len(client[c].inbox) : client[c].inbox[n] \in Tuple
        BY <1>1, SMTT(30) DEF Clients
    <1>8. \A n \in 1 .. Len(client[c].inbox) : Free(client[c].inbox[n])'
        BY <1>1, <1>3, <1>6, <1>7, FreeStays DEF ClientInv
    <1>9. ClientInv(c)'
        BY <1>1, <1>2, <1>3, <1>4, <1>6, <1>8 DEF ClientInv
    <1> QED BY <1>1, <1>3, <1>4, <1>5, <1>9, ClientQuiet

\* What is in s was in q.
From(s, q) == \A n \in 1 .. Len(s) : \E m \in 1 .. Len(q) : s[n] = q[m]

\* A receiver that has taken a message holds nothing new.
LEMMA FromQueue ==
    ASSUME NEW q \in Seq(Tuple)
    PROVE  From(q, q) /\ (q # <<>> => Tail(q) \in Seq(Tuple) /\ From(Tail(q), q))
    <1>1. From(q, q)
        BY DEF From
    <1>2. ASSUME q # <<>>
          PROVE  Tail(q) \in Seq(Tuple) /\ \A n \in 1 .. Len(Tail(q)) : n + 1 \in 1 .. Len(q) /\ Tail(q)[n] = q[n + 1]
        BY <1>2, SMTT(30)
    <1>3. ASSUME q # <<>>
          PROVE  From(Tail(q), q)
        BY <1>2, <1>3 DEF From
    <1> QED BY <1>1, <1>2, <1>3

\* What a receiver still holds may be seen.
LEMMA InboxStays ==
    ASSUME SpaceType, Lasting, NEW c \in Client, ClientInv(c),
           From(client'[c].inbox, client[c].inbox)
    PROVE  \A n \in 1 .. Len(client'[c].inbox) : Free(client[c].inbox[n])'
    <1>1. client[c] \in Clients
        BY DEF SpaceType
    <1>2. \A m \in 1 .. Len(client[c].inbox) : client[c].inbox[m] \in Tuple /\ Free(client[c].inbox[m])
        BY <1>1, SMTT(30) DEF Clients, ClientInv
    <1>3. SUFFICES ASSUME NEW n \in 1 .. Len(client'[c].inbox) PROVE Free(client[c].inbox[n])'
        OBVIOUS
    <1>4. PICK m \in 1 .. Len(client[c].inbox) : client'[c].inbox[n] = client[c].inbox[m]
        BY <1>3 DEF From
    <1>5. PICK t \in Tuple : t = client[c].inbox[m]
        BY <1>2
    <1>6. Free(t)'
        BY <1>2, <1>5, FreeStays
    <1> QED BY <1>4, <1>5, <1>6

\* A read or take goes on looking.
LEMMA SearchQuiet ==
    ASSUME SpaceInv, NEW c \in Client, client' \in [Client -> Clients],
           \A d \in Client \ {c} : client'[d] = client[d],
           client[c].pc \in {"idle", "own", "scan", "blocked"}, client'[c].pc \in {"check", "own", "scan", "blocked"},
           client'[c].pc \in {"check", "own"} => client'[c].txn # NoTxn,
           client'[c].pc = "check" => client'[c].method # "write",
           From(client'[c].inbox, client[c].inbox),
           UNCHANGED <<store, history, handler, remover, calls, txns>>, leases' = leases
    PROVE  SpaceInv'
    <1>1. store' \in Stores /\ SamePlaces /\ SpaceType /\ ClientInv(c) /\ txns' \in [Txn -> Txns]
        BY DEF SpaceInv, SpaceType, SamePlaces
    <1>2. ~Writing(c)'
        BY DEF Writing
    <1>3. \A t \in Tuple : ~Holds(c, t) /\ ~Holds(c, t)'
        BY DEF Holds
    <1>4. Lasting
        BY DEF Lasting, leases
    <1>5. \A n \in 1 .. Len(client'[c].inbox) : Free(client[c].inbox[n])'
        BY <1>1, <1>4, InboxStays
    <1>6. ClientInv(c)'
        BY <1>2, <1>5 DEF ClientInv
    <1> QED BY <1>1, <1>2, <1>3, <1>6, ClientQuiet

\* Beginning a read or take.
LEMMA SeekStep ==
    ASSUME SpaceInv, NEW c \in Client, NEW m, NEW x \in Context, Seek(c, m, x), UNCHANGED <<handler, remover>>
    PROVE  SpaceInv'
    <1>1. client \in [Client -> Clients] /\ client[c] \in Clients /\ m \in {"read", "take"} /\ client[c].pc = "idle"
        BY DEF SpaceInv, SpaceType, Seek
    <1> DEFINE l == IF m = "take" /\ x # NoTxn THEN "check" ELSE "scan"
               r == [client[c] EXCEPT !.method = m, !.txn = x, !.pc = l]
    <1>2. l \in ClientSteps /\ l \in {"check", "scan"} /\ (l = "check" => x # NoTxn)
        BY DEF ClientSteps
    <1>3. r \in Clients /\ r.pc = l /\ r.method = m /\ r.txn = x /\ r.inbox = client[c].inbox
        BY <1>1, <1>2 DEF Clients, Method
    <1>4. client' = [client EXCEPT ![c] = r]
        BY DEF Seek
    <1> HIDE DEF l, r
    <1>5. client' \in [Client -> Clients] /\ client'[c] = r /\ \A d \in Client \ {c} : client'[d] = client[d]
        BY <1>1, <1>3, <1>4
    <1>6. UNCHANGED <<store, history, calls, txns>> /\ leases' = leases
        BY DEF Seek, coord, leases
    <1>7. From(client'[c].inbox, client[c].inbox)
        <2>1. client[c].inbox \in Seq(Tuple)
            BY <1>1 DEF Clients
        <2> QED BY <1>3, <1>5, <2>1, FromQueue
    <1> QED BY <1>1, <1>2, <1>3, <1>5, <1>6, <1>7, SearchQuiet

\* The step of a read or take that goes on at l, with q left in its receiver.
LEMMA LookStep ==
    ASSUME SpaceInv, NEW c \in Client, UNCHANGED <<handler, remover, store, history, calls, txns>>, leases' = leases,
           NEW l \in {"own", "scan", "blocked"}, l = "own" => client[c].txn # NoTxn,
           NEW r \in Clients, client' = [client EXCEPT ![c] = r], r.pc = l, r.txn = client[c].txn,
           \/ r.inbox = client[c].inbox
           \/ client[c].inbox # <<>> /\ r.inbox = Tail(client[c].inbox),
           client[c].pc \in {"own", "scan", "blocked"}
    PROVE  SpaceInv'
    <1>1. client \in [Client -> Clients] /\ client[c] \in Clients
        BY DEF SpaceInv, SpaceType
    <1>2. client[c].inbox \in Seq(Tuple)
        BY <1>1 DEF Clients
    <1>3. client' \in [Client -> Clients] /\ client'[c] = r /\ \A d \in Client \ {c} : client'[d] = client[d]
        BY <1>1
    <1>4. From(client'[c].inbox, client[c].inbox)
        BY <1>2, <1>3, FromQueue
    <1>5. /\ client'[c].pc \in {"own", "scan", "blocked"} /\ client'[c].pc # "check"
          /\ client'[c].pc = "own" => client'[c].txn # NoTxn
        BY <1>3
    <1> QED BY <1>3, <1>4, <1>5, SearchQuiet

\* Looking in the other place, waiting, and looking again after a lag.
LEMMA SearchSteps ==
    ASSUME SpaceInv, NEW c \in Client, UNCHANGED <<handler, remover>>,
           LookFurther(c) \/ WakeLagged(c) \/ (NoMatch(c) /\ Goto(c, "blocked"))
    PROVE  SpaceInv'
    <1>1. client \in [Client -> Clients] /\ client[c] \in Clients
        BY DEF SpaceInv, SpaceType
    <1>2. FirstPlace(c) \in {"own", "scan"} /\ (FirstPlace(c) = "own" => client[c].txn # NoTxn)
        BY DEF FirstPlace
    <1>3. UNCHANGED <<store, history, calls, txns>> /\ leases' = leases /\ client[c].pc \in {"own", "scan", "blocked"}
        BY <1>2 DEF LookFurther, WakeLagged, NoMatch, coord, leases
    <1>4. ASSUME NEW l \in {"own", "scan", "blocked"}, l = "own" => client[c].txn # NoTxn, Goto(c, l)
          PROVE  SpaceInv'
        <2> DEFINE r == [client[c] EXCEPT !.pc = l]
        <2>1. r \in Clients /\ r.pc = l /\ r.txn = client[c].txn /\ r.inbox = client[c].inbox
            BY <1>1, <1>4 DEF Clients, ClientSteps
        <2>2. client' = [client EXCEPT ![c] = r]
            BY <1>4 DEF Goto
        <2> HIDE DEF r
        <2> QED BY <1>3, <1>4, <2>1, <2>2, LookStep
    <1>5. CASE LookFurther(c)
        BY <1>2, <1>4, <1>5 DEF LookFurther
    <1>6. CASE NoMatch(c) /\ Goto(c, "blocked")
        BY <1>4, <1>6
    <1>7. CASE WakeLagged(c)
        <2> DEFINE r == [client[c] EXCEPT !.lagged = FALSE, !.pc = FirstPlace(c)]
        <2>1. client' = [client EXCEPT ![c] = r]
            BY <1>1, <1>7 DEF WakeLagged
        <2>2. r \in Clients /\ r.pc = FirstPlace(c) /\ r.txn = client[c].txn /\ r.inbox = client[c].inbox
            BY <1>1, <1>2 DEF Clients, ClientSteps
        <2> HIDE DEF r
        <2> QED BY <1>2, <1>3, <2>1, <2>2, LookStep
    <1> QED BY <1>5, <1>6, <1>7

\* A broadcast wakes a call.
LEMMA WakeStep ==
    ASSUME SpaceInv, NEW c \in Client, UNCHANGED <<handler, remover>>, Wake(c)
    PROVE  SpaceInv'
    <1>1. client \in [Client -> Clients] /\ client[c] \in Clients /\ ClientInv(c)
        BY DEF SpaceInv, SpaceType
    <1>2. FirstPlace(c) \in {"own", "scan"} /\ (FirstPlace(c) = "own" => client[c].txn # NoTxn)
        BY DEF FirstPlace
    <1>3. UNCHANGED <<store, calls, txns>> /\ leases' = leases /\ client[c].pc = "blocked" /\ client[c].inbox # <<>>
        BY DEF Wake, coord, leases
    <1>4. client[c].inbox \in Seq(Tuple)
        BY <1>1 DEF Clients
    <1>5. Tail(client[c].inbox) \in Seq(Tuple)
        BY <1>3, <1>4, FromQueue
    <1>6. Head(client[c].inbox) \in Tuple /\ Head(client[c].inbox) = client[c].inbox[1] /\ 1 \in 1 .. Len(client[c].inbox)
        BY <1>3, <1>4, SMTT(30)
    <1>7. Free(Head(client[c].inbox))
        BY <1>1, <1>6 DEF ClientInv
    <1>8. ASSUME NEW l \in {FirstPlace(c), "blocked"}, history' = history,
                 client' = [client EXCEPT ![c] = [client[c] EXCEPT !.inbox = Tail(client[c].inbox), !.pc = l]]
          PROVE  SpaceInv'
        <2> DEFINE r == [client[c] EXCEPT !.inbox = Tail(client[c].inbox), !.pc = l]
        <2>1. r \in Clients /\ r.pc = l /\ r.txn = client[c].txn /\ r.inbox = Tail(client[c].inbox)
            BY <1>1, <1>2, <1>5, <1>8 DEF Clients, ClientSteps
        <2>2. client' = [client EXCEPT ![c] = r]
            BY <1>8
        <2> HIDE DEF r
        <2>3. l \in {"own", "scan", "blocked"} /\ (l = "own" => client[c].txn # NoTxn)
            BY <1>2, <1>8
        <2> QED BY <1>3, <1>8, <2>1, <2>2, <2>3, LookStep
    <1>9. CASE Result(c, Head(client[c].inbox)) /\ Return(c)
        <2>1. history' = history
            BY <1>6, <1>7, <1>9, ResultClean
        <2>2. txns' \in [Txn -> Txns]
            BY <1>3 DEF SpaceInv, SpaceType
        <2> QED BY <1>3, <1>9, <2>1, <2>2, ReturnQuiet
    <1>10. CASE client' = [client EXCEPT ![c].inbox = Tail(@), ![c].pc = FirstPlace(c)] /\ UNCHANGED history
        BY <1>1, <1>8, <1>10
    <1>11. CASE client' = [client EXCEPT ![c].inbox = Tail(@)] /\ UNCHANGED history
        <2> DEFINE r == [client[c] EXCEPT !.inbox = Tail(client[c].inbox)]
        <2>1. r \in Clients /\ r.pc = "blocked" /\ r.txn = client[c].txn /\ r.inbox = Tail(client[c].inbox)
            BY <1>1, <1>3, <1>5 DEF Clients
        <2>2. client' = [client EXCEPT ![c] = r]
            BY <1>11
        <2> HIDE DEF r
        <2> QED BY <1>3, <1>11, <2>1, <2>2, LookStep
    <1> QED BY <1>9, <1>10, <1>11 DEF Wake

\* The steps of ensure_enlisted.
LEMMA EnlistSteps ==
    ASSUME SpaceInv, NEW c \in Client, UNCHANGED <<handler, remover>>,
           CheckEnlisted(c) \/ Enlist(c) \/ MarkEnlisted(c) \/ EnlistUnanswered(c)
    PROVE  SpaceInv'
    <1>1. SpaceType /\ ClientInv(c) /\ client[c] \in Clients
        BY DEF SpaceInv, SpaceType
    <1>2. UNCHANGED <<store, history, calls>> /\ leases' = leases /\ client[c].pc \in {"check", "enlist", "mark"}
        BY DEF CheckEnlisted, Enlist, MarkEnlisted, EnlistUnanswered, coord, leases
    <1>3. client[c].txn \in Txn
        BY <1>1, <1>2 DEF ClientInv, Clients, Context
    <1>4. txns' \in [Txn -> Txns] /\ \A x \in Txn : txns'[x].outcome = txns[x].outcome
        <2>1. CASE txns' = txns
            BY <1>1, <2>1 DEF SpaceType
        <2>2. CASE txns' = [txns EXCEPT ![client[c].txn].entries = @ + 1]
            <3> DEFINE e == [txns[client[c].txn] EXCEPT !.entries = @ + 1]
            <3>1. txns \in [Txn -> Txns] /\ txns[client[c].txn] \in Txns
                BY <1>1, <1>3 DEF SpaceType
            <3>2. txns[client[c].txn].entries + 1 \in Nat
                BY <3>1, SMTT(30) DEF Txns
            <3>3. e \in Txns /\ e.outcome = txns[client[c].txn].outcome
                BY <3>1, <3>2 DEF Txns
            <3>4. txns' = [txns EXCEPT ![client[c].txn] = e]
                BY <2>2
            <3> HIDE DEF e
            <3> QED BY <1>3, <3>1, <3>3, <3>4
        <2> QED BY <2>1, <2>2 DEF CheckEnlisted, Enlist, MarkEnlisted, EnlistUnanswered, coord
    <1>5. ASSUME NEW l \in {"enlist", "mark", AfterEnlist(c)}, Goto(c, l)
          PROVE  SpaceInv'
        BY <1>2, <1>4, <1>5, EnlistQuiet
    <1>6. CASE Return(c)
        BY <1>2, <1>4, <1>6, ReturnQuiet
    <1> QED BY <1>5, <1>6 DEF CheckEnlisted, Enlist, MarkEnlisted, EnlistUnanswered

\* A call that ends without a tuple, or with one it only read.
LEMMA EndSteps ==
    ASSUME SpaceInv, NEW c \in Client, UNCHANGED <<handler, remover>>,
           GiveUp(c) \/ (NoMatch(c) /\ Return(c)) \/ \E t \in Tuple : ReadMatch(c, t)
    PROVE  SpaceInv'
    <1>1. /\ UNCHANGED <<store, calls, txns>> /\ leases' = leases /\ Return(c)
          /\ client[c].pc \in {"own", "scan", "blocked"}
        BY DEF GiveUp, NoMatch, ReadMatch, coord, leases
    <1>2. history' = history
        <2>1. CASE GiveUp(c) \/ NoMatch(c)
            BY <2>1 DEF GiveUp, NoMatch
        <2>2. ASSUME NEW t \in Tuple, ReadMatch(c, t)
              PROVE  history' = history
            <3>1. client[c] \in Clients /\ ClientInv(c) /\ StoreInv
                BY DEF SpaceInv, SpaceType
            <3>2. client[c].pc = "own" => client[c].txn \in Txn
                BY <3>1 DEF ClientInv, Clients, Context
            <3>3. Free(t) \/ history.written[t] = client[c].txn
                BY <2>2, <3>1, <3>2 DEF ReadMatch, Found, StoreInv
            <3> QED BY <2>2, <3>3, ResultClean DEF ReadMatch
        <2> QED BY <2>1, <2>2
    <1>3. txns' \in [Txn -> Txns]
        BY <1>1 DEF SpaceInv, SpaceType
    <1> QED BY <1>1, <1>2, <1>3, ReturnQuiet

\* Between its operations on the store a call updates an index.
LEMMA IndexSteps ==
    ASSUME SpaceInv, NEW c \in Client, UNCHANGED <<handler, remover>>,
           IndexInTxn(c) \/ InsertIndex(c) \/ Unindex(c)
    PROVE  SpaceInv'
    <1>1. SpaceType /\ ClientInv(c) /\ client \in [Client -> Clients] /\ client[c] \in Clients /\ store \in Stores
        BY DEF SpaceInv, SpaceType
    <1>2. client[c].tuple \in Tuple
        BY <1>1 DEF IndexInTxn, InsertIndex, Unindex, ClientInv, Writing
    <1>3. /\ UNCHANGED <<history, calls, txns>> /\ leases' = leases /\ lease' = lease
          /\ client[c].pc \in {"buffer", "track", "index", "unindex"}
        BY DEF IndexInTxn, InsertIndex, Unindex, coord, leases
    <1>4. store' \in Stores /\ SamePlaces
        <2>1. CASE IndexInTxn(c)
            <3>1. client[c].txn \in Context /\ store.txn_lease_index \in [Tuple -> Context]
                BY <1>1 DEF Clients, Stores
            <3>2. [store.txn_lease_index EXCEPT ![client[c].tuple] = client[c].txn] \in [Tuple -> Context]
                BY <3>1
            <3>3. store' = [store EXCEPT !.txn_lease_index = [store.txn_lease_index EXCEPT ![client[c].tuple] = client[c].txn]]
                BY <2>1 DEF IndexInTxn
            <3> QED BY <1>1, <1>3, <3>2, <3>3 DEF Stores, SamePlaces
        <2>2. CASE InsertIndex(c)
            <3>1. store.lease_index \cup {client[c].tuple} \in SUBSET Tuple
                BY <1>1, <1>2 DEF Stores
            <3> QED BY <1>1, <1>3, <2>2, <3>1 DEF Stores, SamePlaces, InsertIndex
        <2>3. CASE Unindex(c)
            <3>1. store.lease_index \ {client[c].tuple} \in SUBSET Tuple
                BY <1>1 DEF Stores
            <3> QED BY <1>1, <1>3, <2>3, <3>1 DEF Stores, SamePlaces, Unindex
        <2> QED BY <2>1, <2>2, <2>3
    <1>5. PICK l \in {"push", "hold", "send", "release", "track"} :
              /\ Goto(c, l)
              /\ l = "push" <=> client[c].pc = "buffer"
              /\ l = "hold" <=> client[c].pc = "track"
              /\ l = "send" <=> client[c].pc = "index"
              /\ l = "track" <=> client[c].pc = "unindex" /\ client[c].txn # NoTxn
        BY DEF IndexInTxn, InsertIndex, Unindex
    <1>6. /\ client' \in [Client -> Clients] /\ \A d \in Client \ {c} : client'[d] = client[d]
          /\ client'[c].pc = l /\ client'[c].method = client[c].method /\ client'[c].txn = client[c].txn
          /\ client'[c].tuple = client[c].tuple /\ client'[c].inbox = client[c].inbox
        <2>1. l \in ClientSteps
            BY DEF ClientSteps
        <2> QED BY <1>1, <1>5, <2>1, GotoFacts
    <1>7. Writing(c)' <=> Writing(c)
        BY <1>1, <1>3, <1>5, <1>6 DEF Writing, ClientInv
    <1>8. \A t \in Tuple : Holds(c, t)' <=> Holds(c, t)
        BY <1>3, <1>5, <1>6 DEF Holds
    <1>9. Lasting
        BY <1>3 DEF Lasting
    <1>10. \A n \in 1 .. Len(client'[c].inbox) : Free(client[c].inbox[n])'
        <2>1. client[c].inbox \in Seq(Tuple)
            BY <1>1 DEF Clients
        <2> QED BY <1>1, <1>6, <1>9, <2>1, FromQueue, InboxStays
    <1>11. Free(client[c].tuple) => Free(client[c].tuple)'
        BY <1>1, <1>2, <1>6, <1>9, FreeStays
    <1>12. ClientInv(c)'
        BY <1>1, <1>3, <1>5, <1>6, <1>7, <1>10, <1>11 DEF ClientInv
    <1> QED BY <1>1, <1>3, <1>4, <1>6, <1>7, <1>8, <1>12, ClientQuiet DEF SpaceType

-----------------------------------------------------------------------------
(***************************************************************************)
(* Steps of a call that store, take or give back a tuple or its lease.     *)
(***************************************************************************)

\* One call takes a step: what is left to show is about that call, the
\* store, and where the tuples are.
LEMMA ClientMove ==
    ASSUME SpaceInv, NEW c \in Client, client' \in [Client -> Clients], \A d \in Client \ {c} : client'[d] = client[d],
           store' \in Stores, history' \in Histories, lease' \in [Tuple -> {"none", "standing", "gone"}],
           reclaims' \subseteq Tuple, UNCHANGED <<txns, calls, handler, remover>>,
           Lasting, ClientInv(c)', StoreInv', history'.leaked = history.leaked, \A t \in Tuple : HomeInv(t)',
           \A d \in Client \ {c} : Writing(d) => history'.written[client[d].tuple] = history.written[client[d].tuple],
           Writing(c)' => \A d \in Client \ {c} : Writing(d) => client[d].tuple # client'[c].tuple
    PROVE  SpaceInv'
    <1>1. SpaceType' /\ CallsInv' /\ Isolation'
        BY DEF SpaceInv, SpaceType, CallsInv, Isolation
    <1>2. \A h \in Handler : HandlerInv(h)'
        BY HandlerStays DEF SpaceInv
    <1>3. \A d \in Client : ClientInv(d)'
        BY ClientStays DEF SpaceInv
    <1>4. OneWriter'
        <2>1. \A d \in Client \ {c} : (Writing(d)' <=> Writing(d)) /\ client'[d].tuple = client[d].tuple
            BY DEF Writing
        <2> QED BY <2>1 DEF SpaceInv, OneWriter
    <1> QED BY <1>1, <1>2, <1>3, <1>4 DEF SpaceInv

\* The others keep what they have in hand, so t stays where it was when the
\* call does, and the store.
LEMMA StaysAt ==
    ASSUME NEW c \in Client, \A d \in Client \ {c} : client'[d] = client[d], handler' = handler,
           NEW t \in Tuple, Holds(c, t)' <=> Holds(c, t), t \in store'.tuples <=> t \in store.tuples,
           \A x \in Txn : /\ t \in store'.uncommitted[x] <=> t \in store.uncommitted[x]
                          /\ t \in store'.txn_taken[x] <=> t \in store.txn_taken[x]
                          /\ t \in store'.txn_self_taken[x] <=> t \in store.txn_self_taken[x]
    PROVE  \A p : At(t, p)' <=> At(t, p)
    <1>1. \A d \in Client : Holds(d, t)' <=> Holds(d, t)
        BY DEF Holds
    <1> QED BY <1>1 DEF At

\* A lease that is cancelled.
LEMMA CancelFacts ==
    ASSUME SpaceType, NEW t \in Tuple, CancelLease(t)
    PROVE  /\ lease' \in [Tuple -> {"none", "standing", "gone"}] /\ reclaims' \subseteq Tuple
           /\ \A u \in Tuple : lease'[u] = "none" <=> lease[u] = "none"
    <1>1. lease \in [Tuple -> {"none", "standing", "gone"}] /\ reclaims \subseteq Tuple
        BY DEF SpaceType
    <1>2. CASE lease[t] = "standing" /\ lease' = [lease EXCEPT ![t] = "gone"] /\ reclaims' = reclaims \cup {t}
        BY <1>1, <1>2
    <1>3. CASE UNCHANGED leases
        BY <1>1, <1>3 DEF leases
    <1> QED BY <1>2, <1>3 DEF CancelLease

\* A tuple that was taken or cancelled outside a transaction is let go.
LEMMA ReleaseStep ==
    ASSUME SpaceInv, NEW c \in Client, UNCHANGED <<handler, remover>>, Release(c)
    PROVE  SpaceInv'
    <1>1. SpaceType /\ ClientInv(c) /\ client \in [Client -> Clients]
        BY DEF SpaceInv, SpaceType
    <1>2. client[c].tuple \in Tuple /\ Free(client[c].tuple)
        BY <1>1 DEF Release, ClientInv
    <1>3. history' = history
        BY <1>2, ResultClean DEF Release
    <1>4. UNCHANGED <<store, txns, calls>> /\ Return(c) /\ client[c].pc = "release"
        BY DEF Release, coord
    <1>5. /\ lease' \in [Tuple -> {"none", "standing", "gone"}] /\ reclaims' \subseteq Tuple
          /\ \A u \in Tuple : lease'[u] = "none" <=> lease[u] = "none"
        BY <1>1, <1>2, CancelFacts DEF Release
    <1>6. SamePlaces /\ Lasting
        BY <1>3, <1>4, <1>5 DEF SamePlaces, Lasting
    <1>7. StoreInv'
        BY <1>5, <1>6, StoreStays DEF SpaceInv
    <1>8. /\ client' \in [Client -> Clients] /\ \A d \in Client \ {c} : client'[d] = client[d]
          /\ ClientInv(c)' /\ ~Writing(c)' /\ \A t \in Tuple : ~Holds(c, t)'
        BY <1>1, <1>4, ReturnFacts
    <1>9. ASSUME NEW t \in Tuple
          PROVE  HomeInv(t)'
        <2>1. ~Holds(c, t) /\ ~Holds(c, t)'
            BY <1>4, <1>8 DEF Holds
        <2>2. \A p : At(t, p)' <=> At(t, p)
            BY <1>4, <1>8, <2>1, StaysAt
        <2> QED BY <1>3, <2>2, HomeStays DEF SpaceInv
    <1>10. store' \in Stores /\ history' \in Histories
        BY <1>1, <1>3, <1>4 DEF SpaceType
    <1> QED BY <1>3, <1>4, <1>5, <1>6, <1>7, <1>8, <1>9, <1>10, ClientMove

\* A write begins with the lease of its tuple.
LEMMA WriteStep ==
    ASSUME SpaceInv, NEW c \in Client, NEW t \in Tuple, NEW x \in Context,
           UNCHANGED <<handler, remover>>, Write(c, t, x)
    PROVE  SpaceInv'
    <1>1. SpaceType /\ ClientInv(c) /\ StoreInv /\ client \in [Client -> Clients] /\ client[c] \in Clients
        BY DEF SpaceInv, SpaceType
    <1>2. /\ UNCHANGED <<store, reclaims, txns, calls, history>> /\ client[c].pc = "idle" /\ lease[t] = "none"
          /\ lease' = [lease EXCEPT ![t] = "standing"]
        BY DEF Write, coord
    <1>3. /\ lease' \in [Tuple -> {"none", "standing", "gone"}] /\ lease'[t] = "standing"
          /\ \A u \in Tuple \ {t} : lease'[u] = lease[u]
        BY <1>1, <1>2 DEF SpaceType
    <1> DEFINE l == IF x = NoTxn THEN "insert" ELSE "check"
               r == [client[c] EXCEPT !.method = "write", !.txn = x, !.tuple = t, !.pc = l]
    <1>4. l \in ClientSteps /\ l \in {"insert", "check"} /\ (l = "check" => x # NoTxn)
        BY DEF ClientSteps
    <1>5. r \in Clients /\ r.pc = l /\ r.method = "write" /\ r.txn = x /\ r.tuple = t /\ r.inbox = client[c].inbox
        BY <1>1, <1>4 DEF Clients, Method
    <1>6. client' = [client EXCEPT ![c] = r]
        BY DEF Write
    <1> HIDE DEF l, r
    <1>7. client' \in [Client -> Clients] /\ client'[c] = r /\ \A d \in Client \ {c} : client'[d] = client[d]
        BY <1>1, <1>5, <1>6
    <1>8. SamePlaces /\ Lasting /\ \A u \in Tuple : lease'[u] = "none" => lease[u] = "none"
        BY <1>2, <1>3 DEF SamePlaces, Lasting
    <1>9. StoreInv' /\ history.written[t] = Unwritten
        BY <1>1, <1>2, <1>8, StoreStays DEF StoreInv
    <1>10. \A n \in 1 .. Len(client'[c].inbox) : Free(client[c].inbox[n])'
        <2>1. client[c].inbox \in Seq(Tuple)
            BY <1>1 DEF Clients
        <2>2. From(client'[c].inbox, client[c].inbox)
            BY <1>5, <1>7, <2>1, FromQueue
        <2> QED BY <1>1, <1>8, <2>2, InboxStays
    <1>11. ClientInv(c)'
        BY <1>2, <1>3, <1>4, <1>5, <1>7, <1>9, <1>10 DEF ClientInv
    <1>12. ASSUME NEW u \in Tuple
           PROVE  HomeInv(u)'
        <2>1. ~Holds(c, u) /\ ~Holds(c, u)'
            BY <1>2, <1>4, <1>5, <1>7 DEF Holds
        <2>2. \A p : At(u, p)' <=> At(u, p)
            BY <1>2, <1>7, <2>1, StaysAt
        <2> QED BY <1>2, <2>2, HomeStays DEF SpaceInv
    <1>13. \A d \in Client \ {c} : Writing(d) => client[d].tuple # client'[c].tuple
        BY <1>2, <1>5, <1>7 DEF SpaceInv, ClientInv
    <1>14. store' \in Stores /\ history' \in Histories /\ reclaims' \subseteq Tuple
        BY <1>1, <1>2 DEF SpaceType
    <1> QED BY <1>2, <1>3, <1>7, <1>8, <1>9, <1>11, <1>12, <1>13, <1>14, ClientMove

\* A tuple that is not written is nowhere.
LEMMA Nowhere ==
    ASSUME NEW t \in Tuple, HomeInv(t), history.written[t] = Unwritten
    PROVE  history.ended[t] = 0 /\ \A p : ~At(t, p)
    <1>1. history.ended[t] = 0 /\ Places(t) = {}
        BY DEF HomeInv
    <1> QED BY <1>1, PlacesAt

\* What is found in the store is a tuple, and its owner a transaction.
LEMMA StoreParts ==
    ASSUME SpaceType
    PROVE  /\ store \in Stores /\ history \in Histories
           /\ store.tuples \subseteq Tuple /\ store.uncommitted \in Buffers /\ store.txn_taken \in Buffers
           /\ store.txn_self_taken \in Buffers /\ store.txn_lease_index \in [Tuple -> Context]
           /\ history.written \in [Tuple -> Context \cup {Unwritten}] /\ history.ended \in [Tuple -> Nat]
           /\ history.leaked \subseteq Tuple
    <1>1. store \in Stores /\ history \in Histories
        BY DEF SpaceType
    <1> QED BY <1>1 DEF Stores, Histories

\* A tuple's first entry in the history.
LEMMA WrittenOnce ==
    ASSUME SpaceType, NEW t \in Tuple, NEW x \in Context, history.written[t] = Unwritten, UNCHANGED <<txns, lease>>,
           history' = [history EXCEPT !.written[t] = x]
    PROVE  /\ history' \in Histories /\ Lasting
           /\ history'.written[t] = x /\ \A u \in Tuple \ {t} : history'.written[u] = history.written[u]
           /\ history'.ended = history.ended /\ history'.leaked = history.leaked
    <1> DEFINE w == [history.written EXCEPT ![t] = x]
    <1>1. history \in Histories /\ history.written \in [Tuple -> Context \cup {Unwritten}]
        BY StoreParts
    <1>2. w \in [Tuple -> Context \cup {Unwritten}] /\ w[t] = x /\ \A u \in Tuple \ {t} : w[u] = history.written[u]
        BY <1>1
    <1>3. history' = [history EXCEPT !.written = w]
        OBVIOUS
    <1> HIDE DEF w
    <1>4. history' \in Histories /\ history'.written = w /\ history'.ended = history.ended /\ history'.leaked = history.leaked
        BY <1>1, <1>2, <1>3 DEF Histories
    <1>5. Lasting
        BY <1>2, <1>4 DEF Lasting
    <1> QED BY <1>2, <1>4, <1>5

\* A write in a transaction goes into its buffer.
LEMMA BufferPushStep ==
    ASSUME SpaceInv, NEW c \in Client, UNCHANGED <<handler, remover>>, BufferPush(c)
    PROVE  SpaceInv'
    <1>1. SpaceType /\ ClientInv(c) /\ StoreInv /\ OneWriter /\ client \in [Client -> Clients] /\ client[c] \in Clients
        BY DEF SpaceInv, SpaceType
    <1>2. Writing(c) /\ client[c].txn # NoTxn
        BY <1>1 DEF BufferPush, ClientInv, Writing
    <1>3. PICK t \in Tuple, x \in Txn : /\ t = client[c].tuple /\ x = client[c].txn
                                        /\ history.written[t] = Unwritten /\ lease[t] # "none"
        BY <1>1, <1>2 DEF ClientInv, Clients, Context
    <1>4. UNCHANGED <<lease, reclaims, txns, calls>> /\ Return(c) /\ client[c].pc = "push"
        BY DEF BufferPush, leases, coord
    <1>5. /\ history' \in Histories /\ Lasting
          /\ history'.written[t] = x /\ \A u \in Tuple \ {t} : history'.written[u] = history.written[u]
          /\ history'.ended = history.ended /\ history'.leaked = history.leaked
        BY <1>1, <1>3, <1>4, WrittenOnce DEF BufferPush, Context
    <1> DEFINE b == [store.uncommitted EXCEPT ![x] = store.uncommitted[x] \cup {t}]
    <1>6. b \in Buffers /\ b[x] = store.uncommitted[x] \cup {t} /\ \A y \in Txn \ {x} : b[y] = store.uncommitted[y]
        BY <1>1, StoreParts DEF Buffers
    <1>7. store' = [store EXCEPT !.uncommitted = b]
        BY <1>3 DEF BufferPush
    <1> HIDE DEF b
    <1>8. /\ store' \in Stores /\ store'.tuples = store.tuples /\ store'.uncommitted = b
          /\ store'.txn_taken = store.txn_taken /\ store'.txn_self_taken = store.txn_self_taken
        BY <1>1, <1>6, <1>7, StoreParts DEF Stores
    <1>9. /\ client' \in [Client -> Clients] /\ \A d \in Client \ {c} : client'[d] = client[d]
          /\ ClientInv(c)' /\ ~Writing(c)' /\ \A u \in Tuple : ~Holds(c, u)'
        BY <1>1, <1>4, ReturnFacts
    <1>10. \A u \in Tuple : ~Holds(c, u)
        BY <1>4 DEF Holds
    <1>11. StoreInv'
        <2>1. \A u \in store'.tuples : Free(u)'
            BY <1>1, <1>5, <1>8, FreeStays, StoreParts DEF StoreInv
        <2>2. \A y \in Txn : \A u \in store'.txn_taken[y] : Free(u)'
            BY <1>1, <1>5, <1>8, FreeStays, StoreParts DEF StoreInv, Buffers
        <2>3. \A y \in Txn : \A u \in store'.uncommitted[y] : history'.written[u] = y
            <3>1. \A y \in Txn : y # Unwritten
                BY SpaceAssumption DEF Context
            <3>2. \A y \in Txn : t \notin store.uncommitted[y]
                BY <1>1, <1>3, <3>1 DEF StoreInv
            <3>3. \A y \in Txn : store.uncommitted[y] \subseteq Tuple
                BY <1>1, StoreParts DEF Buffers
            <3>4. ASSUME NEW y \in Txn, NEW u \in store'.uncommitted[y]
                  PROVE  history'.written[u] = y
                <4>1. CASE u = t
                    BY <1>5, <1>6, <1>8, <3>2, <3>4, <4>1
                <4>2. CASE u # t
                    <5>1. u \in store.uncommitted[y] /\ u \in Tuple
                        BY <1>6, <1>8, <3>3, <3>4, <4>2
                    <5> QED BY <1>1, <1>5, <4>2, <5>1 DEF StoreInv
                <4> QED BY <4>1, <4>2
            <3> QED BY <3>4
        <2>4. \A u \in Tuple : lease'[u] = "none" => history'.written[u] = Unwritten
            BY <1>1, <1>3, <1>4, <1>5 DEF StoreInv
        <2> QED BY <2>1, <2>2, <2>3, <2>4 DEF StoreInv
    <1>12. ASSUME NEW u \in Tuple
           PROVE  HomeInv(u)'
        <2>0. HomeInv(u)
            BY DEF SpaceInv
        <2>1. CASE u = t
            <3>1. history.ended[t] = 0 /\ \A p : ~At(t, p)
                BY <1>3, <2>0, <2>1, Nowhere
            <3>2. /\ t \notin store.tuples /\ \A h \in Handler : t \notin handler[h].todo
                  /\ \A y \in Txn : t \notin store.uncommitted[y] /\ t \notin store.txn_taken[y] /\ t \notin store.txn_self_taken[y]
                  /\ \A d \in Client : ~Holds(d, t)
                BY <3>1 DEF At
            <3>3. \A d \in Client : ~Holds(d, t)'
                BY <1>9, <3>2 DEF Holds
            <3>4. \A y \in Txn : t \in store'.uncommitted[y] <=> y = x
                BY <1>6, <1>8, <3>2
            <3>5. \A p : At(t, p)' <=> p = <<"uncommitted", x>>
                BY <1>8, <3>2, <3>3, <3>4 DEF At
            <3>6. history'.written[t] # Unwritten /\ history'.ended[t] = 0
                BY <1>5, <3>1, SpaceAssumption DEF Context
            <3> QED BY <2>1, <3>5, <3>6, HomeMoves
        <2>2. CASE u # t
            <3>1. \A y \in Txn : u \in store'.uncommitted[y] <=> u \in store.uncommitted[y]
                BY <1>6, <1>8, <2>2
            <3>2. \A p : At(u, p)' <=> At(u, p)
                BY <1>8, <1>9, <1>10, <3>1, StaysAt
            <3> QED BY <1>5, <2>0, <2>2, <3>2, HomeStays
        <2> QED BY <2>1, <2>2
    <1>13. \A d \in Client \ {c} : Writing(d) => history'.written[client[d].tuple] = history.written[client[d].tuple]
        BY <1>1, <1>2, <1>3, <1>5 DEF SpaceInv, OneWriter, ClientInv
    <1> QED BY <1>1, <1>4, <1>5, <1>8, <1>9, <1>11, <1>12, <1>13, ClientMove DEF SpaceType

\* What comes into sight may be seen, and nothing else is buffered.
LEMMA StoreMoves ==
    ASSUME SpaceType, Lasting, StoreInv,
           \A u \in Tuple : lease'[u] = "none" => history'.written[u] = Unwritten,
           \A u \in store'.tuples : u \in store.tuples \/ Free(u)',
           \A y \in Txn : \A u \in store'.txn_taken[y] : u \in store.txn_taken[y] \/ Free(u)',
           \A y \in Txn : store'.uncommitted[y] \subseteq store.uncommitted[y]
    PROVE  StoreInv'
    <1>1. \A u \in store'.tuples : Free(u)'
        BY FreeStays, StoreParts DEF StoreInv
    <1>2. ASSUME NEW y \in Txn, NEW u \in store'.txn_taken[y]
          PROVE  Free(u)'
        <2>1. store.txn_taken[y] \subseteq Tuple
            BY StoreParts DEF Buffers
        <2> QED BY <1>2, <2>1, FreeStays DEF StoreInv
    <1>3. ASSUME NEW y \in Txn, NEW u \in store'.uncommitted[y]
          PROVE  history'.written[u] = y
        <2>1. u \in store.uncommitted[y] /\ store.uncommitted[y] \subseteq Tuple
            BY <1>3, StoreParts DEF Buffers
        <2>2. y # Unwritten
            BY SpaceAssumption DEF Context
        <2> QED BY <2>1, <2>2 DEF StoreInv, Lasting
    <1> QED BY <1>1, <1>2, <1>3 DEF StoreInv

\* A write outside a transaction makes its tuple visible.
LEMMA InsertStep ==
    ASSUME SpaceInv, NEW c \in Client, UNCHANGED <<handler, remover>>, Insert(c)
    PROVE  SpaceInv'
    <1>1. SpaceType /\ ClientInv(c) /\ StoreInv /\ OneWriter /\ client \in [Client -> Clients] /\ client[c] \in Clients
        BY DEF SpaceInv, SpaceType
    <1>2. Writing(c)
        BY <1>1 DEF Insert, ClientInv, Writing
    <1>3. PICK t \in Tuple : t = client[c].tuple /\ history.written[t] = Unwritten /\ lease[t] # "none"
        BY <1>1, <1>2 DEF ClientInv
    <1>4. UNCHANGED <<lease, reclaims, txns, calls>> /\ Goto(c, "index") /\ client[c].pc = "insert"
        BY DEF Insert, leases, coord
    <1>5. /\ history' \in Histories /\ Lasting
          /\ history'.written[t] = NoTxn /\ \A u \in Tuple \ {t} : history'.written[u] = history.written[u]
          /\ history'.ended = history.ended /\ history'.leaked = history.leaked
        BY <1>1, <1>3, <1>4, WrittenOnce DEF Insert, Context
    <1>6. /\ store' \in Stores /\ store'.tuples = store.tuples \cup {t} /\ store'.uncommitted = store.uncommitted
          /\ store'.txn_taken = store.txn_taken /\ store'.txn_self_taken = store.txn_self_taken
        <2>1. store' = [store EXCEPT !.tuples = store.tuples \cup {t}] /\ store.tuples \cup {t} \in SUBSET Tuple
            BY <1>1, <1>3, StoreParts DEF Insert
        <2> QED BY <1>1, <2>1, StoreParts DEF Stores
    <1>7. /\ client' \in [Client -> Clients] /\ \A d \in Client \ {c} : client'[d] = client[d]
          /\ client'[c].pc = "index" /\ client'[c].tuple = t /\ client'[c].inbox = client[c].inbox
        <2>1. "index" \in ClientSteps
            BY DEF ClientSteps
        <2> QED BY <1>1, <1>3, <1>4, <2>1, GotoFacts
    <1>8. \A u \in Tuple : ~Holds(c, u) /\ ~Holds(c, u)'
        BY <1>4, <1>7 DEF Holds
    <1>9. StoreInv'
        <2>1. Free(t)'
            BY <1>5 DEF Free
        <2>2. \A u \in Tuple : lease'[u] = "none" => history'.written[u] = Unwritten
            BY <1>1, <1>3, <1>4, <1>5 DEF StoreInv
        <2> QED BY <1>1, <1>5, <1>6, <2>1, <2>2, StoreMoves
    <1>10. ClientInv(c)' /\ ~Writing(c)'
        <2>1. client[c].inbox \in Seq(Tuple)
            BY <1>1 DEF Clients
        <2>2. \A n \in 1 .. Len(client'[c].inbox) : Free(client[c].inbox[n])'
            BY <1>1, <1>5, <1>7, <2>1, FromQueue, InboxStays
        <2> QED BY <1>5, <1>7, <2>2 DEF ClientInv, Writing
    <1>11. ASSUME NEW u \in Tuple
           PROVE  HomeInv(u)'
        <2>0. HomeInv(u)
            BY DEF SpaceInv
        <2>1. CASE u = t
            <3>1. history.ended[t] = 0 /\ \A p : ~At(t, p)
                BY <1>3, <2>0, <2>1, Nowhere
            <3>2. /\ \A h \in Handler : t \notin handler[h].todo
                  /\ \A y \in Txn : t \notin store.uncommitted[y] /\ t \notin store.txn_taken[y] /\ t \notin store.txn_self_taken[y]
                  /\ \A d \in Client : ~Holds(d, t)
                BY <3>1 DEF At
            <3>3. \A d \in Client : ~Holds(d, t)'
                BY <1>7, <1>8, <3>2 DEF Holds
            <3>4. \A p : At(t, p)' <=> p = <<"tuples", t>>
                BY <1>6, <3>2, <3>3 DEF At
            <3>5. history'.written[t] # Unwritten /\ history'.ended[t] = 0
                BY <1>5, <3>1, SpaceAssumption DEF Context
            <3> QED BY <2>1, <3>4, <3>5, HomeMoves
        <2>2. CASE u # t
            <3>1. \A p : At(u, p)' <=> At(u, p)
                BY <1>6, <1>7, <1>8, <2>2, StaysAt
            <3> QED BY <1>5, <2>0, <2>2, <3>1, HomeStays
        <2> QED BY <2>1, <2>2
    <1>12. \A d \in Client \ {c} : Writing(d) => history'.written[client[d].tuple] = history.written[client[d].tuple]
        BY <1>1, <1>2, <1>3, <1>5 DEF SpaceInv, OneWriter, ClientInv
    <1> QED BY <1>1, <1>4, <1>5, <1>6, <1>7, <1>9, <1>10, <1>11, <1>12, ClientMove DEF SpaceType

\* The history of tuples that leave.
LEMMA EndedFacts ==
    ASSUME SpaceType, NEW S, history' = [history EXCEPT !.ended = Ended(S)], txns' = txns,
           \A t \in Tuple : lease[t] # "none" => lease'[t] # "none"
    PROVE  /\ history' \in Histories /\ Lasting /\ history'.written = history.written /\ history'.leaked = history.leaked
           /\ \A u \in Tuple : history'.ended[u] = IF u \in S THEN history.ended[u] + 1 ELSE history.ended[u]
    <1>1. history \in Histories /\ \A u \in Tuple : history.ended[u] \in Nat
        BY StoreParts
    <1>2. \A u \in Tuple : history.ended[u] + 1 \in Nat
        BY <1>1, SMTT(30)
    <1>3. /\ Ended(S) \in [Tuple -> Nat]
          /\ \A u \in Tuple : Ended(S)[u] = IF u \in S THEN history.ended[u] + 1 ELSE history.ended[u]
        BY <1>1, <1>2 DEF Ended
    <1>4. /\ history' \in Histories /\ history'.written = history.written /\ history'.leaked = history.leaked
          /\ history'.ended = Ended(S)
        BY <1>1, <1>3 DEF Histories
    <1>5. Lasting
        BY <1>4 DEF Lasting
    <1> QED BY <1>3, <1>4, <1>5

\* A visible tuple is removed by a take or a cancel: outside a transaction it
\* has left, in a transaction the call has it in hand.
LEMMA RemoveStep ==
    ASSUME SpaceInv, NEW c \in Client, NEW t \in store.tuples, client[c].pc \in {"idle", "scan"},
           NEW r \in Clients, client' = [client EXCEPT ![c] = r], r.pc = "unindex", r.tuple = t,
           r.txn = client[c].txn, r.inbox = client[c].inbox, store' = [store EXCEPT !.tuples = @ \ {t}],
           history' = IF client[c].txn = NoTxn THEN [history EXCEPT !.ended = Ended({t})] ELSE history,
           UNCHANGED <<lease, reclaims, txns, calls, handler, remover>>
    PROVE  SpaceInv'
    <1>1. /\ SpaceType /\ ClientInv(c) /\ StoreInv /\ client \in [Client -> Clients] /\ client[c] \in Clients
          /\ t \in Tuple /\ Free(t)
        BY StoreParts DEF SpaceInv, SpaceType, StoreInv
    <1>2. /\ history' \in Histories /\ Lasting /\ history'.written = history.written /\ history'.leaked = history.leaked
          /\ \A u \in Tuple : history'.ended[u] = IF u = t /\ client[c].txn = NoTxn THEN history.ended[u] + 1
                                                  ELSE history.ended[u]
        <2>1. CASE client[c].txn = NoTxn
            <3>1. history' = [history EXCEPT !.ended = Ended({t})]
                BY <2>1
            <3>2. /\ history' \in Histories /\ Lasting /\ history'.written = history.written
                  /\ history'.leaked = history.leaked
                  /\ \A u \in Tuple : history'.ended[u] = IF u \in {t} THEN history.ended[u] + 1 ELSE history.ended[u]
                BY <1>1, <3>1, EndedFacts
            <3> QED BY <2>1, <3>2
        <2>2. CASE client[c].txn # NoTxn
            BY <1>1, <2>2, StoreParts DEF Lasting
        <2> QED BY <2>1, <2>2
    <1>3. /\ store' \in Stores /\ store'.tuples = store.tuples \ {t} /\ store'.uncommitted = store.uncommitted
          /\ store'.txn_taken = store.txn_taken /\ store'.txn_self_taken = store.txn_self_taken
        <2>1. store.tuples \ {t} \in SUBSET Tuple
            BY <1>1, StoreParts
        <2> QED BY <1>1, <2>1, StoreParts DEF Stores
    <1>4. client' \in [Client -> Clients] /\ client'[c] = r /\ \A d \in Client \ {c} : client'[d] = client[d]
        BY <1>1
    <1>5. \A u \in Tuple : ~Holds(c, u) /\ (Holds(c, u)' <=> u = t /\ client[c].txn # NoTxn)
        BY <1>4 DEF Holds
    <1>6. StoreInv'
        <2>1. \A u \in Tuple : lease'[u] = "none" => history'.written[u] = Unwritten
            BY <1>1, <1>2 DEF StoreInv
        <2> QED BY <1>1, <1>2, <1>3, <2>1, StoreMoves
    <1>7. ClientInv(c)' /\ ~Writing(c)'
        <2>1. client[c].inbox \in Seq(Tuple)
            BY <1>1 DEF Clients
        <2>2. \A n \in 1 .. Len(client'[c].inbox) : Free(client[c].inbox[n])'
            BY <1>1, <1>2, <1>4, <2>1, FromQueue, InboxStays
        <2>3. Free(t)'
            BY <1>1, <1>2, FreeStays
        <2>4. Free(client[c].tuple)'
            BY <1>4, <2>3
        <2> QED BY <1>1, <1>4, <2>2, <2>4 DEF ClientInv, Writing
    <1>8. ASSUME NEW u \in Tuple
          PROVE  HomeInv(u)'
        <2>0. HomeInv(u)
            BY DEF SpaceInv
        <2>1. CASE u = t
            <3>1. At(t, <<"tuples", t>>)
                BY DEF At
            <3>2. (\A p : At(t, p) => p = <<"tuples", t>>) /\ history.written[t] # Unwritten /\ history.ended[t] = 0
                BY <2>0, <2>1, <3>1, OnePlace
            <3>3. /\ \A h \in Handler : t \notin handler[h].todo
                  /\ \A y \in Txn : t \notin store.uncommitted[y] /\ t \notin store.txn_taken[y] /\ t \notin store.txn_self_taken[y]
                  /\ \A d \in Client : ~Holds(d, t)
                BY <3>2 DEF At
            <3>4. \A d \in Client : Holds(d, t)' <=> d = c /\ client[c].txn # NoTxn
                <4>1. \A d \in Client \ {c} : ~Holds(d, t)'
                    BY <1>4, <3>3 DEF Holds
                <4> QED BY <1>1, <1>5, <4>1
            <3>5. CASE client[c].txn = NoTxn
                <4>1. \A p : ~At(t, p)'
                    BY <1>3, <3>3, <3>4, <3>5 DEF At
                <4>2. history'.ended[t] = 1
                    <5>1. history'.ended[t] = history.ended[t] + 1
                        BY <1>1, <1>2, <3>5
                    <5> QED BY <3>2, <5>1, SMTT(30)
                <4> QED BY <1>2, <2>1, <3>2, <4>1, <4>2, HomeEnds
            <3>6. CASE client[c].txn # NoTxn
                <4>1. \A p : At(t, p)' <=> p = <<"taking", c>>
                    BY <1>3, <3>3, <3>4, <3>6 DEF At
                <4> QED BY <1>2, <2>1, <3>2, <3>6, <4>1, HomeMoves
            <3> QED BY <3>5, <3>6
        <2>2. CASE u # t
            <3>1. \A p : At(u, p)' <=> At(u, p)
                BY <1>3, <1>4, <1>5, <2>2, StaysAt
            <3> QED BY <1>2, <2>0, <2>2, <3>1, HomeStays
        <2> QED BY <2>1, <2>2
    <1> QED BY <1>1, <1>2, <1>3, <1>4, <1>6, <1>7, <1>8, ClientMove DEF SpaceType

\* A take of a visible tuple, and a cancel, in the form RemoveStep has.
LEMMA TakeSteps ==
    ASSUME SpaceInv, NEW c \in Client, NEW t \in Tuple, UNCHANGED <<handler, remover>>,
           TakeCommitted(c, t) \/ Cancel(c, t)
    PROVE  SpaceInv'
    <1>1. client \in [Client -> Clients] /\ client[c] \in Clients /\ ClientInv(c)
        BY DEF SpaceInv, SpaceType
    <1>2. CASE TakeCommitted(c, t)
        <2> DEFINE r == [client[c] EXCEPT !.tuple = t, !.pc = "unindex"]
        <2>1. r \in Clients /\ r.pc = "unindex" /\ r.tuple = t /\ r.txn = client[c].txn /\ r.inbox = client[c].inbox
            BY <1>1 DEF Clients, ClientSteps
        <2>2. client' = [client EXCEPT ![c] = r]
            BY <1>1, <1>2 DEF TakeCommitted
        <2> HIDE DEF r
        <2>3. t \in store.tuples
            BY <1>2 DEF TakeCommitted, Found
        <2> QED BY <1>2, <2>1, <2>2, <2>3, RemoveStep DEF TakeCommitted, leases, coord
    <1>3. CASE Cancel(c, t)
        <2> DEFINE r == [client[c] EXCEPT !.method = "cancel", !.tuple = t, !.pc = "unindex"]
        <2>1. r \in Clients /\ r.pc = "unindex" /\ r.tuple = t /\ r.txn = client[c].txn /\ r.inbox = client[c].inbox
            BY <1>1 DEF Clients, ClientSteps, Method
        <2>2. client' = [client EXCEPT ![c] = r]
            BY <1>1, <1>3 DEF Cancel
        <2> HIDE DEF r
        <2>3. client[c].txn = NoTxn
            BY <1>1, <1>3 DEF Cancel, ClientInv
        <2> QED BY <1>3, <2>1, <2>2, <2>3, RemoveStep DEF Cancel, leases, coord
    <1> QED BY <1>2, <1>3

\* A take finds a write of its own transaction.
LEMMA TakeOwnStep ==
    ASSUME SpaceInv, NEW c \in Client, NEW t \in Tuple, UNCHANGED <<handler, remover>>, TakeOwn(c, t)
    PROVE  SpaceInv'
    <1>1. SpaceType /\ ClientInv(c) /\ StoreInv /\ client \in [Client -> Clients] /\ client[c] \in Clients
        BY DEF SpaceInv, SpaceType
    <1>2. PICK x \in Txn : x = client[c].txn /\ t \in store.uncommitted[x] /\ history.written[t] = x
        BY <1>1 DEF TakeOwn, Found, ClientInv, Clients, Context, StoreInv
    <1>3. history' = history
        BY <1>2, ResultClean DEF TakeOwn
    <1>4. UNCHANGED <<lease, reclaims, txns, calls>> /\ Return(c) /\ client[c].pc = "own"
        BY DEF TakeOwn, leases, coord
    <1>5. Lasting
        BY <1>3, <1>4 DEF Lasting
    <1> DEFINE b == [store.uncommitted EXCEPT ![x] = store.uncommitted[x] \ {t}]
               s == [store.txn_self_taken EXCEPT ![x] = store.txn_self_taken[x] \cup {t}]
    <1>6. b \in Buffers /\ b[x] = store.uncommitted[x] \ {t} /\ \A y \in Txn \ {x} : b[y] = store.uncommitted[y]
        BY <1>1, StoreParts DEF Buffers
    <1>7. s \in Buffers /\ s[x] = store.txn_self_taken[x] \cup {t} /\ \A y \in Txn \ {x} : s[y] = store.txn_self_taken[y]
        BY <1>1, StoreParts DEF Buffers
    <1>8. store' = [store EXCEPT !.uncommitted = b, !.txn_self_taken = s]
        BY <1>2 DEF TakeOwn
    <1> HIDE DEF b, s
    <1>9. /\ store' \in Stores /\ store'.tuples = store.tuples /\ store'.uncommitted = b
          /\ store'.txn_taken = store.txn_taken /\ store'.txn_self_taken = s
        BY <1>1, <1>6, <1>7, <1>8, StoreParts DEF Stores
    <1>10. /\ client' \in [Client -> Clients] /\ \A d \in Client \ {c} : client'[d] = client[d]
           /\ ClientInv(c)' /\ ~Writing(c)' /\ \A u \in Tuple : ~Holds(c, u)'
        BY <1>1, <1>4, ReturnFacts
    <1>11. \A u \in Tuple : ~Holds(c, u)
        BY <1>4 DEF Holds
    <1>12. StoreInv'
        <2>1. \A u \in Tuple : lease'[u] = "none" => history'.written[u] = Unwritten
            BY <1>1, <1>3, <1>4 DEF StoreInv
        <2>2. \A y \in Txn : store'.uncommitted[y] \subseteq store.uncommitted[y]
            BY <1>6, <1>9
        <2> QED BY <1>1, <1>5, <1>9, <2>1, <2>2, StoreMoves
    <1>13. ASSUME NEW u \in Tuple
           PROVE  HomeInv(u)'
        <2>0. HomeInv(u)
            BY DEF SpaceInv
        <2>1. CASE u = t
            <3>1. At(t, <<"uncommitted", x>>)
                BY <1>2 DEF At
            <3>2. (\A p : At(t, p) => p = <<"uncommitted", x>>) /\ history.written[t] # Unwritten /\ history.ended[t] = 0
                BY <2>0, <2>1, <3>1, OnePlace
            <3>3. /\ t \notin store.tuples /\ \A h \in Handler : t \notin handler[h].todo
                  /\ \A y \in Txn : t \notin store.txn_taken[y] /\ t \notin store.txn_self_taken[y]
                  /\ \A y \in Txn : t \in store.uncommitted[y] => y = x
                  /\ \A d \in Client : ~Holds(d, t)
                BY <3>2 DEF At
            <3>4. \A d \in Client : ~Holds(d, t)'
                BY <1>10, <3>3 DEF Holds
            <3>5. \A y \in Txn : t \notin store'.uncommitted[y] /\ (t \in store'.txn_self_taken[y] <=> y = x)
                BY <1>6, <1>7, <1>9, <3>3
            <3>6. \A p : At(t, p)' <=> p = <<"txn_self_taken", x>>
                BY <1>9, <3>3, <3>4, <3>5 DEF At
            <3> QED BY <1>3, <2>1, <3>2, <3>6, HomeMoves
        <2>2. CASE u # t
            <3>1. \A y \in Txn : /\ u \in store'.uncommitted[y] <=> u \in store.uncommitted[y]
                                 /\ u \in store'.txn_self_taken[y] <=> u \in store.txn_self_taken[y]
                BY <1>6, <1>7, <1>9, <2>2
            <3>2. \A p : At(u, p)' <=> At(u, p)
                BY <1>9, <1>10, <1>11, <3>1, StaysAt
            <3> QED BY <1>3, <2>0, <2>2, <3>2, HomeStays
        <2> QED BY <2>1, <2>2
    <1> QED BY <1>1, <1>3, <1>4, <1>5, <1>9, <1>10, <1>12, <1>13, ClientMove DEF SpaceType

\* What a take in a transaction has in hand goes into its buffer.
LEMMA TrackHoldStep ==
    ASSUME SpaceInv, NEW c \in Client, UNCHANGED <<handler, remover>>, TrackHold(c)
    PROVE  SpaceInv'
    <1>1. SpaceType /\ ClientInv(c) /\ StoreInv /\ client \in [Client -> Clients] /\ client[c] \in Clients
        BY DEF SpaceInv, SpaceType
    <1>2. PICK t \in Tuple, x \in Txn : t = client[c].tuple /\ x = client[c].txn /\ Free(t) /\ Holds(c, t)
        BY <1>1 DEF TrackHold, ClientInv, Clients, Context, Holds
    <1>3. history' = history
        BY <1>2, ResultClean DEF TrackHold
    <1>4. UNCHANGED <<lease, reclaims, txns, calls>> /\ Return(c) /\ client[c].pc = "hold"
        BY DEF TrackHold, leases, coord
    <1>5. Lasting
        BY <1>3, <1>4 DEF Lasting
    <1> DEFINE b == [store.txn_taken EXCEPT ![x] = store.txn_taken[x] \cup {t}]
    <1>6. b \in Buffers /\ b[x] = store.txn_taken[x] \cup {t} /\ \A y \in Txn \ {x} : b[y] = store.txn_taken[y]
        BY <1>1, StoreParts DEF Buffers
    <1>7. store' = [store EXCEPT !.txn_taken = b]
        BY <1>2 DEF TrackHold
    <1> HIDE DEF b
    <1>8. /\ store' \in Stores /\ store'.tuples = store.tuples /\ store'.uncommitted = store.uncommitted
          /\ store'.txn_taken = b /\ store'.txn_self_taken = store.txn_self_taken
        BY <1>1, <1>6, <1>7, StoreParts DEF Stores
    <1>9. /\ client' \in [Client -> Clients] /\ \A d \in Client \ {c} : client'[d] = client[d]
          /\ ClientInv(c)' /\ ~Writing(c)' /\ \A u \in Tuple : ~Holds(c, u)'
        BY <1>1, <1>4, ReturnFacts
    <1>10. \A u \in Tuple \ {t} : ~Holds(c, u)
        BY <1>2 DEF Holds
    <1>11. StoreInv'
        <2>1. \A u \in Tuple : lease'[u] = "none" => history'.written[u] = Unwritten
            BY <1>1, <1>3, <1>4 DEF StoreInv
        <2>2. Free(t)'
            BY <1>1, <1>2, <1>5, FreeStays
        <2>3. \A y \in Txn : \A u \in store'.txn_taken[y] : u \in store.txn_taken[y] \/ Free(u)'
            BY <1>6, <1>8, <2>2
        <2> QED BY <1>1, <1>5, <1>8, <2>1, <2>3, StoreMoves
    <1>12. ASSUME NEW u \in Tuple
           PROVE  HomeInv(u)'
        <2>0. HomeInv(u)
            BY DEF SpaceInv
        <2>1. CASE u = t
            <3>1. At(t, <<"taking", c>>)
                BY <1>2 DEF At
            <3>2. (\A p : At(t, p) => p = <<"taking", c>>) /\ history.written[t] # Unwritten /\ history.ended[t] = 0
                BY <2>0, <2>1, <3>1, OnePlace
            <3>3. /\ t \notin store.tuples /\ \A h \in Handler : t \notin handler[h].todo
                  /\ \A y \in Txn : t \notin store.uncommitted[y] /\ t \notin store.txn_taken[y] /\ t \notin store.txn_self_taken[y]
                  /\ \A d \in Client \ {c} : ~Holds(d, t)
                BY <3>2 DEF At
            <3>4. \A d \in Client : ~Holds(d, t)'
                BY <1>9, <3>3 DEF Holds
            <3>5. \A y \in Txn : t \in store'.txn_taken[y] <=> y = x
                BY <1>6, <1>8, <3>3
            <3>6. \A p : At(t, p)' <=> p = <<"txn_taken", x>>
                BY <1>8, <3>3, <3>4, <3>5 DEF At
            <3> QED BY <1>3, <2>1, <3>2, <3>6, HomeMoves
        <2>2. CASE u # t
            <3>1. \A y \in Txn : u \in store'.txn_taken[y] <=> u \in store.txn_taken[y]
                BY <1>6, <1>8, <2>2
            <3>2. \A p : At(u, p)' <=> At(u, p)
                BY <1>8, <1>9, <1>10, <2>2, <3>1, StaysAt
            <3> QED BY <1>3, <2>0, <2>2, <3>2, HomeStays
        <2> QED BY <2>1, <2>2
    <1> QED BY <1>1, <1>3, <1>4, <1>5, <1>8, <1>9, <1>11, <1>12, ClientMove DEF SpaceType

-----------------------------------------------------------------------------
(***************************************************************************)
(* Broadcasts.                                                             *)
(***************************************************************************)

\* What is in s was in q, or is t.
Heard(s, q, t) == \A n \in 1 .. Len(s) : s[n] = t \/ \E m \in 1 .. Len(q) : s[n] = q[m]

\* A receiver that hears t, with room or by dropping its oldest, holds nothing else new.
LEMMA HeardFrom ==
    ASSUME NEW q \in Seq(Tuple), NEW t \in Tuple
    PROVE  /\ Heard(q, q, t) /\ Append(q, t) \in Seq(Tuple) /\ Heard(Append(q, t), q, t)
           /\ Capacity <= Len(q) => Append(Tail(q), t) \in Seq(Tuple) /\ Heard(Append(Tail(q), t), q, t)
    <1>1. Heard(q, q, t)
        BY DEF Heard
    <1>2. \A s \in Seq(Tuple) : /\ Append(s, t) \in Seq(Tuple)
                               /\ \A n \in 1 .. Len(Append(s, t)) : \/ Append(s, t)[n] = t
                                                                    \/ n \in 1 .. Len(s) /\ Append(s, t)[n] = s[n]
        BY SMTT(30)
    <1>3. ASSUME Capacity <= Len(q)
          PROVE  /\ Append(Tail(q), t) \in Seq(Tuple)
                 /\ \A n \in 1 .. Len(Append(Tail(q), t)) :
                        \/ Append(Tail(q), t)[n] = t
                        \/ n + 1 \in 1 .. Len(q) /\ Append(Tail(q), t)[n] = q[n + 1]
        <2>1. q # <<>> /\ Len(q) \in Nat
            BY <1>3, SpaceAssumption, SMTT(30)
        <2>2. Tail(q) \in Seq(Tuple) /\ \A n \in 1 .. Len(Tail(q)) : n + 1 \in 1 .. Len(q) /\ Tail(q)[n] = q[n + 1]
            BY <2>1, SMTT(30)
        <2> QED BY <1>2, <2>2
    <1>4. Heard(Append(q, t), q, t)
        BY <1>2 DEF Heard
    <1>5. Capacity <= Len(q) => Heard(Append(Tail(q), t), q, t)
        BY <1>3 DEF Heard
    <1> QED BY <1>1, <1>2, <1>3, <1>4, <1>5

\* A broadcast changes receivers, and nothing else of a call.
LEMMA SendFacts ==
    ASSUME NEW t \in Tuple, NEW now \in [Client -> Clients], Send(t, now)
    PROVE  /\ client' \in [Client -> Clients]
           /\ \A d \in Client : /\ client'[d].pc = now[d].pc /\ client'[d].method = now[d].method
                                /\ client'[d].txn = now[d].txn /\ client'[d].tuple = now[d].tuple
                                /\ Heard(client'[d].inbox, now[d].inbox, t)
                                /\ ~Subscribed(now[d]) => client'[d] = now[d]
    <1> DEFINE q(d) == now[d].inbox
               one(d) == [now[d] EXCEPT !.inbox = Append(q(d), t)]
               two(d) == [now[d] EXCEPT !.inbox = Append(Tail(q(d)), t), !.lagged = TRUE]
    <1>1. \A d \in Client : client'[d] = IF ~Subscribed(now[d]) THEN now[d]
                                         ELSE IF Len(q(d)) < Capacity THEN one(d) ELSE two(d)
        BY DEF Send
    <1>2. client' = [d \in Client |-> client'[d]]
        BY DEF Send
    <1>3. ASSUME NEW d \in Client
          PROVE  /\ client'[d] \in Clients
                 /\ client'[d].pc = now[d].pc /\ client'[d].method = now[d].method
                 /\ client'[d].txn = now[d].txn /\ client'[d].tuple = now[d].tuple
                 /\ Heard(client'[d].inbox, now[d].inbox, t)
                 /\ ~Subscribed(now[d]) => client'[d] = now[d]
        <2>1. now[d] \in Clients /\ q(d) \in Seq(Tuple)
            BY DEF Clients
        <2>2. /\ Heard(q(d), q(d), t) /\ Append(q(d), t) \in Seq(Tuple) /\ Heard(Append(q(d), t), q(d), t)
              /\ Capacity <= Len(q(d)) => Append(Tail(q(d)), t) \in Seq(Tuple) /\ Heard(Append(Tail(q(d)), t), q(d), t)
            BY <2>1, HeardFrom
        <2>3. CASE ~Subscribed(now[d])
            BY <1>1, <2>1, <2>2, <2>3
        <2>4. CASE Subscribed(now[d]) /\ Len(q(d)) < Capacity
            <3>1. client'[d] = one(d)
                BY <1>1, <2>4
            <3>2. /\ one(d) \in Clients /\ one(d).pc = now[d].pc /\ one(d).method = now[d].method
                  /\ one(d).txn = now[d].txn /\ one(d).tuple = now[d].tuple /\ one(d).inbox = Append(q(d), t)
                BY <2>1, <2>2 DEF Clients
            <3> HIDE DEF one
            <3> QED BY <2>2, <2>4, <3>1, <3>2
        <2>5. CASE Subscribed(now[d]) /\ ~(Len(q(d)) < Capacity)
            <3>1. client'[d] = two(d)
                BY <1>1, <2>5
            <3>2. Capacity <= Len(q(d))
                <4>1. Len(q(d)) \in Nat
                    BY <2>1, SMTT(30)
                <4> QED BY <2>5, <4>1, SpaceAssumption, SMTT(30)
            <3>3. /\ two(d) \in Clients /\ two(d).pc = now[d].pc /\ two(d).method = now[d].method
                  /\ two(d).txn = now[d].txn /\ two(d).tuple = now[d].tuple /\ two(d).inbox = Append(Tail(q(d)), t)
                BY <2>1, <2>2, <3>2 DEF Clients
            <3> HIDE DEF two
            <3> QED BY <2>2, <2>5, <3>1, <3>2, <3>3
        <2> QED BY <2>3, <2>4, <2>5
    <1>4. client' \in [Client -> Clients]
        BY <1>2, <1>3
    <1> QED BY <1>3, <1>4

\* A call that hears of what may be seen keeps what it has.
LEMMA HearStays ==
    ASSUME SpaceType, Lasting, history' = history, NEW d \in Client, ClientInv(d), NEW t \in Tuple, Free(t),
           client'[d].pc = client[d].pc, client'[d].method = client[d].method,
           client'[d].txn = client[d].txn, client'[d].tuple = client[d].tuple,
           Heard(client'[d].inbox, client[d].inbox, t)
    PROVE  ClientInv(d)' /\ (Writing(d)' <=> Writing(d)) /\ \A u \in Tuple : Holds(d, u)' <=> Holds(d, u)
    <1>1. client[d] \in Clients /\ Free(t)'
        BY FreeStays DEF SpaceType
    <1>2. \A m \in 1 .. Len(client[d].inbox) : client[d].inbox[m] \in Tuple /\ Free(client[d].inbox[m])
        BY <1>1, SMTT(30) DEF Clients, ClientInv
    <1>3. ASSUME NEW n \in 1 .. Len(client'[d].inbox)
          PROVE  Free(client[d].inbox[n])'
        <2>1. PICK u \in Tuple : u = client'[d].inbox[n] /\ Free(u)
            BY <1>2, <1>3 DEF Heard
        <2>2. Free(u)'
            BY <2>1, FreeStays
        <2> QED BY <2>1, <2>2
    <1>4. Writing(d)' <=> Writing(d)
        BY DEF Writing
    <1>5. \A u \in Tuple : Holds(d, u)' <=> Holds(d, u)
        BY DEF Holds
    <1>6. client[d].tuple \in Tuple /\ Free(client[d].tuple) => Free(client[d].tuple)'
        BY FreeStays
    <1>7. ClientInv(d)'
        BY <1>3, <1>4, <1>6 DEF ClientInv, Lasting
    <1> QED BY <1>4, <1>5, <1>7

\* The broadcast of a write.
LEMMA InsertSendStep ==
    ASSUME SpaceInv, NEW c \in Client, UNCHANGED <<handler, remover>>, InsertSend(c)
    PROVE  SpaceInv'
    <1>1. SpaceType /\ ClientInv(c) /\ client \in [Client -> Clients] /\ client[c] \in Clients
        BY DEF SpaceInv, SpaceType
    <1>2. PICK t \in Tuple : t = client[c].tuple /\ Free(t)
        BY <1>1 DEF InsertSend, ClientInv, Free
    <1>3. UNCHANGED <<store, history, leases, lease, reclaims, txns, calls>> /\ client[c].pc = "send"
        BY DEF InsertSend, leases, coord
    <1> DEFINE now == [client EXCEPT ![c] = IdleClient]
    <1>4. now \in [Client -> Clients] /\ now[c] = IdleClient /\ \A d \in Client \ {c} : now[d] = client[d]
        BY <1>1, IdleFacts
    <1>5. Send(t, now)
        BY <1>2 DEF InsertSend
    <1> HIDE DEF now
    <1>6. /\ client' \in [Client -> Clients]
          /\ \A d \in Client : /\ client'[d].pc = now[d].pc /\ client'[d].method = now[d].method
                               /\ client'[d].txn = now[d].txn /\ client'[d].tuple = now[d].tuple
                               /\ Heard(client'[d].inbox, now[d].inbox, t)
                               /\ ~Subscribed(now[d]) => client'[d] = now[d]
        BY <1>4, <1>5, SendFacts
    <1>7. client'[c] = IdleClient
        BY <1>4, <1>6, IdleFacts DEF Subscribed
    <1>8. ClientInv(c)' /\ ~Writing(c)' /\ \A u \in Tuple : ~Holds(c, u) /\ ~Holds(c, u)'
        BY <1>3, <1>7, IdleInv DEF Holds
    <1>9. SamePlaces /\ Lasting /\ SpaceType' /\ CallsInv'
        BY <1>3, <1>6 DEF SamePlaces, Lasting, SpaceInv, SpaceType, CallsInv
    <1>10. ASSUME NEW d \in Client \ {c}
           PROVE  /\ ClientInv(d)' /\ (Writing(d)' <=> Writing(d)) /\ client'[d].tuple = client[d].tuple
                  /\ \A u \in Tuple : Holds(d, u)' <=> Holds(d, u)
        <2>1. /\ client'[d].pc = client[d].pc /\ client'[d].method = client[d].method
              /\ client'[d].txn = client[d].txn /\ client'[d].tuple = client[d].tuple
              /\ Heard(client'[d].inbox, client[d].inbox, t)
            BY <1>4, <1>6
        <2>2. ClientInv(d)
            BY DEF SpaceInv
        <2> QED BY <1>1, <1>2, <1>3, <1>9, <2>1, <2>2, HearStays
    <1>11. OneWriter'
        BY <1>8, <1>10 DEF SpaceInv, OneWriter
    <1>12. \A d \in Client : ClientInv(d)' /\ \A u \in Tuple : Holds(d, u)' <=> Holds(d, u)
        BY <1>8, <1>10
    <1>13. \A h \in Handler : HandlerInv(h)' /\ handler'[h].todo = handler[h].todo
        BY <1>1, <1>9, HandlerStays DEF SpaceInv
    <1> QED BY <1>3, <1>9, <1>11, <1>12, <1>13, QuietStep

-----------------------------------------------------------------------------
(***************************************************************************)
(* Steps of participant calls and of on_tuple_expired.                     *)
(***************************************************************************)

\* The tuples of S leave the store, each from where it was.
LEMMA Leave ==
    ASSUME SpaceInv, store' \in Stores, UNCHANGED <<client, txns, lease>>,
           \A h \in Handler : handler'[h].todo = handler[h].todo,
           NEW S, history' = [history EXCEPT !.ended = Ended(S)], store'.tuples \subseteq store.tuples,
           \A y \in Txn : /\ store'.uncommitted[y] \subseteq store.uncommitted[y]
                          /\ store'.txn_taken[y] \subseteq store.txn_taken[y]
                          /\ store'.txn_self_taken[y] \subseteq store.txn_self_taken[y],
           \A u \in Tuple :
               u \in S <=> \/ u \in store.tuples \ store'.tuples
                           \/ \E y \in Txn : \/ u \in store.uncommitted[y] \ store'.uncommitted[y]
                                             \/ u \in store.txn_taken[y] \ store'.txn_taken[y]
                                             \/ u \in store.txn_self_taken[y] \ store'.txn_self_taken[y]
    PROVE  /\ history' \in Histories /\ Lasting /\ history'.written = history.written
           /\ Isolation' /\ StoreInv' /\ \A u \in Tuple : HomeInv(u)'
    <1>1. SpaceType /\ StoreInv
        BY DEF SpaceInv
    <1>2. /\ history' \in Histories /\ Lasting /\ history'.written = history.written /\ history'.leaked = history.leaked
          /\ \A u \in Tuple : history'.ended[u] = IF u \in S THEN history.ended[u] + 1 ELSE history.ended[u]
        BY <1>1, EndedFacts
    <1>3. StoreInv'
        BY <1>1, <1>2, StoreMoves DEF StoreInv
    <1>4. \A d \in Client : \A u \in Tuple : Holds(d, u)' <=> Holds(d, u)
        BY DEF Holds
    <1>5. ASSUME NEW u \in Tuple, NEW p, At(u, p)'
          PROVE  At(u, p)
        BY <1>4, <1>5 DEF At
    <1>6. ASSUME NEW u \in Tuple
          PROVE  HomeInv(u)'
        <2>0. HomeInv(u)
            BY DEF SpaceInv
        <2>1. CASE u \in S
            <3>1. \E a : At(u, a) /\ ~At(u, a)'
                <4>1. CASE u \in store.tuples \ store'.tuples
                    <5>1. At(u, <<"tuples", u>>) /\ ~At(u, <<"tuples", u>>)'
                        BY <4>1 DEF At
                    <5> QED BY <5>1
                <4>2. ASSUME NEW y \in Txn, u \in store.uncommitted[y] \ store'.uncommitted[y]
                      PROVE  \E a : At(u, a) /\ ~At(u, a)'
                    <5>1. At(u, <<"uncommitted", y>>) /\ ~At(u, <<"uncommitted", y>>)'
                        BY <4>2 DEF At
                    <5> QED BY <5>1
                <4>3. ASSUME NEW y \in Txn, u \in store.txn_taken[y] \ store'.txn_taken[y]
                      PROVE  \E a : At(u, a) /\ ~At(u, a)'
                    <5>1. At(u, <<"txn_taken", y>>) /\ ~At(u, <<"txn_taken", y>>)'
                        BY <4>3 DEF At
                    <5> QED BY <5>1
                <4>4. ASSUME NEW y \in Txn, u \in store.txn_self_taken[y] \ store'.txn_self_taken[y]
                      PROVE  \E a : At(u, a) /\ ~At(u, a)'
                    <5>1. At(u, <<"txn_self_taken", y>>) /\ ~At(u, <<"txn_self_taken", y>>)'
                        BY <4>4 DEF At
                    <5> QED BY <5>1
                <4> QED BY <2>1, <4>1, <4>2, <4>3, <4>4
            <3>2. PICK a : At(u, a) /\ ~At(u, a)'
                BY <3>1
            <3>3. (\A p : At(u, p) => p = a) /\ history.written[u] # Unwritten /\ history.ended[u] = 0
                BY <2>0, <3>2, OnePlace
            <3>4. \A p : ~At(u, p)'
                BY <1>5, <3>2, <3>3
            <3>5. history'.ended[u] = 1
                <4>1. history'.ended[u] = history.ended[u] + 1
                    BY <1>2, <2>1
                <4> QED BY <3>3, <4>1, SMTT(30)
            <3> QED BY <1>2, <3>3, <3>4, <3>5, HomeEnds
        <2>2. CASE u \notin S
            <3>1. u \in store'.tuples <=> u \in store.tuples
                BY <2>2
            <3>2. \A y \in Txn : /\ u \in store'.uncommitted[y] <=> u \in store.uncommitted[y]
                                 /\ u \in store'.txn_taken[y] <=> u \in store.txn_taken[y]
                                 /\ u \in store'.txn_self_taken[y] <=> u \in store.txn_self_taken[y]
                BY <2>2
            <3>3. \A p : At(u, p)' <=> At(u, p)
                BY <1>4, <3>1, <3>2 DEF At
            <3> QED BY <1>2, <2>0, <2>2, <3>3, HomeStays
        <2> QED BY <2>1, <2>2
    <1>7. Isolation'
        BY <1>2 DEF SpaceInv, Isolation
    <1> QED BY <1>2, <1>3, <1>6, <1>7

\* One participant call takes a step.
LEMMA HandlerMove ==
    ASSUME SpaceInv, NEW h \in Handler, NEW r \in Handlers, handler' = [handler EXCEPT ![h] = r],
           UNCHANGED <<client, txns, calls, remover>>, HandlerInv(h)',
           store' \in Stores, history' \in Histories, lease' \in [Tuple -> {"none", "standing", "gone"}],
           reclaims' \subseteq Tuple, Lasting, history'.written = history.written,
           Isolation', StoreInv', \A t \in Tuple : HomeInv(t)'
    PROVE  SpaceInv'
    <1>1. handler' \in [Handler -> Handlers] /\ \A g \in Handler \ {h} : handler'[g] = handler[g]
        BY DEF SpaceInv, SpaceType
    <1>2. SpaceType' /\ CallsInv' /\ OneWriter'
        BY <1>1 DEF SpaceInv, SpaceType, CallsInv, OneWriter, Writing
    <1>3. \A g \in Handler : HandlerInv(g)'
        BY <1>1, HandlerStays DEF SpaceInv
    <1>4. \A d \in Client : ClientInv(d)'
        BY ClientStays DEF SpaceInv
    <1> QED BY <1>2, <1>3, <1>4 DEF SpaceInv

\* It takes one that moves no tuple.
LEMMA HandlerQuiet ==
    ASSUME SpaceInv, NEW h \in Handler, NEW r \in Handlers, handler' = [handler EXCEPT ![h] = r],
           UNCHANGED <<client, txns, calls, remover>>, r.todo = handler[h].todo, HandlerInv(h)',
           store' \in Stores, SamePlaces, lease' \in [Tuple -> {"none", "standing", "gone"}],
           reclaims' \subseteq Tuple, \A t \in Tuple : lease'[t] = "none" <=> lease[t] = "none"
    PROVE  SpaceInv'
    <1>1. SpaceType /\ StoreInv
        BY DEF SpaceInv
    <1>2. Lasting
        BY DEF Lasting, SamePlaces
    <1>3. StoreInv'
        BY <1>1, <1>2, StoreStays
    <1>4. \A g \in Handler : handler'[g].todo = handler[g].todo
        BY <1>1 DEF SpaceType
    <1>5. ASSUME NEW t \in Tuple
          PROVE  HomeInv(t)'
        <2>1. \A d \in Client : Holds(d, t)' <=> Holds(d, t)
            BY DEF Holds
        <2>2. \A p : At(t, p)' <=> At(t, p)
            BY <1>4, <2>1 DEF At, SamePlaces
        <2> QED BY <2>2, HomeStays DEF SpaceInv, SamePlaces
    <1>6. history' = history /\ history' \in Histories /\ Isolation'
        BY <1>1 DEF SpaceInv, SpaceType, SamePlaces, Isolation
    <1> QED BY <1>2, <1>3, <1>5, <1>6, HandlerMove

\* The steps of commit_space_txn and abort_space_txn after the store's.
LEMMA ServeSteps ==
    ASSUME SpaceInv, NEW h \in Handler, UNCHANGED <<coord, remover>>,
           ShowIndex(h) \/ Unenlist(h) \/ Served(h) \/ \E t \in Tuple : ReleaseFreed(h, t)
    PROVE  SpaceInv'
    <1>1. SpaceType /\ HandlerInv(h) /\ handler[h] \in Handlers
        BY DEF SpaceInv, SpaceType
    <1>2. UNCHANGED <<client, txns, calls, history>>
        BY DEF coord, ShowIndex, Unenlist, Served, ReleaseFreed
    <1>3. /\ lease \in [Tuple -> {"none", "standing", "gone"}] /\ reclaims \subseteq Tuple
          /\ \A t \in handler[h].moved : t \in Tuple
        BY <1>1 DEF SpaceType, Handlers
    <1>4. CASE ShowIndex(h)
        <2> DEFINE r == [handler[h] EXCEPT !.tuple = NoTuple, !.pc = "show"]
        <2>1. /\ r \in Handlers /\ r.pc = "show" /\ r.todo = handler[h].todo /\ r.moved = handler[h].moved
              /\ r.txn = handler[h].txn /\ r.method = handler[h].method
            BY <1>1 DEF Handlers, HandlerSteps
        <2>2. handler' = [handler EXCEPT ![h] = r]
            BY <1>4 DEF ShowIndex
        <2> HIDE DEF r
        <2>3. handler'[h] = r
            BY <1>1, <2>2 DEF SpaceType
        <2>4. store' \in Stores /\ SamePlaces
            <3>1. store.lease_index \cup {handler[h].tuple} \in SUBSET Tuple
                <4>1. handler[h].tuple \in Tuple /\ store \in Stores
                    BY <1>1, <1>4 DEF HandlerInv, ShowIndex, SpaceType
                <4> QED BY <4>1 DEF Stores
            <3> QED BY <1>1, <1>2, <1>4, <3>1, StoreParts DEF ShowIndex, Stores, SamePlaces
        <2>5. HandlerInv(h)'
            <3>1. \A t \in handler[h].todo \cup handler[h].moved : t \in Tuple /\ Free(t)
                BY <1>1 DEF HandlerInv, Handlers
            <3>2. Lasting
                BY <1>2, <1>4 DEF Lasting, ShowIndex, leases
            <3>3. \A t \in handler[h].todo \cup handler[h].moved : Free(t)'
                BY <1>1, <3>1, <3>2, FreeStays
            <3> QED BY <1>1, <1>2, <1>4, <2>1, <2>3, <3>3 DEF HandlerInv, ShowIndex
        <2> QED BY <1>2, <1>3, <1>4, <2>1, <2>2, <2>4, <2>5, HandlerQuiet DEF ShowIndex, leases
    <1>5. CASE Unenlist(h)
        <2> DEFINE r == [handler[h] EXCEPT !.pc = "release"]
        <2>1. /\ r \in Handlers /\ r.pc = "release" /\ r.todo = handler[h].todo /\ r.moved = handler[h].moved
              /\ r.txn = handler[h].txn /\ r.method = handler[h].method
            BY <1>1 DEF Handlers, HandlerSteps
        <2>2. handler' = [handler EXCEPT ![h] = r]
            BY <1>5 DEF Unenlist, HGoto
        <2> HIDE DEF r
        <2>3. handler'[h] = r
            BY <1>1, <2>2 DEF SpaceType
        <2>4. store' \in Stores /\ SamePlaces /\ Lasting /\ UNCHANGED <<lease, reclaims>>
            BY <1>1, <1>2, <1>5 DEF Unenlist, SpaceType, SamePlaces, Lasting, leases
        <2>5. HandlerInv(h)'
            <3>1. handler[h].todo = {} /\ handler[h].pc # "idle"
                BY <1>1, <1>5 DEF HandlerInv, Unenlist
            <3>2. \A t \in handler[h].moved : Free(t)'
                BY <1>1, <1>3, <2>4, FreeStays DEF HandlerInv
            <3> QED BY <1>1, <1>2, <2>1, <2>3, <3>1, <3>2 DEF HandlerInv
        <2> QED BY <1>2, <1>3, <2>1, <2>2, <2>4, <2>5, HandlerQuiet
    <1>6. CASE Served(h)
        <2>1. /\ IdleHandler \in Handlers /\ IdleHandler.pc = "idle" /\ IdleHandler.todo = {} /\ IdleHandler.moved = {}
              /\ handler' = [handler EXCEPT ![h] = IdleHandler] /\ handler'[h] = IdleHandler
            BY <1>1, <1>6 DEF Served, IdleHandler, Handlers, HandlerSteps, Context, SpaceType
        <2>2. store' \in Stores /\ SamePlaces /\ UNCHANGED <<lease, reclaims>> /\ handler[h].todo = {}
            BY <1>1, <1>2, <1>6 DEF Served, SpaceType, SamePlaces, leases, HandlerInv
        <2>3. HandlerInv(h)'
            BY <2>1 DEF HandlerInv
        <2> QED BY <1>2, <1>3, <2>1, <2>2, <2>3, HandlerQuiet
    <1>7. ASSUME NEW t \in Tuple, ReleaseFreed(h, t)
          PROVE  SpaceInv'
        <2> DEFINE r == [handler[h] EXCEPT !.freed = handler[h].freed \ {t}]
        <2>1. /\ r \in Handlers /\ r.pc = "release" /\ r.todo = handler[h].todo /\ r.moved = handler[h].moved
              /\ r.txn = handler[h].txn /\ r.method = handler[h].method
            BY <1>1, <1>7 DEF Handlers, ReleaseFreed
        <2>2. handler' = [handler EXCEPT ![h] = r]
            BY <1>7 DEF ReleaseFreed
        <2> HIDE DEF r
        <2>3. handler'[h] = r
            BY <1>1, <2>2 DEF SpaceType
        <2>4. /\ lease' \in [Tuple -> {"none", "standing", "gone"}] /\ reclaims' \subseteq Tuple
              /\ \A u \in Tuple : lease'[u] = "none" <=> lease[u] = "none"
            BY <1>1, <1>7, CancelFacts DEF ReleaseFreed
        <2>5. store' \in Stores /\ SamePlaces /\ Lasting
            BY <1>1, <1>2, <1>7, <2>4 DEF ReleaseFreed, SpaceType, SamePlaces, Lasting
        <2>6. HandlerInv(h)'
            <3>1. handler[h].todo = {} /\ handler[h].pc # "idle"
                BY <1>1, <1>7 DEF HandlerInv, ReleaseFreed
            <3>2. \A u \in handler[h].moved : Free(u)'
                BY <1>1, <1>3, <2>5, FreeStays DEF HandlerInv
            <3> QED BY <1>1, <1>2, <2>1, <2>3, <3>1, <3>2 DEF HandlerInv
        <2> QED BY <1>2, <2>1, <2>2, <2>4, <2>5, <2>6, HandlerQuiet
    <1> QED BY <1>4, <1>5, <1>6, <1>7

\* The lease index of the buffers keeps its type when buffers are claimed.
LEMMA UnbufferedType ==
    ASSUME SpaceType, NEW S
    PROVE  Unbuffered(S) \in [Tuple -> Context]
    BY StoreParts DEF Unbuffered, Context

\* The writes of a transaction that is ending, and what it took from others.
LEMMA ClaimedBuffer ==
    ASSUME SpaceType, NEW f \in {"uncommitted", "txn_taken"}, NEW x \in Txn, NEW S,
           store' = [store EXCEPT ![f][x] = {}, !.txn_lease_index = Unbuffered(S)]
    PROVE  /\ store' \in Stores /\ store'.tuples = store.tuples /\ store'.txn_self_taken = store.txn_self_taken
           /\ f = "uncommitted" => /\ store[f][x] = store.uncommitted[x] /\ store'.txn_taken = store.txn_taken
                                   /\ store'.uncommitted = [store.uncommitted EXCEPT ![x] = {}]
           /\ f = "txn_taken" => /\ store[f][x] = store.txn_taken[x] /\ store'.uncommitted = store.uncommitted
                                 /\ store'.txn_taken = [store.txn_taken EXCEPT ![x] = {}]
    <1>1. store \in Stores /\ Unbuffered(S) \in [Tuple -> Context]
        BY StoreParts, UnbufferedType
    <1>2. /\ [store.uncommitted EXCEPT ![x] = {}] \in Buffers
          /\ [store.txn_taken EXCEPT ![x] = {}] \in Buffers
        BY StoreParts DEF Buffers
    <1>3. CASE f = "uncommitted"
        <2>1. store' = [store EXCEPT !.uncommitted = [store.uncommitted EXCEPT ![x] = {}], !.txn_lease_index = Unbuffered(S)]
            BY <1>1, <1>3 DEF Stores
        <2> QED BY <1>1, <1>2, <1>3, <2>1 DEF Stores
    <1>4. CASE f = "txn_taken"
        <2>1. store' = [store EXCEPT !.txn_taken = [store.txn_taken EXCEPT ![x] = {}], !.txn_lease_index = Unbuffered(S)]
            BY <1>1, <1>4 DEF Stores
        <2> QED BY <1>1, <1>2, <1>4, <2>1 DEF Stores
    <1> QED BY <1>3, <1>4

\* A participant call has a transaction, which it was told to commit or abort.
LEMMA HandlerParts ==
    ASSUME SpaceInv, NEW h \in Handler, handler[h].pc # "idle"
    PROVE  /\ handler[h] \in Handlers /\ handler[h].txn \in Txn /\ handler[h].freed \subseteq Tuple
           /\ \A t \in handler[h].todo \cup handler[h].moved : t \in Tuple /\ Free(t)
           /\ handler[h].method # "abort" => txns[handler[h].txn].outcome = "commit"
    <1>1. HandlerInv(h) /\ handler[h] \in Handlers
        BY DEF SpaceInv, SpaceType
    <1> QED BY <1>1 DEF HandlerInv, Handlers, Context

\* What is kept is in the hands of the call that claimed it.
LEMMA ClaimKeptStep ==
    ASSUME SpaceInv, NEW h \in Handler, UNCHANGED <<coord, remover>>, ClaimKept(h)
    PROVE  SpaceInv'
    <1>1. SpaceType /\ StoreInv /\ HandlerInv(h) /\ handler[h].pc = "kept" /\ handler[h].todo = {}
        BY DEF SpaceInv, HandlerInv, ClaimKept
    <1>2. /\ handler[h] \in Handlers /\ handler[h].txn \in Txn
          /\ \A t \in handler[h].todo \cup handler[h].moved : t \in Tuple /\ Free(t)
          /\ handler[h].method # "abort" => txns[handler[h].txn].outcome = "commit"
        BY <1>1, HandlerParts
    <1>3. UNCHANGED <<client, txns, calls, history, lease, reclaims>> /\ history' \in Histories /\ Lasting
        BY <1>1 DEF coord, ClaimKept, leases, SpaceType, Lasting
    <1>4. PICK x \in Txn, f \in {"uncommitted", "txn_taken"} :
              x = handler[h].txn /\ f = Kept(h) /\ (f = "uncommitted" => handler[h].method # "abort")
        BY <1>2 DEF Kept
    <1>5. PICK S : /\ S = store[f][x] /\ store' = [store EXCEPT ![f][x] = {}, !.txn_lease_index = Unbuffered(S)]
                   /\ handler' = [handler EXCEPT ![h].todo = S, ![h].pc = "show"]
        BY <1>4 DEF ClaimKept
    <1>6. /\ store' \in Stores /\ store'.tuples = store.tuples /\ store'.txn_self_taken = store.txn_self_taken
          /\ f = "uncommitted" => /\ S = store.uncommitted[x] /\ store'.txn_taken = store.txn_taken
                                  /\ store'.uncommitted = [store.uncommitted EXCEPT ![x] = {}]
          /\ f = "txn_taken" => /\ S = store.txn_taken[x] /\ store'.uncommitted = store.uncommitted
                                /\ store'.txn_taken = [store.txn_taken EXCEPT ![x] = {}]
        BY <1>1, <1>5, ClaimedBuffer
    <1>7. S \subseteq Tuple /\ \A t \in S : Free(t)
        <2>1. CASE f = "uncommitted"
            <3>1. S = store.uncommitted[x] /\ txns[x].outcome = "commit"
                BY <1>2, <1>4, <1>6, <2>1
            <3>2. S \subseteq Tuple
                BY <1>1, <3>1, StoreParts DEF Buffers
            <3>3. \A t \in S : history.written[t] = x
                BY <1>1, <3>1 DEF StoreInv
            <3> QED BY <3>1, <3>2, <3>3 DEF Free
        <2>2. CASE f = "txn_taken"
            BY <1>1, <1>6, <2>2, StoreParts DEF StoreInv, Buffers
        <2> QED BY <2>1, <2>2
    <1> DEFINE r == [handler[h] EXCEPT !.todo = S, !.pc = "show"]
    <1>8. /\ r \in Handlers /\ r.pc = "show" /\ r.todo = S /\ r.moved = handler[h].moved
          /\ r.txn = handler[h].txn /\ r.method = handler[h].method
        BY <1>2, <1>7 DEF Handlers, HandlerSteps
    <1>9. handler' = [handler EXCEPT ![h] = r]
        BY <1>1, <1>5 DEF SpaceType
    <1> HIDE DEF r
    <1>10. handler'[h] = r /\ \A g \in Handler \ {h} : handler'[g] = handler[g]
        BY <1>1, <1>9 DEF SpaceType
    <1>11. HandlerInv(h)'
        <2>1. \A t \in S \cup handler[h].moved : Free(t)'
            BY <1>1, <1>2, <1>3, <1>7, FreeStays
        <2> QED BY <1>1, <1>3, <1>8, <1>10, <2>1 DEF HandlerInv
    <1>12. \A y \in Txn : /\ store'.uncommitted[y] = IF f = "uncommitted" /\ y = x THEN {} ELSE store.uncommitted[y]
                          /\ store'.txn_taken[y] = IF f = "txn_taken" /\ y = x THEN {} ELSE store.txn_taken[y]
        <2>1. CASE f = "uncommitted"
            BY <1>1, <1>6, <2>1, StoreParts DEF Buffers
        <2>2. CASE f = "txn_taken"
            BY <1>1, <1>6, <2>2, StoreParts DEF Buffers
        <2> QED BY <2>1, <2>2
    <1>13. StoreInv'
        <2>1. \A u \in Tuple : lease'[u] = "none" => history'.written[u] = Unwritten
            BY <1>1, <1>3 DEF StoreInv
        <2> QED BY <1>1, <1>3, <1>6, <1>12, <2>1, StoreMoves
    <1>14. \A u \in Tuple : \A d \in Client : Holds(d, u)' <=> Holds(d, u)
        BY <1>3 DEF Holds
    <1>15. ASSUME NEW u \in Tuple
           PROVE  HomeInv(u)'
        <2>0. HomeInv(u)
            BY DEF SpaceInv
        <2>1. CASE u \in S
            <3>1. At(u, <<f, x>>)
                BY <1>6, <2>1 DEF At
            <3>2. (\A p : At(u, p) => p = <<f, x>>) /\ history.written[u] # Unwritten /\ history.ended[u] = 0
                BY <2>0, <3>1, OnePlace
            <3>3. /\ u \notin store.tuples /\ \A g \in Handler : u \notin handler[g].todo
                  /\ \A y \in Txn : /\ u \in store.uncommitted[y] => f = "uncommitted" /\ y = x
                                    /\ u \in store.txn_taken[y] => f = "txn_taken" /\ y = x
                                    /\ u \notin store.txn_self_taken[y]
                  /\ \A d \in Client : ~Holds(d, u)
                BY <3>2 DEF At
            <3>4. \A y \in Txn : u \notin store'.uncommitted[y] /\ u \notin store'.txn_taken[y]
                BY <1>12, <3>3
            <3>5. \A g \in Handler : u \in handler'[g].todo <=> g = h
                BY <1>8, <1>10, <2>1, <3>3
            <3>6. \A p : At(u, p)' <=> p = <<"todo", h>>
                BY <1>6, <1>14, <3>3, <3>4, <3>5 DEF At
            <3> QED BY <1>3, <3>2, <3>6, HomeMoves
        <2>2. CASE u \notin S
            <3>1. \A y \in Txn : /\ u \in store'.uncommitted[y] <=> u \in store.uncommitted[y]
                                 /\ u \in store'.txn_taken[y] <=> u \in store.txn_taken[y]
                BY <1>6, <1>12, <2>2
            <3>2. \A g \in Handler : u \in handler'[g].todo <=> u \in handler[g].todo
                BY <1>1, <1>8, <1>10, <2>2
            <3>3. \A p : At(u, p)' <=> At(u, p)
                BY <1>6, <1>14, <3>1, <3>2 DEF At
            <3> QED BY <1>3, <2>0, <3>3, HomeStays
        <2> QED BY <2>1, <2>2
    <1>16. Isolation' /\ lease' \in [Tuple -> {"none", "standing", "gone"}] /\ reclaims' \subseteq Tuple
        BY <1>1, <1>3 DEF SpaceInv, SpaceType, Isolation
    <1> QED BY <1>3, <1>6, <1>8, <1>9, <1>11, <1>13, <1>15, <1>16, HandlerMove

\* What is not kept has left; so have own writes that were taken.
LEMMA ClaimGoneStep ==
    ASSUME SpaceInv, NEW h \in Handler, UNCHANGED <<coord, remover>>, ClaimGone(h) \/ ClaimSelf(h)
    PROVE  SpaceInv'
    <1>1. SpaceType /\ StoreInv /\ HandlerInv(h) /\ handler[h].pc # "idle" /\ handler[h].todo = {}
        BY DEF SpaceInv, HandlerInv, ClaimGone, ClaimSelf
    <1>2. /\ handler[h] \in Handlers /\ handler[h].txn \in Txn /\ handler[h].freed \subseteq Tuple
          /\ \A t \in handler[h].todo \cup handler[h].moved : t \in Tuple /\ Free(t)
        BY <1>1, HandlerParts
    <1>3. UNCHANGED <<client, txns, calls, lease, reclaims>>
        BY DEF coord, ClaimGone, ClaimSelf, leases
    <1>4. PICK x \in Txn : x = handler[h].txn
        BY <1>2
    <1>5. PICK S \in SUBSET Tuple :
              /\ history' = [history EXCEPT !.ended = Ended(S)]
              /\ store' \in Stores /\ store'.tuples = store.tuples
              /\ \A y \in Txn : /\ store'.uncommitted[y] \subseteq store.uncommitted[y]
                                /\ store'.txn_taken[y] \subseteq store.txn_taken[y]
                                /\ store'.txn_self_taken[y] \subseteq store.txn_self_taken[y]
              /\ \A u \in Tuple :
                    u \in S <=> \E y \in Txn : \/ u \in store.uncommitted[y] \ store'.uncommitted[y]
                                               \/ u \in store.txn_taken[y] \ store'.txn_taken[y]
                                               \/ u \in store.txn_self_taken[y] \ store'.txn_self_taken[y]
              /\ \E l \in {"claim_self", "kept", "unenlist"}, F \in {S, handler[h].freed \cup S} :
                    handler' = [handler EXCEPT ![h].freed = F, ![h].pc = l]
        <2>1. CASE ClaimGone(h)
            <3>1. PICK f \in {"uncommitted", "txn_taken"} : f = Gone(h)
                BY DEF Gone
            <3>2. PICK S : /\ S = store[f][x] /\ store' = [store EXCEPT ![f][x] = {}, !.txn_lease_index = Unbuffered(S)]
                           /\ handler' = [handler EXCEPT ![h].freed = S, ![h].pc = "claim_self"]
                           /\ history' = [history EXCEPT !.ended = Ended(S)]
                BY <1>4, <2>1, <3>1 DEF ClaimGone
            <3>3. /\ store' \in Stores /\ store'.tuples = store.tuples /\ store'.txn_self_taken = store.txn_self_taken
                  /\ f = "uncommitted" => /\ S = store.uncommitted[x] /\ store'.txn_taken = store.txn_taken
                                          /\ store'.uncommitted = [store.uncommitted EXCEPT ![x] = {}]
                  /\ f = "txn_taken" => /\ S = store.txn_taken[x] /\ store'.uncommitted = store.uncommitted
                                        /\ store'.txn_taken = [store.txn_taken EXCEPT ![x] = {}]
                BY <1>1, <3>2, ClaimedBuffer
            <3>4. S \subseteq Tuple
                <4>1. store.uncommitted[x] \subseteq Tuple /\ store.txn_taken[x] \subseteq Tuple
                    BY <1>1, StoreParts DEF Buffers
                <4> QED BY <3>3, <4>1
            <3>5. \A y \in Txn : /\ store'.uncommitted[y] = IF f = "uncommitted" /\ y = x THEN {} ELSE store.uncommitted[y]
                                 /\ store'.txn_taken[y] = IF f = "txn_taken" /\ y = x THEN {} ELSE store.txn_taken[y]
                <4>1. CASE f = "uncommitted"
                    BY <1>1, <3>3, <4>1, StoreParts DEF Buffers
                <4>2. CASE f = "txn_taken"
                    BY <1>1, <3>3, <4>2, StoreParts DEF Buffers
                <4> QED BY <4>1, <4>2
            <3>6. \A u \in Tuple :
                      u \in S <=> \E y \in Txn : \/ u \in store.uncommitted[y] \ store'.uncommitted[y]
                                                 \/ u \in store.txn_taken[y] \ store'.txn_taken[y]
                                                 \/ u \in store.txn_self_taken[y] \ store'.txn_self_taken[y]
                BY <3>3, <3>5
            <3>7. \A y \in Txn : /\ store'.uncommitted[y] \subseteq store.uncommitted[y]
                                 /\ store'.txn_taken[y] \subseteq store.txn_taken[y]
                                 /\ store'.txn_self_taken[y] \subseteq store.txn_self_taken[y]
                BY <3>3, <3>5
            <3>8. \E l \in {"claim_self", "kept", "unenlist"}, F \in {S, handler[h].freed \cup S} :
                      handler' = [handler EXCEPT ![h].freed = F, ![h].pc = l]
                BY <3>2
            <3>9. S \in SUBSET Tuple
                BY <3>4
            <3> QED BY <3>2, <3>3, <3>6, <3>7, <3>8, <3>9
        <2>2. CASE ClaimSelf(h)
            <3> DEFINE S == store.txn_self_taken[x]
                       b == [store.txn_self_taken EXCEPT ![x] = {}]
                       l == IF handler[h].method = "abort" THEN "kept" ELSE "unenlist"
            <3>1. b \in Buffers /\ b[x] = {} /\ (\A y \in Txn \ {x} : b[y] = store.txn_self_taken[y]) /\ S \subseteq Tuple
                BY <1>1, StoreParts DEF Buffers
            <3>2. store' = [store EXCEPT !.txn_self_taken = b, !.txn_lease_index = Unbuffered(S)]
                BY <1>4, <2>2 DEF ClaimSelf
            <3>3. /\ history' = [history EXCEPT !.ended = Ended(S)]
                  /\ handler' = [handler EXCEPT ![h].freed = handler[h].freed \cup S, ![h].pc = l]
                BY <1>4, <2>2 DEF ClaimSelf
            <3>4. l \in {"claim_self", "kept", "unenlist"}
                OBVIOUS
            <3> HIDE DEF b, l
            <3>5. /\ store' \in Stores /\ store'.tuples = store.tuples /\ store'.uncommitted = store.uncommitted
                  /\ store'.txn_taken = store.txn_taken /\ store'.txn_self_taken = b
                BY <1>1, <3>1, <3>2, StoreParts, UnbufferedType DEF Stores
            <3> QED BY <3>1, <3>3, <3>4, <3>5
        <2> QED BY <2>1, <2>2
    <1>6. PICK l \in {"claim_self", "kept", "unenlist"}, F \in SUBSET Tuple :
              handler' = [handler EXCEPT ![h].freed = F, ![h].pc = l]
        BY <1>2, <1>5
    <1> DEFINE r == [handler[h] EXCEPT !.freed = F, !.pc = l]
    <1>7. /\ r \in Handlers /\ r.pc = l /\ r.todo = handler[h].todo /\ r.moved = handler[h].moved
          /\ r.txn = handler[h].txn /\ r.method = handler[h].method
        BY <1>2 DEF Handlers, HandlerSteps
    <1>8. handler' = [handler EXCEPT ![h] = r]
        BY <1>1, <1>6 DEF SpaceType
    <1> HIDE DEF r
    <1>9. handler'[h] = r /\ \A g \in Handler : handler'[g].todo = handler[g].todo
        BY <1>1, <1>7, <1>8 DEF SpaceType
    <1>10. /\ history' \in Histories /\ Lasting /\ history'.written = history.written
           /\ Isolation' /\ StoreInv' /\ \A u \in Tuple : HomeInv(u)'
        BY <1>3, <1>5, <1>9, Leave
    <1>11. HandlerInv(h)'
        <2>1. \A t \in handler[h].todo \cup handler[h].moved : Free(t)'
            BY <1>1, <1>2, <1>10, FreeStays
        <2> QED BY <1>1, <1>3, <1>7, <1>9, <2>1 DEF HandlerInv
    <1> QED BY <1>1, <1>3, <1>5, <1>7, <1>8, <1>10, <1>11, HandlerMove DEF SpaceType

\* A kept tuple becomes visible.
LEMMA ShowStep ==
    ASSUME SpaceInv, NEW h \in Handler, NEW t \in Tuple, UNCHANGED <<coord, remover>>, Show(h, t)
    PROVE  SpaceInv'
    <1>1. SpaceType /\ StoreInv /\ HandlerInv(h) /\ handler[h].pc = "show" /\ t \in handler[h].todo
        BY DEF SpaceInv, Show
    <1>2. /\ handler[h] \in Handlers /\ Free(t)
          /\ \A u \in handler[h].todo \cup handler[h].moved : u \in Tuple /\ Free(u)
        BY <1>1, HandlerParts
    <1>3. UNCHANGED <<client, txns, calls, history, lease, reclaims>> /\ history' \in Histories /\ Lasting
        BY <1>1 DEF coord, Show, leases, SpaceType, Lasting
    <1>4. /\ store' \in Stores /\ store'.tuples = store.tuples \cup {t} /\ store'.uncommitted = store.uncommitted
          /\ store'.txn_taken = store.txn_taken /\ store'.txn_self_taken = store.txn_self_taken
        <2>1. store' = [store EXCEPT !.tuples = store.tuples \cup {t}] /\ store.tuples \cup {t} \in SUBSET Tuple
            BY <1>1, StoreParts DEF Show
        <2> QED BY <1>1, <2>1, StoreParts DEF Stores
    <1> DEFINE r == [handler[h] EXCEPT !.todo = handler[h].todo \ {t}, !.moved = handler[h].moved \cup {t},
                                       !.tuple = t, !.pc = "show_index"]
    <1>5. /\ r \in Handlers /\ r.pc = "show_index" /\ r.todo = handler[h].todo \ {t} /\ r.moved = handler[h].moved \cup {t}
          /\ r.txn = handler[h].txn /\ r.method = handler[h].method /\ r.tuple = t
        <2>1. handler[h].todo \ {t} \in SUBSET Tuple /\ handler[h].moved \cup {t} \in SUBSET Tuple
            BY <1>2
        <2> QED BY <1>2, <2>1 DEF Handlers, HandlerSteps
    <1>6. handler' = [handler EXCEPT ![h] = r]
        BY <1>1 DEF Show, SpaceType
    <1> HIDE DEF r
    <1>7. handler'[h] = r /\ \A g \in Handler \ {h} : handler'[g] = handler[g]
        BY <1>1, <1>6 DEF SpaceType
    <1>8. Free(t)' /\ \A u \in handler[h].todo \cup handler[h].moved : Free(u)'
        BY <1>1, <1>2, <1>3, FreeStays
    <1>9. HandlerInv(h)'
        BY <1>1, <1>3, <1>5, <1>7, <1>8 DEF HandlerInv
    <1>10. StoreInv'
        <2>1. \A u \in Tuple : lease'[u] = "none" => history'.written[u] = Unwritten
            BY <1>1, <1>3 DEF StoreInv
        <2> QED BY <1>1, <1>3, <1>4, <1>8, <2>1, StoreMoves
    <1>11. \A u \in Tuple : \A d \in Client : Holds(d, u)' <=> Holds(d, u)
        BY <1>3 DEF Holds
    <1>12. ASSUME NEW u \in Tuple
           PROVE  HomeInv(u)'
        <2>0. HomeInv(u)
            BY DEF SpaceInv
        <2>1. CASE u = t
            <3>1. At(t, <<"todo", h>>)
                BY <1>1 DEF At
            <3>2. (\A p : At(t, p) => p = <<"todo", h>>) /\ history.written[t] # Unwritten /\ history.ended[t] = 0
                BY <2>0, <2>1, <3>1, OnePlace
            <3>3. /\ \A g \in Handler \ {h} : t \notin handler[g].todo
                  /\ \A y \in Txn : t \notin store.uncommitted[y] /\ t \notin store.txn_taken[y] /\ t \notin store.txn_self_taken[y]
                  /\ \A d \in Client : ~Holds(d, t)
                BY <3>2 DEF At
            <3>4. \A g \in Handler : t \notin handler'[g].todo
                BY <1>5, <1>7, <3>3
            <3>5. \A p : At(t, p)' <=> p = <<"tuples", t>>
                BY <1>4, <1>11, <3>3, <3>4 DEF At
            <3> QED BY <1>3, <2>1, <3>2, <3>5, HomeMoves
        <2>2. CASE u # t
            <3>1. \A g \in Handler : u \in handler'[g].todo <=> u \in handler[g].todo
                BY <1>5, <1>7, <2>2
            <3>2. \A p : At(u, p)' <=> At(u, p)
                BY <1>4, <1>11, <2>2, <3>1 DEF At
            <3> QED BY <1>3, <2>0, <3>2, HomeStays
        <2> QED BY <2>1, <2>2
    <1>13. Isolation' /\ lease' \in [Tuple -> {"none", "standing", "gone"}] /\ reclaims' \subseteq Tuple
        BY <1>1, <1>3 DEF SpaceInv, SpaceType, Isolation
    <1> QED BY <1>3, <1>4, <1>5, <1>6, <1>9, <1>10, <1>12, <1>13, HandlerMove

\* The broadcast of what has become visible.
LEMMA AnnounceStep ==
    ASSUME SpaceInv, NEW h \in Handler, NEW t \in Tuple, UNCHANGED <<coord, remover>>, Announce(h, t)
    PROVE  SpaceInv'
    <1>1. /\ SpaceType /\ HandlerInv(h) /\ handler[h].pc = "release" /\ handler[h].todo = {} /\ t \in handler[h].moved
          /\ client \in [Client -> Clients]
        BY DEF SpaceInv, SpaceType, Announce, HandlerInv
    <1>2. handler[h] \in Handlers /\ Free(t) /\ \A u \in handler[h].moved : u \in Tuple /\ Free(u)
        BY <1>1, HandlerParts
    <1>3. UNCHANGED <<store, history, lease, reclaims, txns, calls>> /\ Send(t, client)
        BY DEF Announce, leases, coord
    <1>4. /\ client' \in [Client -> Clients]
          /\ \A d \in Client : /\ client'[d].pc = client[d].pc /\ client'[d].method = client[d].method
                               /\ client'[d].txn = client[d].txn /\ client'[d].tuple = client[d].tuple
                               /\ Heard(client'[d].inbox, client[d].inbox, t)
        BY <1>1, <1>3, SendFacts
    <1> DEFINE r == [handler[h] EXCEPT !.moved = handler[h].moved \ {t}]
    <1>5. /\ r \in Handlers /\ r.pc = "release" /\ r.todo = {} /\ r.moved = handler[h].moved \ {t}
          /\ r.txn = handler[h].txn /\ r.method = handler[h].method
        BY <1>1, <1>2 DEF Handlers
    <1>6. handler' = [handler EXCEPT ![h] = r]
        BY DEF Announce
    <1> HIDE DEF r
    <1>7. handler' \in [Handler -> Handlers] /\ handler'[h] = r /\ \A g \in Handler \ {h} : handler'[g] = handler[g]
        BY <1>1, <1>5, <1>6 DEF SpaceType
    <1>8. SamePlaces /\ Lasting /\ SpaceType' /\ CallsInv'
        BY <1>3, <1>4, <1>7 DEF SamePlaces, Lasting, SpaceInv, SpaceType, CallsInv
    <1>9. ASSUME NEW d \in Client
          PROVE  /\ ClientInv(d)' /\ (Writing(d)' <=> Writing(d)) /\ client'[d].tuple = client[d].tuple
                 /\ \A u \in Tuple : Holds(d, u)' <=> Holds(d, u)
        <2>1. ClientInv(d)
            BY DEF SpaceInv
        <2> QED BY <1>1, <1>2, <1>3, <1>4, <1>8, <2>1, HearStays
    <1>10. OneWriter'
        BY <1>9 DEF SpaceInv, OneWriter
    <1>11. ASSUME NEW g \in Handler
           PROVE  HandlerInv(g)' /\ handler'[g].todo = handler[g].todo
        <2>1. CASE g = h
            <3>1. \A u \in handler[h].moved : Free(u)'
                BY <1>1, <1>2, <1>8, FreeStays
            <3> QED BY <1>1, <1>3, <1>5, <1>7, <2>1, <3>1 DEF HandlerInv
        <2>2. CASE g # h
            BY <1>1, <1>7, <1>8, <2>2, HandlerStays DEF SpaceInv
        <2> QED BY <2>1, <2>2
    <1> QED BY <1>3, <1>8, <1>9, <1>10, <1>11, QuietStep

-----------------------------------------------------------------------------
(***************************************************************************)
(* Steps of the coordinator and of leases.                                 *)
(***************************************************************************)

\* The coordinator decides, and sends what it decided.
LEMMA DecideStep ==
    ASSUME SpaceInv, UNCHANGED <<store, leases, client, handler, remover, history>>,
           NEW x \in Txn, NEW o \in {"voting", "commit", "abort"}, txns[x].outcome # "commit",
           txns' = [txns EXCEPT ![x].outcome = o],
           \A k \in calls' : \/ k \in calls
                             \/ k[1] = x /\ k[2] \in Commits \cup {"prepare", "abort"} /\ (k[2] \in Commits => o = "commit")
    PROVE  SpaceInv'
    <1>1. SpaceType /\ CallsInv /\ txns \in [Txn -> Txns] /\ txns[x] \in Txns
        BY DEF SpaceInv, SpaceType
    <1> DEFINE r == [txns[x] EXCEPT !.outcome = o]
    <1>2. r \in Txns /\ r.outcome = o
        BY <1>1 DEF Txns
    <1>3. txns' = [txns EXCEPT ![x] = r]
        OBVIOUS
    <1> HIDE DEF r
    <1>4. txns' \in [Txn -> Txns] /\ txns'[x].outcome = o /\ \A y \in Txn \ {x} : txns'[y] = txns[y]
        BY <1>1, <1>2, <1>3
    <1>5. UNCHANGED <<lease, reclaims>>
        BY DEF leases
    <1>6. SpaceType'
        BY <1>1, <1>4, <1>5 DEF SpaceType
    <1>7. Lasting /\ SamePlaces
        BY <1>4, <1>5 DEF Lasting, SamePlaces
    <1>8. CallsInv'
        <2>1. \A k \in calls' : k[2] \in Commits => txns'[k[1]].outcome = "commit"
            <3>1. ASSUME NEW k \in calls', k[2] \in Commits
                  PROVE  txns'[k[1]].outcome = "commit"
                <4>1. CASE k \in calls
                    BY <1>1, <1>4, <3>1, <4>1 DEF CallsInv, SpaceType
                <4>2. CASE k \notin calls
                    BY <1>4, <3>1, <4>2
                <4> QED BY <4>1, <4>2
            <3> QED BY <3>1
        <2> QED BY <1>1, <2>1 DEF CallsInv
    <1> QED BY <1>5, <1>6, <1>7, <1>8, OthersQuiet

\* A participant call that was sent begins.
LEMMA ServeStep ==
    ASSUME SpaceInv, UNCHANGED <<store, leases, client, remover, history>>,
           NEW k \in calls, NEW h \in Handler, Serve(h, k)
    PROVE  SpaceInv'
    <1>1. /\ SpaceType /\ CallsInv /\ HandlerInv(h) /\ handler[h] \in Handlers /\ handler[h].pc = "idle"
          /\ k[2] # "prepare" /\ k[1] \in Txn /\ k[2] \in Commits \cup {"prepare", "abort"}
        BY DEF SpaceInv, SpaceType, Serve
    <1>2. /\ UNCHANGED <<lease, reclaims, txns>> /\ calls' \subseteq calls /\ handler[h].todo = {}
          /\ \A t \in handler[h].moved : t \in Tuple /\ Free(t)
        BY <1>1 DEF leases, Serve, HandlerInv, Handlers
    <1>3. Lasting /\ SamePlaces
        BY <1>2 DEF Lasting, SamePlaces
    <1>4. ASSUME NEW g \in Handler, handler'[g] = handler[g]
          PROVE  HandlerInv(g)' /\ handler'[g].todo = handler[g].todo
        BY <1>1, <1>3, <1>4, HandlerStays DEF SpaceInv
    <1>5. /\ handler' \in [Handler -> Handlers]
          /\ \A g \in Handler : HandlerInv(g)' /\ handler'[g].todo = handler[g].todo
        <2>1. CASE UNCHANGED handler
            BY <1>1, <1>4, <2>1 DEF SpaceType
        <2>2. CASE ~UNCHANGED handler
            <3> DEFINE l == IF k[2] = "abort" THEN "gone" ELSE "kept"
                       r == [handler[h] EXCEPT !.txn = k[1], !.method = k[2], !.pc = l]
            <3>1. l \in HandlerSteps /\ l \in {"gone", "kept"}
                BY DEF HandlerSteps
            <3>2. r \in Handlers /\ r.txn = k[1] /\ r.method = k[2] /\ r.pc = l /\ r.todo = {} /\ r.moved = handler[h].moved
                BY <1>1, <1>2, <3>1 DEF Handlers, Context
            <3>3. handler' = [handler EXCEPT ![h] = r]
                BY <1>1, <2>2 DEF Serve, SpaceType
            <3> HIDE DEF l, r
            <3>4. /\ handler' \in [Handler -> Handlers] /\ handler'[h] = r
                  /\ \A g \in Handler \ {h} : handler'[g] = handler[g]
                BY <1>1, <3>2, <3>3 DEF SpaceType
            <3>5. \A t \in handler[h].moved : Free(t)'
                BY <1>1, <1>2, <1>3, FreeStays
            <3>6. k[2] # "abort" => txns[k[1]].outcome = "commit"
                BY <1>1 DEF CallsInv
            <3>7. k[1] # NoTxn
                BY <1>1, SpaceAssumption
            <3>8. HandlerInv(h)' /\ handler'[h].todo = handler[h].todo
                BY <1>2, <3>1, <3>2, <3>4, <3>5, <3>6, <3>7 DEF HandlerInv
            <3> QED BY <1>4, <3>4, <3>8
        <2> QED BY <2>1, <2>2
    <1>6. SpaceType'
        BY <1>1, <1>2, <1>5 DEF SpaceType
    <1>7. CallsInv' /\ OneWriter'
        BY <1>1, <1>2 DEF SpaceInv, CallsInv, OneWriter, Writing
    <1>8. \A c \in Client : ClientInv(c)' /\ \A t \in Tuple : Holds(c, t)' <=> Holds(c, t)
        BY <1>3, ClientStays DEF SpaceInv, SamePlaces, Holds
    <1> QED BY <1>2, <1>3, <1>5, <1>6, <1>7, <1>8, QuietStep

\* The coordinator and its calls.
LEMMA CoordinateStep ==
    ASSUME SpaceInv, Coordinate
    PROVE  SpaceInv'
    <1>1. UNCHANGED <<store, leases, client, remover, history>> /\ SpaceType
        BY DEF Coordinate, SpaceInv
    <1>2. ASSUME NEW x \in Txn, TxnCommit(x) \/ TxnDecideCommit(x) \/ TxnAbort(x), UNCHANGED handler
          PROVE  SpaceInv'
        <2>1. PICK o \in {"voting", "commit", "abort"} :
                  /\ txns' = [txns EXCEPT ![x].outcome = o] /\ txns[x].outcome # "commit"
                  /\ \A k \in calls' : \/ k \in calls
                                       \/ /\ k[1] = x /\ k[2] \in Commits \cup {"prepare", "abort"}
                                          /\ k[2] \in Commits => o = "commit"
            <3> DEFINE Told(o) == \A k \in calls' : \/ k \in calls
                                                   \/ /\ k[1] = x /\ k[2] \in Commits \cup {"prepare", "abort"}
                                                      /\ k[2] \in Commits => o = "commit"
            <3>1. ASSUME NEW S, NEW m \in Commits \cup {"prepare", "abort"}, NEW o, m \in Commits => o = "commit",
                         calls' = calls \cup S, \A k \in S : \E i : k = <<x, m, i>>
                  PROVE  Told(o)
                <4>1. \A i : <<x, m, i>>[1] = x /\ <<x, m, i>>[2] = m
                    BY SMTT(30)
                <4> QED BY <3>1, <4>1
            <3> HIDE DEF Told
            <3>2. CASE TxnCommit(x)
                <4>1. CASE /\ txns' = [txns EXCEPT ![x].outcome = "commit"]
                           /\ calls' = calls \cup {<<x, "prepare_and_commit", i>> : i \in 1 .. txns[x].entries}
                    <5> DEFINE S == {<<x, "prepare_and_commit", i>> : i \in 1 .. txns[x].entries}
                    <5>1. calls' = calls \cup S /\ \A k \in S : \E i : k = <<x, "prepare_and_commit", i>>
                        BY <4>1
                    <5> HIDE DEF S
                    <5>2. Told("commit")
                        BY <3>1, <5>1 DEF Commits
                    <5> QED BY <3>2, <4>1, <5>2 DEF TxnCommit, Told
                <4>2. CASE /\ txns' = [txns EXCEPT ![x].outcome = "voting"]
                           /\ calls' = calls \cup {<<x, "prepare", i>> : i \in 1 .. txns[x].entries}
                    <5> DEFINE S == {<<x, "prepare", i>> : i \in 1 .. txns[x].entries}
                    <5>1. calls' = calls \cup S /\ \A k \in S : \E i : k = <<x, "prepare", i>>
                        BY <4>2
                    <5> HIDE DEF S
                    <5>2. Told("voting")
                        <6>1. "prepare" \in Commits \cup {"prepare", "abort"} /\ "prepare" \notin Commits
                            BY DEF Commits
                        <6> QED BY <3>1, <5>1, <6>1
                    <5> QED BY <3>2, <4>2, <5>2 DEF TxnCommit, Told
                <4> QED BY <3>2, <4>1, <4>2 DEF TxnCommit
            <3>3. CASE TxnDecideCommit(x)
                <4>1. Told("commit")
                    <5> DEFINE S == {<<x, "commit", v[2]>> : v \in {w \in votes : w[1] = x /\ w[3]}}
                    <5>1. calls' = calls \cup S /\ \A k \in S : \E i : k = <<x, "commit", i>>
                        BY <3>3 DEF TxnDecideCommit
                    <5> QED BY <3>1, <5>1 DEF Commits
                <4> QED BY <3>3, <4>1 DEF TxnDecideCommit, Told
            <3>4. CASE TxnAbort(x)
                <4>1. Told("abort")
                    <5> DEFINE S == {<<x, "abort", i>> : i \in 1 .. txns[x].entries}
                    <5>1. calls' = calls \cup S /\ \A k \in S : \E i : k = <<x, "abort", i>>
                        BY <3>4 DEF TxnAbort
                    <5> HIDE DEF S
                    <5>2. "abort" \in Commits \cup {"prepare", "abort"} /\ "abort" \notin Commits
                        BY DEF Commits
                    <5> QED BY <3>1, <5>1, <5>2
                <4> QED BY <3>4, <4>1 DEF TxnAbort, Told
            <3> QED BY <1>2, <3>2, <3>3, <3>4
        <2> QED BY <1>1, <1>2, <2>1, DecideStep
    <1>3. ASSUME NEW k \in calls, LoseCall(k) \/ Prepare(k), UNCHANGED handler
          PROVE  SpaceInv'
        <2>1. UNCHANGED <<txns, lease, reclaims>> /\ calls' \subseteq calls
            BY <1>1, <1>3 DEF LoseCall, Prepare, leases
        <2>2. SpaceType' /\ CallsInv' /\ Lasting /\ SamePlaces
            BY <1>1, <1>3, <2>1 DEF SpaceInv, SpaceType, CallsInv, Lasting, SamePlaces
        <2> QED BY <1>1, <1>3, <2>1, <2>2, OthersQuiet
    <1>4. ASSUME NEW k \in calls, NEW h \in Handler, Serve(h, k)
          PROVE  SpaceInv'
        BY <1>1, <1>4, ServeStep
    <1> QED BY <1>2, <1>3, <1>4 DEF Coordinate

\* A lease expires, or its reclaim is lost; the reclaim, or the sweep, starts
\* on_tuple_expired.
LEMMA LapseStep ==
    ASSUME SpaceInv, NEW t \in Tuple, Lapse(t)
    PROVE  SpaceInv'
    <1>1. UNCHANGED <<store, client, handler, remover, history, txns, calls>> /\ SpaceType
        BY DEF Lapse, SpaceInv, coord
    <1>2. /\ lease' \in [Tuple -> {"none", "standing", "gone"}] /\ reclaims' \subseteq Tuple
          /\ \A u \in Tuple : lease'[u] = "none" <=> lease[u] = "none"
        <2>1. CASE Expire(t)
            BY <1>1, <2>1, CancelFacts DEF Expire
        <2>2. CASE LoseReclaim(t)
            BY <1>1, <2>2 DEF LoseReclaim, SpaceType
        <2> QED BY <2>1, <2>2 DEF Lapse
    <1>3. SpaceType' /\ Lasting /\ SamePlaces /\ CallsInv'
        BY <1>1, <1>2 DEF SpaceInv, SpaceType, Lasting, SamePlaces, CallsInv
    <1> QED BY <1>1, <1>2, <1>3, OthersQuiet

\* A remover's step keeps what the others know.
LEMMA RemoverMove ==
    ASSUME SpaceInv, NEW r \in Remover, NEW k \in Removers, remover' = [remover EXCEPT ![r] = k],
           k.pc # "idle" => k.tuple \in Tuple, k.pc = "buffer" => k.txn # NoTxn,
           UNCHANGED <<client, handler, txns, calls, lease>>, reclaims' \subseteq Tuple,
           store' \in Stores, history' \in Histories
    PROVE  SpaceType' /\ CallsInv'
    <1>1. /\ remover' \in [Remover -> Removers] /\ remover'[r] = k
          /\ \A q \in Remover \ {r} : remover'[q] = remover[q]
        BY DEF SpaceInv, SpaceType
    <1>2. SpaceType'
        BY <1>1 DEF SpaceInv, SpaceType
    <1>3. CallsInv'
        BY <1>1 DEF SpaceInv, CallsInv
    <1> QED BY <1>2, <1>3

\* A cascade or a sweep starts on_tuple_expired, which has changed nothing yet.
LEMMA ReclaimStep ==
    ASSUME SpaceInv, NEW r \in Remover, Reclaim(r)
    PROVE  SpaceInv'
    <1>1. PICK t \in Tuple : Cascade(r, t) \/ Sweep(r, t)
        BY DEF Reclaim
    <1>2. /\ SpaceType /\ UNCHANGED <<store, lease, history, client, handler, txns, calls>> /\ reclaims' \subseteq Tuple
          /\ store' \in Stores /\ history' \in Histories
        BY <1>1, StoreParts DEF Reclaim, coord, Cascade, Sweep, leases, SpaceInv, SpaceType
    <1> DEFINE k == [remover[r] EXCEPT !.tuple = t, !.pc = "index"]
    <1>3. k \in Removers /\ k.pc = "index" /\ k.tuple = t
        BY <1>2 DEF SpaceType, Removers
    <1>4. remover' = [remover EXCEPT ![r] = k]
        BY <1>1 DEF Cascade, Sweep
    <1> HIDE DEF k
    <1>5. SpaceType' /\ CallsInv'
        BY <1>2, <1>3, <1>4, RemoverMove
    <1>6. Lasting /\ SamePlaces
        BY <1>2 DEF Lasting, SamePlaces
    <1> QED BY <1>2, <1>5, <1>6, OthersQuiet

\* A tuple that leaves with a remover's step.
LEMMA RemoverLeave ==
    ASSUME SpaceInv, SpaceType', CallsInv', UNCHANGED <<client, handler>>, Lasting, history'.written = history.written,
           Isolation', StoreInv', \A u \in Tuple : HomeInv(u)'
    PROVE  SpaceInv'
    <1>1. \A h \in Handler : HandlerInv(h)'
        BY HandlerStays DEF SpaceInv
    <1>2. \A d \in Client : ClientInv(d)'
        BY ClientStays DEF SpaceInv
    <1>3. OneWriter'
        BY DEF SpaceInv, OneWriter, Writing
    <1> QED BY <1>1, <1>2, <1>3 DEF SpaceInv

\* on_tuple_expired: through the index, the tuple, the buffers' index.
LEMMA ExpiringStep ==
    ASSUME SpaceInv, NEW r \in Remover, Expiring(r)
    PROVE  SpaceInv'
    <1>1. /\ SpaceType /\ CallsInv /\ remover[r] \in Removers /\ store \in Stores /\ history \in Histories
          /\ remover[r].pc # "idle" /\ remover[r].tuple \in Tuple
        BY StoreParts DEF SpaceInv, SpaceType, CallsInv, Expiring, RemoveIndex, RemoveTuple, RemoveTxnIndex, RemoveBuffered
    <1>2. UNCHANGED <<client, handler, txns, calls, lease, reclaims>> /\ reclaims' \subseteq Tuple
        BY <1>1 DEF Expiring, RemoveIndex, RemoveTuple, RemoveTxnIndex, RemoveBuffered, coord, leases, SpaceType
    <1>3. PICK t \in Tuple : t = remover[r].tuple
        BY <1>1
    <1>4. ASSUME NEW l \in {"tuple", "txn_index"}, RGoto(r, l)
          PROVE  \E k \in Removers : /\ remover' = [remover EXCEPT ![r] = k] /\ (k.pc # "idle" => k.tuple \in Tuple)
                                     /\ k.pc = "buffer" => k.txn # NoTxn
        <2> DEFINE k == [remover[r] EXCEPT !.pc = l]
        <2>1. k \in Removers /\ k.pc = l /\ k.tuple = remover[r].tuple
            BY <1>1 DEF Removers
        <2>2. remover' = [remover EXCEPT ![r] = k]
            BY <1>4 DEF RGoto
        <2> HIDE DEF k
        <2> QED BY <1>1, <2>1, <2>2
    <1>5. ASSUME Expired(r)
          PROVE  \E k \in Removers : /\ remover' = [remover EXCEPT ![r] = k] /\ (k.pc # "idle" => k.tuple \in Tuple)
                                     /\ k.pc = "buffer" => k.txn # NoTxn
        <2>1. IdleRemover \in Removers /\ IdleRemover.pc = "idle"
            BY DEF IdleRemover, Removers, Context
        <2> QED BY <1>5, <2>1 DEF Expired
    <1>6. ASSUME SpaceType', CallsInv', SamePlaces
          PROVE  SpaceInv'
        BY <1>2, <1>6, OthersQuiet DEF Lasting, SamePlaces
    <1>7. CASE RemoveIndex(r)
        <2> DEFINE i == store.lease_index \ {t}
                   l == IF t \in store.lease_index THEN "tuple" ELSE "txn_index"
        <2>1. i \in SUBSET Tuple /\ l \in {"tuple", "txn_index"}
            BY <1>1 DEF Stores
        <2>2. store' = [store EXCEPT !.lease_index = i] /\ RGoto(r, l) /\ history' = history
            BY <1>3, <1>7 DEF RemoveIndex
        <2> HIDE DEF i, l
        <2>3. store' \in Stores /\ SamePlaces
            BY <1>1, <2>1, <2>2 DEF Stores, SamePlaces
        <2>4. SpaceType' /\ CallsInv'
            BY <1>1, <1>2, <1>4, <2>1, <2>2, <2>3, RemoverMove
        <2> QED BY <1>6, <2>3, <2>4
    <1>8. CASE RemoveTxnIndex(r)
        <2> DEFINE i == [store.txn_lease_index EXCEPT ![t] = NoTxn]
        <2>1. i \in [Tuple -> Context]
            BY <1>1, StoreParts DEF Context
        <2>2. store' = [store EXCEPT !.txn_lease_index = i] /\ history' = history
            BY <1>3, <1>8 DEF RemoveTxnIndex
        <2> HIDE DEF i
        <2>3. store' \in Stores /\ SamePlaces
            BY <1>1, <2>1, <2>2 DEF Stores, SamePlaces
        <2>4. PICK x \in Context : x = store.txn_lease_index[t]
            BY <1>1, StoreParts
        <2>5. CASE x = NoTxn
            <3>1. Expired(r)
                BY <1>3, <1>8, <2>4, <2>5 DEF RemoveTxnIndex
            <3>2. SpaceType' /\ CallsInv'
                BY <1>1, <1>2, <1>5, <2>2, <2>3, <3>1, RemoverMove
            <3> QED BY <1>6, <2>3, <3>2
        <2>6. CASE x # NoTxn
            <3> DEFINE k == [remover[r] EXCEPT !.txn = x, !.pc = "buffer"]
            <3>1. k \in Removers /\ k.txn = x /\ k.tuple = remover[r].tuple
                BY <1>1 DEF Removers
            <3>2. remover' = [remover EXCEPT ![r] = k]
                BY <1>3, <1>8, <2>4, <2>6 DEF RemoveTxnIndex
            <3> HIDE DEF k
            <3>3. SpaceType' /\ CallsInv'
                BY <1>1, <1>2, <2>2, <2>3, <2>6, <3>1, <3>2, RemoverMove
            <3> QED BY <1>6, <2>3, <3>3
        <2> QED BY <2>5, <2>6
    <1>9. CASE RemoveTuple(r)
        <2> DEFINE s == store.tuples \ {t}
        <2>1. s \in SUBSET Tuple
            BY <1>1, StoreParts
        <2>2. store' = [store EXCEPT !.tuples = s] /\ history' = [history EXCEPT !.ended = Ended(store.tuples \cap {t})]
            BY <1>3, <1>9 DEF RemoveTuple
        <2>3. store' \in Stores /\ store'.tuples = s
              /\ store'.uncommitted = store.uncommitted /\ store'.txn_taken = store.txn_taken
              /\ store'.txn_self_taken = store.txn_self_taken
            <3> HIDE DEF s
            <3> QED BY <1>1, <2>1, <2>2 DEF Stores
        <2>4. PICK S : S = store.tuples \cap {t}
            OBVIOUS
        <2>5. /\ history' \in Histories /\ Lasting /\ history'.written = history.written
              /\ Isolation' /\ StoreInv' /\ \A u \in Tuple : HomeInv(u)'
            BY <1>2, <2>2, <2>3, <2>4, Leave
        <2>6. RGoto(r, "txn_index") \/ Expired(r)
            BY <1>3, <1>9 DEF RemoveTuple
        <2>7. SpaceType' /\ CallsInv'
            BY <1>1, <1>2, <1>4, <1>5, <2>3, <2>5, <2>6, RemoverMove
        <2> QED BY <1>2, <2>5, <2>7, RemoverLeave
    <1>10. CASE RemoveBuffered(r)
        <2>1. PICK x \in Txn : x = remover[r].txn
            BY <1>1, <1>10 DEF CallsInv, RemoveBuffered, Removers, Context
        <2> DEFINE u1 == [store.uncommitted EXCEPT ![x] = @ \ {t}]
                   u2 == [store.txn_taken EXCEPT ![x] = @ \ {t}]
                   u3 == [store.txn_self_taken EXCEPT ![x] = @ \ {t}]
        <2>2. /\ u1 \in Buffers /\ \A y \in Txn : u1[y] = IF y = x THEN store.uncommitted[y] \ {t} ELSE store.uncommitted[y]
              /\ u2 \in Buffers /\ \A y \in Txn : u2[y] = IF y = x THEN store.txn_taken[y] \ {t} ELSE store.txn_taken[y]
              /\ u3 \in Buffers /\ \A y \in Txn : u3[y] = IF y = x THEN store.txn_self_taken[y] \ {t} ELSE store.txn_self_taken[y]
            <3>1. ASSUME NEW b \in Buffers
                  PROVE  /\ [b EXCEPT ![x] = @ \ {t}] \in Buffers
                         /\ \A y \in Txn : [b EXCEPT ![x] = @ \ {t}][y] = IF y = x THEN b[y] \ {t} ELSE b[y]
                BY DEF Buffers
            <3> QED BY <1>1, <3>1, StoreParts
        <2>3. store' = [store EXCEPT !.uncommitted = u1, !.txn_taken = u2, !.txn_self_taken = u3]
            BY <1>1, <1>3, <1>10, <2>1 DEF RemoveBuffered, Stores
        <2>4. PICK S : S = Buffered(x) \cap {t}
            OBVIOUS
        <2>5. history' = [history EXCEPT !.ended = Ended(S)] /\ Expired(r)
            BY <1>3, <1>10, <2>1, <2>4 DEF RemoveBuffered
        <2> HIDE DEF u1, u2, u3
        <2>6. /\ store' \in Stores /\ store'.tuples = store.tuples
              /\ store'.uncommitted = u1 /\ store'.txn_taken = u2 /\ store'.txn_self_taken = u3
            BY <1>1, <2>2, <2>3 DEF Stores
        <2>7. \A y \in Txn : /\ store'.uncommitted[y] \subseteq store.uncommitted[y]
                             /\ store'.txn_taken[y] \subseteq store.txn_taken[y]
                             /\ store'.txn_self_taken[y] \subseteq store.txn_self_taken[y]
            BY <2>2, <2>6
        <2>8. \A u \in Tuple :
                  u \in S <=> \E y \in Txn : \/ u \in store.uncommitted[y] \ store'.uncommitted[y]
                                             \/ u \in store.txn_taken[y] \ store'.txn_taken[y]
                                             \/ u \in store.txn_self_taken[y] \ store'.txn_self_taken[y]
            BY <2>2, <2>4, <2>6 DEF Buffered
        <2>9. /\ history' \in Histories /\ Lasting /\ history'.written = history.written
              /\ Isolation' /\ StoreInv' /\ \A u \in Tuple : HomeInv(u)'
            BY <1>2, <2>5, <2>6, <2>7, <2>8, Leave
        <2>10. SpaceType' /\ CallsInv'
            BY <1>1, <1>2, <1>5, <2>5, <2>6, <2>9, RemoverMove
        <2> QED BY <1>2, <2>9, <2>10, RemoverLeave
    <1> QED BY <1>7, <1>8, <1>9, <1>10 DEF Expiring

-----------------------------------------------------------------------------
(***************************************************************************)
(* The theorems.                                                           *)
(***************************************************************************)

\* The Space starts empty.
LEMMA SpaceBoot ==
    ASSUME Init
    PROVE  SpaceInv
    <1>1. IdleHandler \in Handlers /\ IdleHandler.pc = "idle" /\ IdleHandler.todo = {} /\ IdleHandler.moved = {}
        BY DEF IdleHandler, Handlers, HandlerSteps, Context
    <1>2. IdleRemover \in Removers /\ IdleRemover.pc = "idle"
        BY DEF IdleRemover, Removers, Context
    <1>3. /\ store.tuples = {} /\ store.lease_index = {} /\ store.uncommitted = [x \in Txn |-> {}]
          /\ store.txn_taken = [x \in Txn |-> {}] /\ store.txn_self_taken = [x \in Txn |-> {}]
          /\ history.written = [t \in Tuple |-> Unwritten] /\ history.ended = [t \in Tuple |-> 0] /\ history.leaked = {}
        BY DEF Init
    <1>4. SpaceType
        <2>1. store \in Stores
            BY DEF Init, Stores, Buffers, Context
        <2>2. txns \in [Txn -> Txns] /\ history \in Histories
            BY SMTT(30) DEF Init, Txns, Histories
        <2> QED BY <1>1, <1>2, <2>1, <2>2, IdleFacts DEF Init, SpaceType
    <1>5. \A c \in Client : ClientInv(c) /\ ~Writing(c) /\ \A t \in Tuple : ~Holds(c, t)
        <2>1. \A c \in Client : client[c] = IdleClient
            BY DEF Init
        <2> QED BY <2>1, IdleFacts DEF ClientInv, Writing, Holds
    <1>6. \A h \in Handler : HandlerInv(h) /\ handler[h].todo = {}
        BY <1>1 DEF Init, HandlerInv
    <1>7. CallsInv /\ OneWriter /\ StoreInv /\ Isolation
        BY <1>2, <1>3, <1>5 DEF Init, CallsInv, OneWriter, StoreInv, Isolation
    <1>8. ASSUME NEW t \in Tuple
          PROVE  HomeInv(t)
        <2>1. \A p : ~At(t, p)
            BY <1>3, <1>5, <1>6 DEF At
        <2> QED BY <1>3, <2>1, PlacesAt DEF HomeInv
    <1> QED BY <1>4, <1>5, <1>6, <1>7, <1>8 DEF SpaceInv

\* Every step keeps the invariant.
LEMMA SpaceStep ==
    ASSUME SpaceInv, [Next]_vars
    PROVE  SpaceInv'
    <1>1. ASSUME NEW c \in Client, Begin(c)
          PROVE  SpaceInv'
        <2>1. UNCHANGED <<handler, remover>>
            BY <1>1 DEF Begin
        <2>2. PICK a \in Asks[c] : \/ a[1] = "write" /\ \E t \in Tuple : Write(c, t, a[2])
                                   \/ a[1] \in {"read", "take"} /\ Seek(c, a[1], a[2])
                                   \/ a = <<"cancel", NoTxn>> /\ \E t \in Tuple : Cancel(c, t)
            BY <1>1 DEF Begin
        <2>3. a[2] \in Context
            BY SpaceAssumption, SMTT(30)
        <2> QED BY <2>1, <2>2, <2>3, WriteStep, SeekStep, TakeSteps
    <1>2. ASSUME NEW c \in Client, Continue(c)
          PROVE  SpaceInv'
        <2>1. UNCHANGED <<handler, remover>>
            BY <1>2 DEF Continue
        <2>2. CASE NoMatch(c)
            BY <2>1, <2>2, EndSteps, SearchSteps DEF NoMatch
        <2>3. CASE CheckEnlisted(c) \/ Enlist(c) \/ MarkEnlisted(c) \/ IndexInTxn(c) \/ InsertIndex(c) \/ Unindex(c)
            BY <2>1, <2>3, EnlistSteps, IndexSteps
        <2>4. CASE BufferPush(c) \/ Insert(c) \/ InsertSend(c) \/ Release(c) \/ TrackHold(c)
            BY <2>1, <2>4, BufferPushStep, InsertStep, InsertSendStep, ReleaseStep, TrackHoldStep
        <2>5. CASE LookFurther(c) \/ Wake(c) \/ WakeLagged(c)
            BY <2>1, <2>5, SearchSteps, WakeStep
        <2>6. ASSUME NEW t \in Tuple, ReadMatch(c, t) \/ TakeOwn(c, t) \/ TakeCommitted(c, t)
              PROVE  SpaceInv'
            BY <2>1, <2>6, EndSteps, TakeOwnStep, TakeSteps
        <2> QED BY <1>2, <2>2, <2>3, <2>4, <2>5, <2>6 DEF Continue
    <1>3. ASSUME NEW c \in Client, Stop(c)
          PROVE  SpaceInv'
        BY <1>3, EnlistSteps, EndSteps DEF Stop
    <1>4. ASSUME NEW h \in Handler, Participate(h)
          PROVE  SpaceInv'
        <2>1. UNCHANGED <<coord, remover>>
            BY <1>4 DEF Participate
        <2>2. CASE ClaimKept(h) \/ ClaimGone(h) \/ ClaimSelf(h)
            BY <2>1, <2>2, ClaimKeptStep, ClaimGoneStep
        <2>3. CASE ShowIndex(h) \/ Unenlist(h) \/ Served(h)
            BY <2>1, <2>3, ServeSteps
        <2>4. ASSUME NEW t \in Tuple, Show(h, t) \/ ReleaseFreed(h, t) \/ Announce(h, t)
              PROVE  SpaceInv'
            BY <2>1, <2>4, ShowStep, ServeSteps, AnnounceStep
        <2> QED BY <1>4, <2>2, <2>3, <2>4 DEF Participate
    <1>5. CASE UNCHANGED vars
        <2>1. UNCHANGED <<store, lease, reclaims, txns, calls, client, handler, remover, history>>
            BY <1>5 DEF vars, leases, coord
        <2>2. SpaceType' /\ CallsInv' /\ Lasting /\ SamePlaces
            BY <2>1 DEF SpaceInv, SpaceType, CallsInv, Lasting, SamePlaces
        <2> QED BY <2>1, <2>2, OthersQuiet
    <1> QED BY <1>1, <1>2, <1>3, <1>4, <1>5, CoordinateStep, LapseStep, ReclaimStep, ExpiringStep DEF Next

\* The invariant of the Space holds, whatever clients, participant calls,
\* expiry tasks and the coordinator do between the store's steps.
THEOREM SpaceSafety == Spec => []SpaceInv
    <1>1. Init => SpaceInv
        BY SpaceBoot
    <1>2. SpaceInv /\ [Next]_vars => SpaceInv'
        BY SpaceStep
    <1> QED BY <1>1, <1>2, PTL DEF Spec

\* A read or a take never returns, to another context, a tuple whose
\* transaction has not committed: neither from the store, nor from a buffer,
\* nor from the broadcast.
THEOREM IsolationHolds == Spec => []Isolation
    <1>1. SpaceInv => Isolation
        BY DEF SpaceInv
    <1> QED BY <1>1, SpaceSafety, PTL

\* A tuple that was written is in exactly one place until it leaves, once:
\* write, take, cancel, commit_space_txn, abort_space_txn and
\* on_tuple_expired neither lose nor duplicate it.
THEOREM ConservationHolds == Spec => []Conservation
    <1>1. SpaceInv => Conservation
        <2>1. ASSUME SpaceInv, NEW t \in Tuple
              PROVE  Cardinality(Places(t)) + history.ended[t] = (IF history.written[t] = Unwritten THEN 0 ELSE 1)
            <3>1. HomeInv(t)
                BY <2>1 DEF SpaceInv
            <3>2. Places(t) = {} => Cardinality(Places(t)) = 0
                BY FS_EmptySet
            <3>3. (\E p \in Places(t) : Places(t) = {p}) => Cardinality(Places(t)) = 1
                BY FS_Singleton
            <3>4. \/ history.written[t] = Unwritten /\ history.ended[t] = 0 /\ Cardinality(Places(t)) = 0
                  \/ history.written[t] # Unwritten /\ history.ended[t] = 1 /\ Cardinality(Places(t)) = 0
                  \/ history.written[t] # Unwritten /\ history.ended[t] = 0 /\ Cardinality(Places(t)) = 1
                BY <3>1, <3>2, <3>3 DEF HomeInv
            <3> QED BY <3>4, SMTT(30)
        <2> QED BY <2>1 DEF Conservation
    <1> QED BY <1>1, SpaceSafety, PTL
-----------------------------------------------------------------------------
(***************************************************************************)
(* The lease index: every visible tuple can be found by its lease.         *)
(***************************************************************************)

\* The tuple is in the lease index, or a write, a commit or an abort is about
\* to put it there, or on_tuple_expired has it and is about to remove it.
Findable(t) ==
    \/ t \in store.lease_index
    \/ \E c \in Client : client[c].pc = "index" /\ client[c].tuple = t
    \/ \E h \in Handler : handler[h].pc = "show_index" /\ handler[h].tuple = t
    \/ \E r \in Remover : remover[r].pc = "tuple" /\ remover[r].tuple = t

\* A call that unindexes a tuple outside a transaction has ended it.
UnindexInv == \A c \in Client : client[c].pc = "unindex" /\ client[c].txn = NoTxn => history.ended[client[c].tuple] # 0

IndexInv == (\A t \in store.tuples : Findable(t)) /\ UnindexInv

\* A tuple that has ended stays so.
EndedStays == \A t \in Tuple : history.ended[t] # 0 => history'.ended[t] # 0

\* The call keeps its step and its tuple.
SameCall(c) == client'[c].pc = client[c].pc /\ client'[c].txn = client[c].txn /\ client'[c].tuple = client[c].tuple

\* The visible tuples and their index are as they were.
SameIndex == store'.tuples = store.tuples /\ store'.lease_index = store.lease_index

\* A tuple that has ended, or that a take has in hand, is not visible.
LEMMA NotVisible ==
    ASSUME SpaceInv, IndexInv, NEW c \in Client, client[c].pc = "unindex"
    PROVE  client[c].tuple \in Tuple /\ client[c].tuple \notin store.tuples
    <1>1. PICK t \in Tuple : t = client[c].tuple
        BY DEF SpaceInv, ClientInv
    <1>2. HomeInv(t)
        BY DEF SpaceInv
    <1>3. SUFFICES ASSUME t \in store.tuples PROVE FALSE
        BY <1>1
    <1>4. At(t, <<"tuples", t>>)
        BY <1>3 DEF At
    <1>5. history.ended[t] = 0 /\ \A p : At(t, p) => p = <<"tuples", t>>
        BY <1>2, <1>4, OnePlace
    <1>6. client[c].txn # NoTxn
        BY <1>1, <1>5 DEF IndexInv, UnindexInv
    <1>7. At(t, <<"taking", c>>)
        BY <1>1, <1>6 DEF At, Holds
    <1>8. <<"taking", c>> = <<"tuples", t>>
        BY <1>5, <1>7
    <1> QED BY <1>8, SMTT(30)

\* No step of the history takes an end back.
LEMMA EndsLast ==
    ASSUME SpaceType,
           \/ history' = history
           \/ \E t \in Tuple, x \in Context : history' = [history EXCEPT !.written[t] = x]
           \/ \E t \in Tuple : history' = [history EXCEPT !.leaked = @ \cup {t}]
           \/ \E S : history' = [history EXCEPT !.ended = Ended(S)]
    PROVE  EndedStays
    <1>1. history \in Histories /\ \A u \in Tuple : history.ended[u] \in Nat
        BY StoreParts
    <1>2. CASE history' = history
        BY <1>2 DEF EndedStays
    <1>3. ASSUME NEW t \in Tuple, NEW x \in Context, history' = [history EXCEPT !.written[t] = x]
          PROVE  EndedStays
        BY <1>1, <1>3 DEF EndedStays, Histories
    <1>4. ASSUME NEW t \in Tuple, history' = [history EXCEPT !.leaked = @ \cup {t}]
          PROVE  EndedStays
        BY <1>1, <1>4 DEF EndedStays, Histories
    <1>5. ASSUME NEW S, history' = [history EXCEPT !.ended = Ended(S)]
          PROVE  EndedStays
        <2>1. history'.ended = Ended(S)
            BY <1>1, <1>5 DEF Histories
        <2>2. \A u \in Tuple : Ended(S)[u] = history.ended[u] + 1 \/ Ended(S)[u] = history.ended[u]
            BY DEF Ended
        <2>3. \A u \in Tuple : history.ended[u] + 1 # 0
            BY <1>1, SMTT(30)
        <2> QED BY <2>1, <2>2, <2>3 DEF EndedStays
    <1> QED BY <1>2, <1>3, <1>4, <1>5

\* A result changes no end.
LEMMA ResultEnds ==
    ASSUME SpaceType, NEW c \in Client, NEW t \in Tuple, Result(c, t)
    PROVE  EndedStays
    BY EndsLast DEF Result

\* A step of a call that leaves no index entry behind.
LEMMA IndexCall ==
    ASSUME SpaceInv, IndexInv, NEW c \in Client, UNCHANGED <<handler, remover>>, EndedStays,
           store'.tuples \subseteq store.tuples, store.lease_index \subseteq store'.lease_index,
           \A d \in Client \ {c} : SameCall(d),
           client[c].pc = "index" => client[c].tuple \in store'.lease_index,
           client'[c].pc = "unindex" /\ client'[c].txn = NoTxn => history'.ended[client'[c].tuple] # 0
    PROVE  IndexInv'
    <1>1. UnindexInv'
        <2>1. SUFFICES ASSUME NEW d \in Client \ {c}, client'[d].pc = "unindex", client'[d].txn = NoTxn
                       PROVE  history'.ended[client'[d].tuple] # 0
            BY DEF UnindexInv
        <2>2. client[d].pc = "unindex" /\ client[d].txn = NoTxn /\ client'[d].tuple = client[d].tuple
            BY <2>1 DEF SameCall
        <2>3. client[d].tuple \in Tuple /\ history.ended[client[d].tuple] # 0
            BY <2>2 DEF SpaceInv, ClientInv, IndexInv, UnindexInv
        <2> QED BY <2>2, <2>3 DEF EndedStays
    <1>2. ASSUME NEW t \in store'.tuples
          PROVE  Findable(t)'
        <2>1. Findable(t)
            BY DEF IndexInv
        <2>2. ASSUME NEW d \in Client, client[d].pc = "index", client[d].tuple = t
              PROVE  Findable(t)'
            BY <2>2 DEF Findable, SameCall
        <2> QED BY <2>1, <2>2 DEF Findable
    <1> QED BY <1>1, <1>2 DEF IndexInv

\* A step of a participant call, of a remover or of the coordinator.
LEMMA IndexTask ==
    ASSUME SpaceInv, IndexInv, EndedStays, \A d \in Client : SameCall(d),
           store'.tuples \subseteq store.tuples, store.lease_index \subseteq store'.lease_index,
           \A h \in Handler : handler[h].pc = "show_index" =>
                                  handler'[h] = handler[h] \/ handler[h].tuple \in store'.lease_index,
           \A r \in Remover : remover[r].pc = "tuple" =>
                                  remover'[r] = remover[r] \/ remover[r].tuple \notin store'.tuples
    PROVE  IndexInv'
    <1>1. UnindexInv'
        <2>1. SUFFICES ASSUME NEW d \in Client, client'[d].pc = "unindex", client'[d].txn = NoTxn
                       PROVE  history'.ended[client'[d].tuple] # 0
            BY DEF UnindexInv
        <2>2. client[d].pc = "unindex" /\ client[d].txn = NoTxn /\ client'[d].tuple = client[d].tuple
            BY <2>1 DEF SameCall
        <2>3. client[d].tuple \in Tuple /\ history.ended[client[d].tuple] # 0
            BY <2>2 DEF SpaceInv, ClientInv, IndexInv, UnindexInv
        <2> QED BY <2>2, <2>3 DEF EndedStays
    <1>2. ASSUME NEW t \in store'.tuples
          PROVE  Findable(t)'
        <2>1. Findable(t)
            BY DEF IndexInv
        <2>2. ASSUME NEW d \in Client, client[d].pc = "index", client[d].tuple = t
              PROVE  Findable(t)'
            BY <2>2 DEF Findable, SameCall
        <2>3. ASSUME NEW h \in Handler, handler[h].pc = "show_index", handler[h].tuple = t
              PROVE  Findable(t)'
            BY <2>3 DEF Findable
        <2>4. ASSUME NEW r \in Remover, remover[r].pc = "tuple", remover[r].tuple = t
              PROVE  Findable(t)'
            BY <2>4 DEF Findable
        <2> QED BY <2>1, <2>2, <2>3, <2>4 DEF Findable
    <1> QED BY <1>1, <1>2 DEF IndexInv

\* A step of a call that has nothing to do with the index.
LEMMA IndexAside ==
    ASSUME SpaceInv, IndexInv, NEW c \in Client, UNCHANGED <<handler, remover>>, EndedStays, SameIndex,
           client[c].pc # "index", client'[c].pc # "unindex", \A d \in Client \ {c} : client'[d] = client[d]
    PROVE  IndexInv'
    <1>1. store'.tuples \subseteq store.tuples /\ store.lease_index \subseteq store'.lease_index
        BY DEF SameIndex
    <1>2. \A d \in Client \ {c} : SameCall(d)
        BY DEF SameCall
    <1> QED BY <1>1, <1>2, IndexCall

\* A call begins, or searches: write, read and take up to a match, enlisting
\* on the way, and every return.
LEMMA IndexSearch ==
    ASSUME SpaceInv, IndexInv, NEW c \in Client, UNCHANGED <<handler, remover>>,
           \/ \E t \in Tuple, x \in Context : Write(c, t, x)
           \/ \E m \in {"read", "take"}, x \in Context : Seek(c, m, x)
           \/ CheckEnlisted(c) \/ Enlist(c) \/ EnlistUnanswered(c) \/ MarkEnlisted(c) \/ LookFurther(c) \/ NoMatch(c)
           \/ Wake(c) \/ WakeLagged(c) \/ GiveUp(c) \/ Release(c)
           \/ \E t \in Tuple : ReadMatch(c, t)
    PROVE  IndexInv'
    <1>1. SpaceType /\ client \in [Client -> Clients] /\ client[c] \in Clients
        BY DEF SpaceInv, SpaceType
    <1>2. ASSUME UNCHANGED <<store, history>>, client[c].pc # "index",
                 NEW k, client' = [client EXCEPT ![c] = k], k.pc # "unindex"
          PROVE  IndexInv'
        <2>1. EndedStays /\ SameIndex
            BY <1>2 DEF EndedStays, SameIndex
        <2>2. client'[c].pc # "unindex" /\ \A d \in Client \ {c} : client'[d] = client[d]
            BY <1>1, <1>2
        <2> QED BY <1>2, <2>1, <2>2, IndexAside
    <1>3. ASSUME store' = store, EndedStays, client[c].pc # "index", Return(c)
          PROVE  IndexInv'
        <2>1. client'[c].pc # "unindex" /\ \A d \in Client \ {c} : client'[d] = client[d]
            BY <1>1, <1>3, IdleFacts DEF Return
        <2> QED BY <1>3, <2>1, IndexAside DEF SameIndex
    <1>4. ASSUME UNCHANGED <<store, history>>, client[c].pc # "index", NEW l \in ClientSteps \ {"unindex"}, Goto(c, l)
          PROVE  IndexInv'
        <2>1. client'[c].pc # "unindex" /\ \A d \in Client \ {c} : client'[d] = client[d]
            BY <1>1, <1>4, GotoFacts
        <2>2. EndedStays /\ SameIndex
            BY <1>4 DEF EndedStays, SameIndex
        <2> QED BY <1>4, <2>1, <2>2, IndexAside
    <1>5. ASSUME history' = history
          PROVE  EndedStays
        BY <1>5 DEF EndedStays
    <1>6. FirstPlace(c) \in ClientSteps \ {"unindex"} /\ AfterEnlist(c) \in ClientSteps \ {"unindex"}
        BY DEF FirstPlace, AfterEnlist, ClientSteps
    <1>7. ASSUME NEW t \in Tuple, NEW x \in Context, Write(c, t, x)
          PROVE  IndexInv'
        <2> DEFINE k == [client[c] EXCEPT !.method = "write", !.txn = x, !.tuple = t,
                                          !.pc = IF x = NoTxn THEN "insert" ELSE "check"]
        <2>1. k.pc # "unindex"
            BY <1>1 DEF Clients
        <2>2. client' = [client EXCEPT ![c] = k] /\ UNCHANGED <<store, history>> /\ client[c].pc # "index"
            BY <1>7 DEF Write
        <2> HIDE DEF k
        <2> QED BY <1>2, <2>1, <2>2
    <1>8. ASSUME NEW m \in {"read", "take"}, NEW x \in Context, Seek(c, m, x)
          PROVE  IndexInv'
        <2> DEFINE k == [client[c] EXCEPT !.method = m, !.txn = x,
                                          !.pc = IF m = "take" /\ x # NoTxn THEN "check" ELSE "scan"]
        <2>1. k.pc # "unindex"
            BY <1>1 DEF Clients
        <2>2. client' = [client EXCEPT ![c] = k] /\ UNCHANGED <<store, history>> /\ client[c].pc # "index"
            BY <1>8 DEF Seek
        <2> HIDE DEF k
        <2> QED BY <1>2, <2>1, <2>2
    <1>9. CASE CheckEnlisted(c)
        <2> DEFINE l == IF client[c].txn \in enlisted THEN AfterEnlist(c) ELSE "enlist"
        <2>1. l \in ClientSteps \ {"unindex"}
            BY <1>6 DEF ClientSteps
        <2>2. Goto(c, l) /\ UNCHANGED <<store, history>> /\ client[c].pc # "index"
            BY <1>9 DEF CheckEnlisted
        <2> HIDE DEF l
        <2> QED BY <1>4, <2>1, <2>2
    <1>10. CASE Enlist(c)
        <2>1. (Goto(c, "mark") \/ Return(c)) /\ UNCHANGED <<store, history>> /\ client[c].pc # "index"
            BY <1>10 DEF Enlist
        <2>2. "mark" \in ClientSteps \ {"unindex"}
            BY DEF ClientSteps
        <2> QED BY <1>3, <1>4, <1>5, <2>1, <2>2
    <1>11. CASE EnlistUnanswered(c) \/ GiveUp(c)
        <2>1. Return(c) /\ UNCHANGED <<store, history>> /\ client[c].pc # "index"
            BY <1>11 DEF EnlistUnanswered, GiveUp
        <2> QED BY <1>3, <1>5, <2>1
    <1>12. CASE MarkEnlisted(c)
        <2>1. Goto(c, AfterEnlist(c)) /\ UNCHANGED <<store, history>> /\ client[c].pc # "index"
            BY <1>12 DEF MarkEnlisted
        <2> QED BY <1>4, <1>6, <2>1
    <1>13. CASE LookFurther(c)
        <2> DEFINE l == IF client[c].pc = "own" THEN "scan" ELSE "own"
        <2>1. l \in ClientSteps \ {"unindex"}
            BY DEF ClientSteps
        <2>2. Goto(c, l) /\ UNCHANGED <<store, history>> /\ client[c].pc # "index"
            BY <1>13 DEF LookFurther, FirstPlace
        <2> HIDE DEF l
        <2> QED BY <1>4, <2>1, <2>2
    <1>14. CASE NoMatch(c)
        <2>1. (Return(c) \/ Goto(c, "blocked")) /\ UNCHANGED <<store, history>> /\ client[c].pc # "index"
            BY <1>14 DEF NoMatch
        <2>2. "blocked" \in ClientSteps \ {"unindex"}
            BY DEF ClientSteps
        <2> QED BY <1>3, <1>4, <1>5, <2>1, <2>2
    <1>15. CASE Wake(c)
        <2>1. client[c].pc = "blocked" /\ store' = store
            BY <1>15 DEF Wake
        <2>2. \A l \in ClientSteps : \A q : q = [client[c] EXCEPT !.inbox = Tail(@), !.pc = l] => q.pc = l
            BY <1>1, SMTT(30) DEF Clients
        <2>3. [client[c] EXCEPT !.inbox = Tail(@)].pc = client[c].pc
            BY <1>1, SMTT(30) DEF Clients
        <2>4. ASSUME \/ client' = [client EXCEPT ![c].inbox = Tail(@), ![c].pc = FirstPlace(c)]
                     \/ client' = [client EXCEPT ![c].inbox = Tail(@)],
                     history' = history
              PROVE  IndexInv'
            <3>1. client'[c].pc # "unindex"
                <4>1. CASE client' = [client EXCEPT ![c].inbox = Tail(@), ![c].pc = FirstPlace(c)]
                    <5>1. client'[c] = [client[c] EXCEPT !.inbox = Tail(@), !.pc = FirstPlace(c)]
                        BY <1>1, <4>1, SMTT(30)
                    <5> QED BY <1>6, <2>2, <5>1
                <4>2. CASE client' = [client EXCEPT ![c].inbox = Tail(@)]
                    <5>1. client'[c] = [client[c] EXCEPT !.inbox = Tail(@)]
                        BY <1>1, <4>2
                    <5> QED BY <2>1, <2>3, <5>1
                <4> QED BY <2>4, <4>1, <4>2
            <3>2. \A d \in Client \ {c} : client'[d] = client[d]
                BY <1>1, <2>4, SMTT(30)
            <3> QED BY <1>5, <2>1, <2>4, <3>1, <3>2, IndexAside DEF SameIndex
        <2>5. ASSUME NEW t \in Tuple, Result(c, t), Return(c)
              PROVE  IndexInv'
            BY <1>1, <1>3, <2>1, <2>5, ResultEnds
        <2>6. \/ Head(client[c].inbox) \in Matches[c] /\ Result(c, Head(client[c].inbox)) /\ Return(c)
              \/ client' = [client EXCEPT ![c].inbox = Tail(@), ![c].pc = FirstPlace(c)] /\ history' = history
              \/ client' = [client EXCEPT ![c].inbox = Tail(@)] /\ history' = history
            BY <1>15 DEF Wake
        <2>7. Head(client[c].inbox) \in Matches[c] => Head(client[c].inbox) \in Tuple
            BY SpaceAssumption
        <2> QED BY <2>4, <2>5, <2>6, <2>7
    <1>16. CASE WakeLagged(c)
        <2> DEFINE k == [client[c] EXCEPT !.lagged = FALSE, !.pc = FirstPlace(c)]
        <2>1. k.pc # "unindex"
            BY <1>1, <1>6 DEF Clients
        <2>2. client' = [client EXCEPT ![c] = k] /\ UNCHANGED <<store, history>> /\ client[c].pc # "index"
            BY <1>1, <1>16 DEF WakeLagged
        <2> HIDE DEF k
        <2> QED BY <1>2, <2>1, <2>2
    <1>17. CASE Release(c)
        <2>1. Return(c) /\ store' = store /\ client[c].pc # "index" /\ client[c].tuple \in Tuple
            BY <1>17 DEF Release, SpaceInv, ClientInv
        <2>2. EndedStays
            BY <1>1, <1>5, <1>17, <2>1, ResultEnds DEF Release
        <2> QED BY <1>3, <2>1, <2>2
    <1>18. ASSUME NEW t \in Tuple, ReadMatch(c, t)
          PROVE  IndexInv'
        <2>1. Return(c) /\ store' = store /\ client[c].pc # "index" /\ Result(c, t)
            BY <1>18 DEF ReadMatch
        <2> QED BY <1>1, <1>3, <2>1, ResultEnds
    <1> QED BY <1>7, <1>8, <1>9, <1>10, <1>11, <1>12, <1>13, <1>14, <1>15, <1>16, <1>17, <1>18

\* A call that puts a tuple into a buffer, or takes it out of one.
LEMMA IndexBuffer ==
    ASSUME SpaceInv, IndexInv, NEW c \in Client, UNCHANGED <<handler, remover>>,
           \/ IndexInTxn(c) \/ BufferPush(c) \/ TrackHold(c)
           \/ \E t \in Tuple : TakeOwn(c, t)
    PROVE  IndexInv'
    <1>1. SpaceType /\ client \in [Client -> Clients] /\ store \in Stores /\ history \in Histories
        BY StoreParts DEF SpaceInv, SpaceType
    <1>2. ASSUME SameIndex, EndedStays, client[c].pc # "index", Return(c)
          PROVE  IndexInv'
        <2>1. client'[c].pc # "unindex" /\ \A d \in Client \ {c} : client'[d] = client[d]
            BY <1>1, <1>2, IdleFacts DEF Return
        <2> QED BY <1>2, <2>1, IndexAside
    <1>3. CASE IndexInTxn(c)
        <2> DEFINE l == IF client[c].pc = "buffer" THEN "push" ELSE "hold"
        <2>1. l \in ClientSteps /\ l # "unindex"
            BY DEF ClientSteps
        <2>2. Goto(c, l) /\ history' = history /\ client[c].pc # "index"
            BY <1>3 DEF IndexInTxn
        <2> HIDE DEF l
        <2>3. client'[c].pc # "unindex" /\ \A d \in Client \ {c} : client'[d] = client[d]
            BY <1>1, <2>1, <2>2, GotoFacts
        <2>4. SameIndex /\ EndedStays
            BY <1>1, <1>3, <2>2 DEF IndexInTxn, SameIndex, EndedStays, Stores
        <2> QED BY <2>2, <2>3, <2>4, IndexAside
    <1>4. CASE BufferPush(c)
        <2>1. client[c].pc = "push" /\ Return(c) /\ client[c].tuple \in Tuple /\ client[c].txn \in Context
            <3>1. client[c].pc = "push" /\ Return(c)
                BY <1>4 DEF BufferPush
            <3>2. ClientInv(c) /\ client[c] \in Clients
                BY <1>1 DEF SpaceInv
            <3> QED BY <3>1, <3>2 DEF ClientInv, Writing, Clients
        <2>2. SameIndex
            BY <1>1, <1>4 DEF BufferPush, SameIndex, Stores
        <2>3. EndedStays
            BY <1>1, <1>4, <2>1, EndsLast DEF BufferPush
        <2> QED BY <1>2, <2>1, <2>2, <2>3
    <1>5. CASE TrackHold(c)
        <2>1. client[c].pc = "hold" /\ Return(c) /\ client[c].tuple \in Tuple /\ Result(c, client[c].tuple)
            BY <1>5 DEF TrackHold, SpaceInv, ClientInv
        <2>2. SameIndex
            BY <1>1, <1>5 DEF TrackHold, SameIndex, Stores
        <2> QED BY <1>1, <1>2, <2>1, <2>2, ResultEnds
    <1>6. ASSUME NEW t \in Tuple, TakeOwn(c, t)
          PROVE  IndexInv'
        <2>1. client[c].pc = "own" /\ Return(c) /\ Result(c, t)
            BY <1>6 DEF TakeOwn
        <2>2. SameIndex
            BY <1>1, <1>6 DEF TakeOwn, SameIndex, Stores
        <2> QED BY <1>1, <1>2, <2>1, <2>2, ResultEnds
    <1> QED BY <1>3, <1>4, <1>5, <1>6

\* insert: the tuple, then its index entry, then the broadcast.
LEMMA IndexInsert ==
    ASSUME SpaceInv, IndexInv, NEW c \in Client, UNCHANGED <<handler, remover>>,
           Insert(c) \/ InsertIndex(c) \/ InsertSend(c)
    PROVE  IndexInv'
    <1>1. SpaceType /\ client \in [Client -> Clients] /\ store \in Stores /\ history \in Histories
        BY StoreParts DEF SpaceInv, SpaceType
    <1>2. "index" \in ClientSteps /\ "send" \in ClientSteps
        BY DEF ClientSteps
    <1>3. CASE Insert(c)
        <2>1. client[c].pc = "insert" /\ Goto(c, "index") /\ client[c].tuple \in Tuple
            <3>1. client[c].pc = "insert" /\ Goto(c, "index") /\ ClientInv(c)
                BY <1>3 DEF Insert, SpaceInv
            <3> QED BY <3>1 DEF ClientInv, Writing
        <2>2. /\ \A d \in Client \ {c} : client'[d] = client[d]
              /\ client'[c].pc = "index" /\ client'[c].tuple = client[c].tuple
            BY <1>1, <1>2, <2>1, GotoFacts
        <2>3. store'.tuples = store.tuples \cup {client[c].tuple} /\ store'.lease_index = store.lease_index
            BY <1>1, <1>3 DEF Insert, Stores
        <2>4. history'.ended = history.ended
            BY <1>1, <1>3, <2>1 DEF Insert, Histories
        <2>5. ASSUME NEW t \in store'.tuples
              PROVE  Findable(t)'
            <3>1. CASE t = client[c].tuple
                BY <2>2, <3>1 DEF Findable
            <3>2. CASE t # client[c].tuple
                <4>1. Findable(t)
                    BY <2>3, <3>2 DEF IndexInv
                <4> QED BY <2>1, <2>2, <2>3, <4>1 DEF Findable
            <3> QED BY <3>1, <3>2
        <2>6. UnindexInv'
            BY <2>1, <2>2, <2>4 DEF IndexInv, UnindexInv
        <2> QED BY <2>5, <2>6 DEF IndexInv
    <1>4. CASE InsertIndex(c)
        <2>1. client[c].pc = "index" /\ Goto(c, "send") /\ history' = history
            BY <1>4 DEF InsertIndex
        <2>2. client'[c].pc = "send" /\ \A d \in Client \ {c} : SameCall(d)
            BY <1>1, <1>2, <2>1, GotoFacts DEF SameCall
        <2>3. store'.tuples = store.tuples /\ store'.lease_index = store.lease_index \cup {client[c].tuple}
            BY <1>1, <1>4 DEF InsertIndex, Stores
        <2>4. EndedStays /\ store'.tuples \subseteq store.tuples /\ store.lease_index \subseteq store'.lease_index
            BY <2>1, <2>3 DEF EndedStays
        <2> QED BY <2>2, <2>3, <2>4, IndexCall
    <1>5. CASE InsertSend(c)
        <2> DEFINE now == [client EXCEPT ![c] = IdleClient]
        <2>1. now \in [Client -> Clients] /\ now[c].pc = "idle" /\ \A d \in Client \ {c} : now[d] = client[d]
            BY <1>1, IdleFacts
        <2>2. client[c].pc = "send" /\ Send(client[c].tuple, now) /\ UNCHANGED <<store, history>>
            BY <1>5 DEF InsertSend
        <2>3. client[c].tuple \in Tuple
            BY <2>2 DEF SpaceInv, ClientInv
        <2> HIDE DEF now
        <2>4. \A d \in Client : /\ client'[d].pc = now[d].pc /\ client'[d].txn = now[d].txn
                                /\ client'[d].tuple = now[d].tuple
            BY <2>1, <2>2, <2>3, SendFacts
        <2>5. client'[c].pc = "idle" /\ \A d \in Client \ {c} : SameCall(d)
            BY <2>1, <2>4 DEF SameCall
        <2>6. EndedStays /\ store'.tuples \subseteq store.tuples /\ store.lease_index \subseteq store'.lease_index
            BY <2>2 DEF EndedStays
        <2> QED BY <2>2, <2>5, <2>6, IndexCall
    <1> QED BY <1>3, <1>4, <1>5

\* A take or a cancel removes a visible tuple, then its index entry: by then
\* nobody can have made the tuple visible again.
LEMMA IndexRemove ==
    ASSUME SpaceInv, IndexInv, NEW c \in Client, UNCHANGED <<handler, remover>>,
           Unindex(c) \/ \E t \in Tuple : TakeCommitted(c, t) \/ Cancel(c, t)
    PROVE  IndexInv'
    <1>1. /\ SpaceType /\ client \in [Client -> Clients] /\ client[c] \in Clients
          /\ store \in Stores /\ history \in Histories
        BY StoreParts DEF SpaceInv, SpaceType
    <1>2. ASSUME NEW t \in Tuple, TakeCommitted(c, t) \/ Cancel(c, t)
          PROVE  IndexInv'
        <2>1. store' = [store EXCEPT !.tuples = @ \ {t}] /\ client[c].pc # "index"
            BY <1>2 DEF TakeCommitted, Cancel
        <2>2. store'.tuples \subseteq store.tuples /\ store.lease_index \subseteq store'.lease_index
            BY <1>1, <2>1 DEF Stores
        <2>3. /\ \A d \in Client \ {c} : client'[d] = client[d]
              /\ client'[c].tuple = t /\ client'[c].txn = client[c].txn
            <3>1. CASE TakeCommitted(c, t)
                <4> DEFINE k == [client[c] EXCEPT !.tuple = t, !.pc = "unindex"]
                <4>1. k.tuple = t /\ k.txn = client[c].txn
                    BY <1>1 DEF Clients
                <4>2. client' = [client EXCEPT ![c] = k]
                    BY <1>1, <3>1 DEF TakeCommitted
                <4> HIDE DEF k
                <4> QED BY <1>1, <4>1, <4>2
            <3>2. CASE Cancel(c, t)
                <4> DEFINE k == [client[c] EXCEPT !.method = "cancel", !.tuple = t, !.pc = "unindex"]
                <4>1. k.tuple = t /\ k.txn = client[c].txn
                    BY <1>1 DEF Clients
                <4>2. client' = [client EXCEPT ![c] = k]
                    BY <1>1, <3>2 DEF Cancel
                <4> HIDE DEF k
                <4> QED BY <1>1, <4>1, <4>2
            <3> QED BY <1>2, <3>1, <3>2
        <2>4. history' = [history EXCEPT !.ended = Ended({t})] \/ (history' = history /\ client[c].txn # NoTxn)
            BY <1>2 DEF TakeCommitted, Cancel
        <2>5. EndedStays
            BY <1>1, <2>4, EndsLast
        <2>6. client[c].txn = NoTxn => history'.ended[t] # 0
            <3>1. ASSUME history' = [history EXCEPT !.ended = Ended({t})]
                  PROVE  history'.ended[t] = history.ended[t] + 1
                BY <1>1, <3>1 DEF Histories, Ended
            <3>2. history.ended[t] \in Nat
                BY <1>1, StoreParts
            <3>3. history.ended[t] + 1 # 0
                BY <3>2, SMTT(30)
            <3> QED BY <2>4, <3>1, <3>3
        <2>7. \A d \in Client \ {c} : SameCall(d)
            BY <2>3 DEF SameCall
        <2> QED BY <2>1, <2>2, <2>3, <2>5, <2>6, <2>7, IndexCall
    <1>3. CASE Unindex(c)
        <2> DEFINE l == IF client[c].txn = NoTxn THEN "release" ELSE "track"
        <2>1. l \in ClientSteps /\ l # "unindex"
            BY DEF ClientSteps
        <2>2. client[c].pc = "unindex" /\ Goto(c, l) /\ history' = history
            BY <1>3 DEF Unindex
        <2> HIDE DEF l
        <2>3. client'[c].pc # "unindex" /\ \A d \in Client \ {c} : client'[d] = client[d]
            BY <1>1, <2>1, <2>2, GotoFacts
        <2>4. store'.tuples = store.tuples /\ store'.lease_index = store.lease_index \ {client[c].tuple}
            BY <1>1, <1>3 DEF Unindex, Stores
        <2>5. client[c].tuple \notin store.tuples
            BY <2>2, NotVisible
        <2>6. ASSUME NEW t \in store'.tuples
              PROVE  Findable(t)'
            <3>1. Findable(t) /\ t # client[c].tuple
                BY <2>4, <2>5 DEF IndexInv
            <3> QED BY <2>2, <2>3, <2>4, <3>1 DEF Findable
        <2>7. UnindexInv'
            BY <2>2, <2>3 DEF IndexInv, UnindexInv
        <2> QED BY <2>6, <2>7 DEF IndexInv
    <1> QED BY <1>2, <1>3

\* A participant call: it shows what is kept, tuple by tuple, each followed by
\* its index entry.
LEMMA IndexParticipate ==
    ASSUME SpaceInv, IndexInv, NEW h \in Handler, Participate(h)
    PROVE  IndexInv'
    <1>1. /\ SpaceType /\ client \in [Client -> Clients] /\ handler \in [Handler -> Handlers]
          /\ handler[h] \in Handlers /\ store \in Stores /\ history \in Histories /\ remover' = remover
        BY StoreParts DEF SpaceInv, SpaceType, Participate
    <1>2. ASSUME SameIndex, EndedStays, \A d \in Client : SameCall(d), handler[h].pc # "show_index",
                 \A g \in Handler \ {h} : handler'[g] = handler[g]
          PROVE  IndexInv'
        <2>1. store'.tuples \subseteq store.tuples /\ store.lease_index \subseteq store'.lease_index
            BY <1>2 DEF SameIndex
        <2>2. \A g \in Handler : handler[g].pc = "show_index" => handler'[g] = handler[g]
            BY <1>2
        <2> QED BY <1>1, <1>2, <2>1, <2>2, IndexTask
    <1>3. ASSUME client' = client
          PROVE  \A d \in Client : SameCall(d)
        BY <1>3 DEF SameCall
    <1>4. ASSUME history' = history
          PROVE  EndedStays
        BY <1>4 DEF EndedStays
    <1>5. CASE ClaimKept(h)
        <2>1. /\ client' = client /\ history' = history /\ handler[h].pc # "show_index"
              /\ \A g \in Handler \ {h} : handler'[g] = handler[g]
            BY <1>1, <1>5 DEF ClaimKept
        <2>2. SameIndex
            <3>1. Kept(h) \in {"uncommitted", "txn_taken"}
                BY DEF Kept
            <3> QED BY <1>1, <1>5, <3>1 DEF ClaimKept, SameIndex, Stores
        <2> QED BY <1>2, <1>3, <1>4, <2>1, <2>2
    <1>6. CASE ClaimGone(h)
        <2>1. /\ client' = client /\ handler[h].pc # "show_index"
              /\ \A g \in Handler \ {h} : handler'[g] = handler[g]
            BY <1>1, <1>6 DEF ClaimGone
        <2>2. SameIndex
            <3>1. Gone(h) \in {"uncommitted", "txn_taken"}
                BY DEF Gone
            <3> QED BY <1>1, <1>6, <3>1 DEF ClaimGone, SameIndex, Stores
        <2>3. EndedStays
            BY <1>1, <1>6, EndsLast DEF ClaimGone
        <2> QED BY <1>2, <1>3, <2>1, <2>2, <2>3
    <1>7. CASE ClaimSelf(h)
        <2>1. /\ client' = client /\ handler[h].pc # "show_index"
              /\ \A g \in Handler \ {h} : handler'[g] = handler[g]
            BY <1>1, <1>7 DEF ClaimSelf
        <2>2. SameIndex
            BY <1>1, <1>7 DEF ClaimSelf, SameIndex, Stores
        <2>3. EndedStays
            BY <1>1, <1>7, EndsLast DEF ClaimSelf
        <2> QED BY <1>2, <1>3, <2>1, <2>2, <2>3
    <1>8. CASE Unenlist(h) \/ Served(h) \/ \E t \in Tuple : ReleaseFreed(h, t)
        <2>1. /\ client' = client /\ history' = history /\ store' = store /\ handler[h].pc # "show_index"
              /\ \A g \in Handler \ {h} : handler'[g] = handler[g]
            BY <1>1, <1>8 DEF Unenlist, Served, ReleaseFreed, HGoto
        <2> QED BY <1>2, <1>3, <1>4, <2>1 DEF SameIndex
    <1>9. ASSUME NEW t \in Tuple, Announce(h, t)
          PROVE  IndexInv'
        <2>1. /\ history' = history /\ store' = store /\ handler[h].pc # "show_index" /\ Send(t, client)
              /\ \A g \in Handler \ {h} : handler'[g] = handler[g]
            BY <1>1, <1>9 DEF Announce
        <2>2. \A d \in Client : SameCall(d)
            BY <1>1, <2>1, SendFacts DEF SameCall
        <2> QED BY <1>2, <1>4, <2>1, <2>2 DEF SameIndex
    <1>10. CASE ShowIndex(h)
        <2>1. /\ client' = client /\ history' = history /\ \A g \in Handler \ {h} : handler'[g] = handler[g]
              /\ store' = [store EXCEPT !.lease_index = @ \cup {handler[h].tuple}]
            BY <1>1, <1>10 DEF ShowIndex
        <2>2. store'.tuples = store.tuples /\ store'.lease_index = store.lease_index \cup {handler[h].tuple}
            BY <1>1, <2>1 DEF Stores
        <2>3. \A g \in Handler : handler[g].pc = "show_index" =>
                                     handler'[g] = handler[g] \/ handler[g].tuple \in store'.lease_index
            BY <2>1, <2>2
        <2>4. store'.tuples \subseteq store.tuples /\ store.lease_index \subseteq store'.lease_index
            BY <2>2
        <2> QED BY <1>1, <1>3, <1>4, <2>1, <2>3, <2>4, IndexTask
    <1>11. ASSUME NEW t \in Tuple, Show(h, t)
          PROVE  IndexInv'
        <2> DEFINE k == [handler[h] EXCEPT !.todo = @ \ {t}, !.moved = @ \cup {t}, !.tuple = t, !.pc = "show_index"]
        <2>1. k.pc = "show_index" /\ k.tuple = t
            BY <1>1 DEF Handlers
        <2>2. handler' = [handler EXCEPT ![h] = k]
            BY <1>1, <1>11 DEF Show
        <2> HIDE DEF k
        <2>3. /\ handler[h].pc = "show" /\ handler'[h].pc = "show_index" /\ handler'[h].tuple = t
              /\ \A g \in Handler \ {h} : handler'[g] = handler[g]
            BY <1>1, <1>11, <2>1, <2>2 DEF Show
        <2>4. store'.tuples = store.tuples \cup {t} /\ store'.lease_index = store.lease_index
            BY <1>1, <1>11 DEF Show, Stores
        <2>5. UNCHANGED <<client, history>>
            BY <1>11 DEF Show
        <2>6. ASSUME NEW u \in store'.tuples
              PROVE  Findable(u)'
            <3>1. CASE u = t
                BY <2>3, <3>1 DEF Findable
            <3>2. CASE u # t
                <4>1. Findable(u)
                    BY <2>4, <3>2 DEF IndexInv
                <4> QED BY <1>1, <2>3, <2>4, <2>5, <4>1 DEF Findable
            <3> QED BY <3>1, <3>2
        <2>7. UnindexInv'
            BY <2>5 DEF IndexInv, UnindexInv
        <2> QED BY <2>6, <2>7 DEF IndexInv
    <1> QED BY <1>5, <1>6, <1>7, <1>8, <1>9, <1>10, <1>11 DEF Participate

\* on_tuple_expired: it removes the index entry, and has the tuple in hand
\* until that is gone as well.
LEMMA IndexExpiring ==
    ASSUME SpaceInv, IndexInv, NEW r \in Remover, Expiring(r)
    PROVE  IndexInv'
    <1>1. /\ SpaceType /\ remover \in [Remover -> Removers] /\ remover[r] \in Removers
          /\ store \in Stores /\ history \in Histories /\ UNCHANGED <<client, handler>>
        BY StoreParts DEF SpaceInv, SpaceType, Expiring
    <1>2. \A d \in Client : SameCall(d)
        BY <1>1 DEF SameCall
    <1>3. ASSUME EndedStays, store'.tuples \subseteq store.tuples, store'.lease_index = store.lease_index,
                 remover[r].pc = "tuple" => remover[r].tuple \notin store'.tuples,
                 \A q \in Remover \ {r} : remover'[q] = remover[q]
          PROVE  IndexInv'
        BY <1>1, <1>2, <1>3, IndexTask
    <1>4. CASE RemoveIndex(r)
        <2> DEFINE t == remover[r].tuple
                   l == IF t \in store.lease_index THEN "tuple" ELSE "txn_index"
                   k == [remover[r] EXCEPT !.pc = l]
        <2>1. k.pc = l /\ k.tuple = t
            BY <1>1 DEF Removers
        <2>2. remover' = [remover EXCEPT ![r] = k]
            BY <1>1, <1>4 DEF RemoveIndex, RGoto
        <2>3. remover[r].pc = "index" /\ history' = history
            BY <1>4 DEF RemoveIndex
        <2>4. store'.tuples = store.tuples /\ store'.lease_index = store.lease_index \ {t}
            BY <1>1, <1>4 DEF RemoveIndex, Stores
        <2>5. t \in store.lease_index => l = "tuple"
            OBVIOUS
        <2> HIDE DEF k, l, t
        <2>6. remover'[r].pc = l /\ remover'[r].tuple = t /\ \A q \in Remover \ {r} : remover'[q] = remover[q]
            BY <1>1, <2>1, <2>2
        <2>7. ASSUME NEW u \in store'.tuples
              PROVE  Findable(u)'
            <3>1. Findable(u)
                BY <2>4 DEF IndexInv
            <3>2. CASE u \in store.lease_index /\ u = t
                BY <2>5, <2>6, <3>2 DEF Findable
            <3>3. CASE u \in store.lease_index /\ u # t
                BY <2>4, <3>3 DEF Findable
            <3>4. CASE u \notin store.lease_index
                BY <1>1, <2>3, <2>6, <3>1, <3>4 DEF Findable
            <3> QED BY <3>2, <3>3, <3>4
        <2>8. UnindexInv'
            BY <1>1, <2>3 DEF IndexInv, UnindexInv
        <2> QED BY <2>7, <2>8 DEF IndexInv
    <1>5. CASE RemoveTuple(r)
        <2>1. \A q \in Remover \ {r} : remover'[q] = remover[q]
            BY <1>1, <1>5 DEF RemoveTuple, Expired, RGoto
        <2>2. store'.tuples = store.tuples \ {remover[r].tuple} /\ store'.lease_index = store.lease_index
            BY <1>1, <1>5 DEF RemoveTuple, Stores
        <2>3. EndedStays
            BY <1>1, <1>5, EndsLast DEF RemoveTuple
        <2> QED BY <1>3, <2>1, <2>2, <2>3
    <1>6. CASE RemoveTxnIndex(r)
        <2>1. /\ \A q \in Remover \ {r} : remover'[q] = remover[q]
              /\ remover[r].pc # "tuple" /\ history' = history
            BY <1>1, <1>6 DEF RemoveTxnIndex, Expired
        <2>2. store'.tuples = store.tuples /\ store'.lease_index = store.lease_index
            BY <1>1, <1>6 DEF RemoveTxnIndex, Stores
        <2>3. EndedStays
            BY <2>1 DEF EndedStays
        <2> QED BY <1>3, <2>1, <2>2, <2>3
    <1>7. CASE RemoveBuffered(r)
        <2>1. (\A q \in Remover \ {r} : remover'[q] = remover[q]) /\ remover[r].pc # "tuple"
            BY <1>1, <1>7 DEF RemoveBuffered, Expired
        <2>2. store'.tuples = store.tuples /\ store'.lease_index = store.lease_index
            BY <1>1, <1>7 DEF RemoveBuffered, Stores
        <2>3. EndedStays
            BY <1>1, <1>7, EndsLast DEF RemoveBuffered
        <2> QED BY <1>3, <2>1, <2>2, <2>3
    <1> QED BY <1>4, <1>5, <1>6, <1>7 DEF Expiring

\* Leases, the coordinator and a remover's start leave the index alone.
LEMMA IndexElsewhere ==
    ASSUME SpaceInv, IndexInv,
           \/ Coordinate \/ UNCHANGED vars
           \/ \E t \in Tuple : Lapse(t)
           \/ \E r \in Remover : Reclaim(r)
    PROVE  IndexInv'
    <1>1. SpaceType /\ handler \in [Handler -> Handlers] /\ remover \in [Remover -> Removers]
        BY DEF SpaceInv, SpaceType
    <1>2. UNCHANGED <<store, client, history>>
        BY DEF Coordinate, Lapse, Reclaim, Cascade, Sweep, vars
    <1>3. /\ EndedStays /\ \A d \in Client : SameCall(d)
          /\ store'.tuples \subseteq store.tuples /\ store.lease_index \subseteq store'.lease_index
        BY <1>2 DEF EndedStays, SameCall
    <1>4. \A h \in Handler : handler[h].pc = "show_index" => handler'[h] = handler[h]
        BY <1>1 DEF Coordinate, Serve, Lapse, Reclaim, vars
    <1>5. \A r \in Remover : remover[r].pc = "tuple" => remover'[r] = remover[r]
        BY <1>1 DEF Coordinate, Lapse, Reclaim, Cascade, Sweep, vars
    <1> QED BY <1>3, <1>4, <1>5, IndexTask

\* Every step keeps the index.
LEMMA IndexStep ==
    ASSUME SpaceInv, IndexInv, [Next]_vars
    PROVE  IndexInv'
    <1>1. ASSUME NEW c \in Client, Begin(c)
          PROVE  IndexInv'
        <2>1. UNCHANGED <<handler, remover>>
            BY <1>1 DEF Begin
        <2>2. PICK a \in Asks[c] : \/ a[1] = "write" /\ \E t \in Tuple : Write(c, t, a[2])
                                   \/ a[1] \in {"read", "take"} /\ Seek(c, a[1], a[2])
                                   \/ a = <<"cancel", NoTxn>> /\ \E t \in Tuple : Cancel(c, t)
            BY <1>1 DEF Begin
        <2>3. a[2] \in Context
            BY SpaceAssumption, SMTT(30)
        <2> QED BY <2>1, <2>2, <2>3, IndexSearch, IndexRemove
    <1>2. ASSUME NEW c \in Client, Continue(c)
          PROVE  IndexInv'
        <2>1. UNCHANGED <<handler, remover>>
            BY <1>2 DEF Continue
        <2>2. CASE \/ CheckEnlisted(c) \/ Enlist(c) \/ MarkEnlisted(c) \/ LookFurther(c) \/ NoMatch(c)
                   \/ Wake(c) \/ WakeLagged(c) \/ Release(c)
            BY <2>1, <2>2, IndexSearch
        <2>3. CASE IndexInTxn(c) \/ BufferPush(c) \/ TrackHold(c)
            BY <2>1, <2>3, IndexBuffer
        <2>4. CASE Insert(c) \/ InsertIndex(c) \/ InsertSend(c) \/ Unindex(c)
            BY <2>1, <2>4, IndexInsert, IndexRemove
        <2>5. ASSUME NEW t \in Tuple, ReadMatch(c, t) \/ TakeOwn(c, t) \/ TakeCommitted(c, t)
              PROVE  IndexInv'
            BY <2>1, <2>5, IndexSearch, IndexBuffer, IndexRemove
        <2> QED BY <1>2, <2>2, <2>3, <2>4, <2>5 DEF Continue
    <1>3. ASSUME NEW c \in Client, Stop(c)
          PROVE  IndexInv'
        BY <1>3, IndexSearch DEF Stop
    <1> QED BY <1>1, <1>2, <1>3, IndexParticipate, IndexExpiring, IndexElsewhere DEF Next

\* A visible tuple can always be found by its lease, or is about to be, or is
\* being removed: insert, commit_txn and abort_txn write tuples and lease_index
\* in two steps, take_match, remove and remove_by_lease clear them in two, and no
\* interleaving leaves a tuple that no expiry could remove.
THEOREM IndexKeptHolds == Spec => []IndexKept
    <1>1. Init => IndexInv
        <2>1. ASSUME Init
              PROVE  store.tuples = {} /\ \A c \in Client : client[c].pc = "idle"
            BY <2>1, IdleFacts DEF Init
        <2> QED BY <2>1 DEF IndexInv, UnindexInv
    <1>2. SpaceInv /\ IndexInv /\ [Next]_vars => IndexInv'
        BY IndexStep
    <1>3. IndexInv => IndexKept
        BY DEF IndexInv, Findable, IndexKept
    <1> QED BY <1>1, <1>2, <1>3, SpaceSafety, PTL DEF Spec
==============================================================================
