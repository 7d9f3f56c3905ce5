----------------------------- MODULE ProxyProofs -----------------------------
(***************************************************************************)
(* The safety of the Proxy, for every number of calls, connections and     *)
(* endpoints and every port range.                                         *)
(***************************************************************************)
EXTENDS Proxy, FiniteSetTheorems, TLAPS

\* Most steps are first-order; those that count or update records cite SMT.
USE Zenon

-----------------------------------------------------------------------------
(***************************************************************************)
(* Where a connection is sent.                                             *)
(***************************************************************************)

Conns == [pc : {"idle", "resolve", "connect", "open", "closed"}, proxy : Call \cup {Nowhere},
          to : Endpoint \cup {Nowhere}, since : SUBSET Endpoint]

\* A connection under way has seen everything that is registered now.
ConnInv ==
    /\ registered \subseteq Endpoint /\ conn \in [Conn -> Conns]
    /\ \A k \in Conn : conn[k].pc \in {"resolve", "connect", "open"} => registered \subseteq conn[k].since
    /\ FreshTarget

\* The step of one connection that leaves its history alone.
LEMMA ConnMoves ==
    ASSUME ConnInv, NEW k \in Conn, conn' \in [Conn -> Conns], UNCHANGED registered,
           \A j \in Conn \ {k} : conn'[j] = conn[j],
           conn[k].pc \in {"resolve", "connect", "open"},
           conn'[k].since = conn[k].since, conn'[k].to \in {conn[k].to} \cup registered
    PROVE  ConnInv'
    BY DEF ConnInv, FreshTarget

\* accept_loop, forward and the Registry's changes keep it: forward looks the
\* endpoint up for each connection.
LEMMA ConnStep ==
    ASSUME ConnInv, [Next]_vars
    PROVE  ConnInv'
    <1>0. registered \subseteq Endpoint /\ conn \in [Conn -> Conns] /\ Nowhere \notin Endpoint
        BY ProxyAssumption DEF ConnInv
    <1>1. ASSUME NEW e \in Endpoint, Move(e) PROVE ConnInv'
        <2>1. registered' \subseteq Endpoint
            BY <1>0, <1>1 DEF Move
        <2>2. ASSUME NEW k \in Conn
              PROVE  /\ conn'[k] \in Conns /\ conn'[k].pc = conn[k].pc /\ conn'[k].to = conn[k].to
                     /\ conn[k].since \subseteq conn'[k].since
                     /\ conn[k].pc \in {"resolve", "connect", "open"} => registered' \subseteq conn'[k].since
            <3> DEFINE r == [conn[k] EXCEPT !.since = @ \cup registered']
            <3>1. conn[k] \in Conns
                BY <1>0
            <3>2. r \in Conns /\ r.pc = conn[k].pc /\ r.to = conn[k].to /\ r.since = conn[k].since \cup registered'
                BY <2>1, <3>1 DEF Conns
            <3>3. conn'[k] = IF conn[k].pc \in {"idle", "closed"} THEN conn[k] ELSE r
                BY <1>1 DEF Move
            <3> HIDE DEF r
            <3> QED BY <3>1, <3>2, <3>3
        <2>3. conn' \in [Conn -> Conns]
            <3>1. conn' = [k \in Conn |-> conn'[k]]
                BY <1>1 DEF Move
            <3> QED BY <2>2, <3>1
        <2> QED BY <1>0, <2>1, <2>2, <2>3 DEF ConnInv, FreshTarget
    <1>2. ASSUME NEW k \in Conn, NEW p \in Call, Accept(k, p) PROVE ConnInv'
        <2> DEFINE r == [pc |-> "resolve", proxy |-> p, to |-> Nowhere, since |-> registered]
        <2>1. r \in Conns /\ conn' = [conn EXCEPT ![k] = r] /\ UNCHANGED registered
            BY <1>0, <1>2 DEF Accept, Conns
        <2>2. /\ conn' \in [Conn -> Conns] /\ conn'[k].to = Nowhere /\ conn'[k].since = registered
              /\ \A j \in Conn \ {k} : conn'[j] = conn[j]
            BY <1>0, <2>1
        <2> QED BY <2>1, <2>2 DEF ConnInv, FreshTarget
    <1>3. ASSUME NEW k \in Conn, Resolve(k) PROVE ConnInv'
        <2>1. UNCHANGED registered /\ conn[k].pc = "resolve"
            BY <1>3 DEF Resolve
        <2>2. CASE conn' = [conn EXCEPT ![k].pc = "closed"]
            <3>1. /\ conn' \in [Conn -> Conns] /\ conn'[k].to = conn[k].to /\ conn'[k].since = conn[k].since
                  /\ \A j \in Conn \ {k} : conn'[j] = conn[j]
                BY <1>0, <2>2 DEF Conns
            <3> QED BY <2>1, <3>1, ConnMoves
        <2>3. ASSUME NEW e \in registered, conn' = [conn EXCEPT ![k].pc = "connect", ![k].to = e]
              PROVE  ConnInv'
            <3>1. /\ conn' \in [Conn -> Conns] /\ conn'[k].to = e /\ conn'[k].since = conn[k].since
                  /\ \A j \in Conn \ {k} : conn'[j] = conn[j]
                BY <1>0, <2>3, ZenonT(30) DEF Conns
            <3> QED BY <2>1, <3>1, ConnMoves
        <2> QED BY <1>3, <2>2, <2>3 DEF Resolve
    <1>4. ASSUME NEW k \in Conn, ResolveFails(k) \/ Connect(k) \/ HangUp(k) PROVE ConnInv'
        <2>1. PICK l \in {"open", "closed"} : conn' = [conn EXCEPT ![k].pc = l]
            BY <1>4 DEF ResolveFails, Connect, HangUp
        <2>2. UNCHANGED registered /\ conn[k].pc \in {"resolve", "connect", "open"}
            BY <1>4 DEF ResolveFails, Connect, HangUp
        <2>3. /\ conn' \in [Conn -> Conns] /\ conn'[k].to = conn[k].to /\ conn'[k].since = conn[k].since
              /\ \A j \in Conn \ {k} : conn'[j] = conn[j]
            BY <1>0, <2>1, SMT DEF Conns
        <2> QED BY <2>2, <2>3, ConnMoves
    <1>5. ASSUME UNCHANGED <<registered, conn>> PROVE ConnInv'
        BY <1>5 DEF ConnInv, FreshTarget
    <1>6. CASE Install \/ UNCHANGED vars
        BY <1>5, <1>6 DEF Install, vars
    <1>7. ASSUME NEW p \in Call,
                 \/ OpenStep(p) \/ OpenFails(p) \/ Close(p) \/ CloseCancel(p) \/ CloseFails(p) \/ LeaseEnds(p)
                 \/ LoseReclaim(p) \/ handle_reclaimed(p) \/ TaskEnds(p)
          PROVE  ConnInv'
        <2>1. CASE OpenStep(p)
            BY <1>5, <2>1 DEF OpenStep, OpenUnavailable, OpenResolve, BindFetch, BindStore, Bind, OpenGrant,
                              OpenSpawn, OpenInsert
        <2>2. CASE OpenFails(p) \/ Close(p) \/ CloseCancel(p) \/ CloseFails(p) \/ LeaseEnds(p)
            BY <1>5, <2>2 DEF OpenFails, Close, CloseCancel, CloseFails, LeaseEnds
        <2>3. CASE LoseReclaim(p) \/ handle_reclaimed(p) \/ TaskEnds(p)
            BY <1>5, <2>3 DEF LoseReclaim, handle_reclaimed, TaskEnds
        <2> QED BY <1>7, <2>1, <2>2, <2>3
    <1> QED BY <1>1, <1>2, <1>3, <1>4, <1>6, <1>7 DEF Next

\* Every connection is sent to an endpoint that was registered at some time
\* after it was accepted, however often services move (forward).
THEOREM FreshTargetHolds == Spec => []FreshTarget
    <1>1. Init => ConnInv
        BY SMT DEF Init, ConnInv, FreshTarget, Conns, IdleConn
    <1>2. ConnInv => FreshTarget
        BY DEF ConnInv
    <1> QED BY <1>1, <1>2, ConnStep, PTL DEF Spec

-----------------------------------------------------------------------------
(***************************************************************************)
(* The ports.  A call that has fetched a number and not stored the next    *)
(* one has pushed the counter one further past the end of the range.       *)
(***************************************************************************)

Storing == {p \in Call : open[p].pc = "store"}

\* The numbers past the range, which are as many as there are calls between
\* the two operations, fit in the width of the counter.
Room == MaxPort + Cardinality(Storing) < Width

OpenSteps == {"idle", "fetch", "store", "bind", "grant", "spawn", "insert", "opened", "cancel",
              "released", "refused"}
Opens == [pc : OpenSteps, tries : Int, port : Nat, held : BOOLEAN]

\* What a call holds of a port at each of its steps; a listener, and its task,
\* are there only after the port was bound.
OpenInv(p) ==
    /\ open[p].pc = "store" => open[p].port >= MinPort
    /\ open[p].pc = "bind" => open[p].port \in MinPort..MaxPort
    /\ open[p].held => /\ open[p].port \in MinPort..MaxPort
                       /\ open[p].pc \notin {"idle", "fetch", "store", "bind"}
    /\ task[p] # "none" => open[p].pc \in {"insert", "opened", "cancel", "released"}

PortInv ==
    /\ open \in [Call -> Opens] /\ task \in [Call -> {"none", "accept", "stop", "ended"}]
    /\ IsFiniteSet(Storing) /\ next_port \in MinPort..(MaxPort + Cardinality(Storing))
    /\ \A p \in Call : OpenInv(p)

\* A step that moves neither the counter nor the set of calls that move it.
LEMMA PortStays ==
    ASSUME PortInv, NEW p \in Call, UNCHANGED next_port,
           open' \in [Call -> Opens], task' \in [Call -> {"none", "accept", "stop", "ended"}],
           \A q \in Call \ {p} : open'[q] = open[q] /\ task'[q] = task[q],
           open[p].pc # "store", open'[p].pc # "store", OpenInv(p)'
    PROVE  PortInv'
    <1>1. Storing' = Storing
        BY DEF Storing
    <1>2. \A q \in Call \ {p} : OpenInv(q)'
        BY DEF PortInv, OpenInv
    <1> QED BY <1>1, <1>2 DEF PortInv

\* A call that has begun to move the counter is one more, one that has done so
\* is one less.
LEMMA StoringCounts ==
    ASSUME PortInv, NEW p \in Call, open' \in [Call -> Opens],
           \A q \in Call \ {p} : open'[q] = open[q],
           (open[p].pc = "store") # (open'[p].pc = "store")
    PROVE  /\ IsFiniteSet(Storing') /\ Cardinality(Storing') \in Nat /\ Cardinality(Storing) \in Nat
           /\ open'[p].pc = "store" => Cardinality(Storing') = Cardinality(Storing) + 1
    <1>0. IsFiniteSet(Storing) /\ Cardinality(Storing) \in Nat
        BY FS_CardinalityType DEF PortInv
    <1>1. CASE open'[p].pc = "store"
        <2>1. Storing' = Storing \cup {p} /\ p \notin Storing
            BY <1>1 DEF Storing
        <2> QED BY <1>0, <2>1, FS_AddElement, FS_CardinalityType
    <1>2. CASE open[p].pc = "store"
        <2>1. Storing' = Storing \ {p}
            BY <1>2 DEF Storing
        <2> QED BY <1>0, <1>2, <2>1, FS_RemoveElement, FS_CardinalityType
    <1> QED BY <1>1, <1>2

\* fetch_add and store: the counter is where the last of them left it.
LEMMA CounterSteps ==
    ASSUME PortInv, Room', NEW p \in Call, BindFetch(p) \/ BindStore(p)
    PROVE  PortInv'
    <1>0. /\ open \in [Call -> Opens] /\ open[p] \in Opens /\ next_port \in Nat /\ OpenInv(p)
          /\ MinPort \in Nat /\ MaxPort \in Nat /\ Width \in Nat /\ MinPort <= MaxPort
        BY FS_CardinalityType, ProxyAssumption, SMT DEF PortInv
    <1>1. CASE BindFetch(p)
        <2>1. /\ open' \in [Call -> Opens] /\ open'[p].pc = "store" /\ open'[p].port = next_port
              /\ open'[p].held = open[p].held
              /\ (\A q \in Call \ {p} : open'[q] = open[q]) /\ UNCHANGED task
              /\ open[p].pc = "fetch" /\ next_port' = (next_port + 1) % Width
            BY <1>0, <1>1 DEF BindFetch, Opens, OpenSteps
        <2>2. /\ IsFiniteSet(Storing') /\ Cardinality(Storing) \in Nat
              /\ Cardinality(Storing') = Cardinality(Storing) + 1
            BY <2>1, StoringCounts
        <2>3. next_port' = next_port + 1 /\ next_port \in MinPort..(MaxPort + Cardinality(Storing))
            BY <1>0, <2>1, <2>2, SMT DEF PortInv, Room
        <2>4. OpenInv(p)'
            BY <1>0, <2>1, <2>3, SMT DEF OpenInv
        <2>5. \A q \in Call \ {p} : OpenInv(q)'
            BY <2>1 DEF PortInv, OpenInv
        <2>6. next_port' \in MinPort..(MaxPort + Cardinality(Storing'))
            BY <1>0, <2>2, <2>3, SMT
        <2> QED BY <2>1, <2>2, <2>4, <2>5, <2>6 DEF PortInv
    <1>2. CASE BindStore(p)
        <2> DEFINE port == IF open[p].port > MaxPort THEN MinPort ELSE open[p].port
        <2>1. port \in MinPort..MaxPort /\ open[p].pc = "store" /\ ~open[p].held
            BY <1>0, <1>2, SMT DEF BindStore, OpenInv, Opens
        <2>2. /\ open' \in [Call -> Opens] /\ open'[p].pc = "bind" /\ open'[p].port = port
              /\ open'[p].held = open[p].held
              /\ (\A q \in Call \ {p} : open'[q] = open[q]) /\ UNCHANGED task
              /\ next_port' \in MinPort..MaxPort
            <3>1. next_port' = IF port >= MaxPort THEN MinPort ELSE port + 1
                BY <1>2 DEF BindStore
            <3>2. open' = [open EXCEPT ![p].pc = "bind", ![p].port = port] /\ UNCHANGED task
                BY <1>2 DEF BindStore
            <3>3. port \in Nat
                BY <1>0, <2>1, SMT
            <3> HIDE DEF port
            <3>4. next_port' \in MinPort..MaxPort
                BY <1>0, <2>1, <3>1, <3>3, SMT
            <3> QED BY <1>0, <3>2, <3>3, <3>4 DEF Opens, OpenSteps
        <2>3. IsFiniteSet(Storing') /\ Cardinality(Storing') \in Nat
            BY <2>1, <2>2, StoringCounts
        <2>4. OpenInv(p)'
            BY <1>0, <2>1, <2>2 DEF OpenInv
        <2>5. \A q \in Call \ {p} : OpenInv(q)'
            BY <2>2 DEF PortInv, OpenInv
        <2>6. next_port' \in MinPort..(MaxPort + Cardinality(Storing'))
            BY <1>0, <2>2, <2>3, SMT
        <2> QED BY <2>2, <2>3, <2>4, <2>5, <2>6 DEF PortInv
    <1> QED BY <1>1, <1>2

\* The other steps of a call to open, release or reclaim a proxy.
LEMMA CallSteps ==
    ASSUME PortInv, NEW p \in Call,
           \/ OpenUnavailable(p) \/ OpenResolve(p) \/ Bind(p) \/ OpenGrant(p) \/ OpenSpawn(p) \/ OpenInsert(p)
           \/ OpenFails(p) \/ Close(p) \/ CloseCancel(p) \/ CloseFails(p)
    PROVE  PortInv'
    <1>0. /\ open \in [Call -> Opens] /\ open[p] \in Opens /\ OpenInv(p)
          /\ task \in [Call -> {"none", "accept", "stop", "ended"}]
          /\ UNCHANGED next_port
        BY DEF PortInv, OpenUnavailable, OpenResolve, Bind, OpenGrant, OpenSpawn, OpenInsert, OpenFails, Close,
               CloseCancel, CloseFails
    <1>1. ASSUME NEW l \in OpenSteps \ {"store", "bind"}, Goto(p, l), open[p].pc # "store",
                 task' \in [Call -> {"none", "accept", "stop", "ended"}],
                 \A q \in Call \ {p} : task'[q] = task[q],
                 open[p].held => l \notin {"idle", "fetch"},
                 task'[p] # "none" => l \in {"insert", "opened", "cancel", "released"}
          PROVE  PortInv'
        <2>1. /\ open' \in [Call -> Opens] /\ open'[p].pc = l /\ open'[p].port = open[p].port
              /\ open'[p].held = open[p].held /\ \A q \in Call \ {p} : open'[q] = open[q]
            BY <1>0, <1>1 DEF Goto, Opens
        <2>2. OpenInv(p)'
            BY <1>0, <1>1, <2>1 DEF OpenInv
        <2> QED BY <1>0, <1>1, <2>1, <2>2, PortStays
    <1>2. CASE OpenUnavailable(p)
        BY <1>0, <1>1, <1>2 DEF OpenUnavailable, OpenInv, OpenSteps
    <1>3. CASE OpenResolve(p)
        BY <1>0, <1>1, <1>3 DEF OpenResolve, OpenInv, OpenSteps
    <1>4. CASE OpenGrant(p)
        BY <1>0, <1>1, <1>4 DEF OpenGrant, OpenInv, OpenSteps
    <1>5. CASE OpenSpawn(p)
        BY <1>0, <1>1, <1>5 DEF OpenSpawn, OpenInv, OpenSteps
    <1>6. CASE OpenInsert(p)
        BY <1>0, <1>1, <1>6 DEF OpenInsert, OpenInv, OpenSteps
    <1>7. CASE Close(p)
        BY <1>0, <1>1, <1>7 DEF Close, Stop, OpenInv, OpenSteps
    <1>8. CASE CloseCancel(p) \/ CloseFails(p)
        BY <1>0, <1>1, <1>8 DEF CloseCancel, CloseFails, OpenInv, OpenSteps
    <1>9. ASSUME open' = [open EXCEPT ![p] = [IdleOpen EXCEPT !.pc = "refused"]], UNCHANGED task,
                 open[p].pc \in {"idle", "bind", "grant"}
          PROVE  PortInv'
        <2> DEFINE r == [IdleOpen EXCEPT !.pc = "refused"]
        <2>3. IdleOpen \in Opens /\ ~IdleOpen.held /\ "refused" \in OpenSteps
            BY SMT DEF IdleOpen, Opens, OpenSteps
        <2>4. r \in Opens /\ r.pc = "refused" /\ ~r.held
            BY <2>3 DEF Opens
        <2> HIDE DEF r
        <2>5. open' = [open EXCEPT ![p] = r]
            BY <1>9 DEF r
        <2>1. /\ open' \in [Call -> Opens] /\ open'[p].pc = "refused" /\ ~open'[p].held
              /\ \A q \in Call \ {p} : open'[q] = open[q]
            BY <1>0, <2>4, <2>5
        <2>2. OpenInv(p)'
            BY <1>0, <1>9, <2>1 DEF OpenInv
        <2> QED BY <1>0, <1>9, <2>1, <2>2, PortStays
    <1>10. CASE OpenFails(p)
        BY <1>9, <1>10 DEF OpenFails
    <1>11. CASE Bind(p)
        <2> DEFINE g == [open[p] EXCEPT !.pc = "grant", !.tries = 0, !.held = TRUE]
                   f == [open[p] EXCEPT !.pc = "fetch", !.tries = open[p].tries + 1]
        <2>1. UNCHANGED task /\ open[p].pc = "bind"
            BY <1>11 DEF Bind
        <2>2. CASE open' = [open EXCEPT ![p] = g]
            <3>0. "grant" \in OpenSteps /\ 0 \in Int
                BY SMT DEF OpenSteps
            <3>1. g \in Opens /\ g.pc = "grant" /\ g.port = open[p].port
                BY <1>0, <3>0 DEF Opens
            <3> HIDE DEF g
            <3>2. /\ open' \in [Call -> Opens] /\ open'[p] = g
                  /\ \A q \in Call \ {p} : open'[q] = open[q]
                BY <1>0, <2>2, <3>1
            <3>3. OpenInv(p)'
                BY <1>0, <2>1, <3>1, <3>2 DEF OpenInv
            <3> QED BY <1>0, <2>1, <3>1, <3>2, <3>3, PortStays
        <2>3. CASE open' = [open EXCEPT ![p] = f]
            <3>0. "fetch" \in OpenSteps /\ open[p].tries + 1 \in Int
                BY <1>0, SMT DEF Opens, OpenSteps
            <3>1. f \in Opens /\ f.pc = "fetch" /\ f.held = open[p].held
                BY <1>0, <3>0 DEF Opens
            <3> HIDE DEF f
            <3>2. /\ open' \in [Call -> Opens] /\ open'[p] = f
                  /\ \A q \in Call \ {p} : open'[q] = open[q]
                BY <1>0, <2>3, <3>1
            <3>3. OpenInv(p)'
                BY <1>0, <2>1, <3>1, <3>2 DEF OpenInv
            <3> QED BY <1>0, <2>1, <3>1, <3>2, <3>3, PortStays
        <2>4. \/ open' = [open EXCEPT ![p] = g] \/ open' = [open EXCEPT ![p] = f]
              \/ open' = [open EXCEPT ![p] = [IdleOpen EXCEPT !.pc = "refused"]]
            BY <1>11 DEF Bind
        <2> QED BY <1>9, <2>1, <2>2, <2>3, <2>4
    <1> QED BY <1>2, <1>3, <1>4, <1>5, <1>6, <1>7, <1>8, <1>10, <1>11

\* The end of a listener's task frees its port; nothing else moves one.
LEMMA PortStep ==
    ASSUME PortInv, Room', [Next]_vars
    PROVE  PortInv'
    <1>0. open \in [Call -> Opens] /\ task \in [Call -> {"none", "accept", "stop", "ended"}]
        BY DEF PortInv
    <1>1. ASSUME UNCHANGED <<next_port, open, task>> PROVE PortInv'
        BY <1>1 DEF PortInv, OpenInv, Storing
    <1>2. ASSUME NEW p \in Call, LeaseEnds(p) \/ LoseReclaim(p) PROVE PortInv'
        BY <1>1, <1>2 DEF LeaseEnds, LoseReclaim, ports
    <1>3. ASSUME NEW p \in Call, handle_reclaimed(p) PROVE PortInv'
        <2>1. /\ task' \in [Call -> {"none", "accept", "stop", "ended"}]
              /\ (task'[p] # "none" => task[p] # "none") /\ \A q \in Call \ {p} : task'[q] = task[q]
              /\ UNCHANGED <<next_port, open>>
            BY <1>0, <1>3 DEF handle_reclaimed, Stop, ports
        <2>2. Storing' = Storing /\ \A q \in Call : OpenInv(q)'
            BY <2>1 DEF PortInv, OpenInv, Storing
        <2> QED BY <2>1, <2>2 DEF PortInv
    <1>4. ASSUME NEW p \in Call, TaskEnds(p) PROVE PortInv'
        <2>1. /\ open' \in [Call -> Opens] /\ open'[p].pc = open[p].pc /\ ~open'[p].held
              /\ \A q \in Call \ {p} : open'[q] = open[q] /\ task'[q] = task[q]
              /\ task' \in [Call -> {"none", "accept", "stop", "ended"}] /\ task[p] # "none"
              /\ UNCHANGED next_port
            BY <1>0, <1>4, ZenonT(30) DEF TaskEnds, Opens
        <2>2. OpenInv(p)
            BY DEF PortInv
        <2>3. open[p].pc \in {"insert", "opened", "cancel", "released"} /\ OpenInv(p)'
            BY <2>1, <2>2 DEF OpenInv
        <2> QED BY <2>1, <2>3, PortStays
    <1>5. CASE Install \/ (\E e \in Endpoint : Move(e)) \/ UNCHANGED vars
        BY <1>1, <1>5 DEF Install, Move, vars, ports
    <1>6. CASE \E k \in Conn : Resolve(k) \/ ResolveFails(k) \/ Connect(k) \/ HangUp(k)
                               \/ \E p \in Call : Accept(k, p)
        BY <1>1, <1>6 DEF Resolve, ResolveFails, Connect, HangUp, Accept, ports
    <1> QED BY <1>2, <1>3, <1>4, <1>5, <1>6, CounterSteps, CallSteps DEF Next, OpenStep

\* It holds before the first call.
LEMMA PortBoot == Init => PortInv
    <1> SUFFICES ASSUME Init PROVE PortInv
        OBVIOUS
    <1>1. IdleOpen \in Opens
        BY SMT DEF IdleOpen, Opens, OpenSteps
    <1>2. open \in [Call -> Opens] /\ \A p \in Call : open[p] = IdleOpen
        BY <1>1 DEF Init
    <1>3. Storing = {}
        BY <1>2, SMT DEF Storing, IdleOpen
    <1>4. IsFiniteSet(Storing) /\ Cardinality(Storing) = 0
        BY <1>3, FS_EmptySet
    <1>5. next_port = MinPort /\ task = [p \in Call |-> "none"]
        BY DEF Init
    <1>6. \A p \in Call : OpenInv(p)
        BY <1>2, <1>5, SMT DEF OpenInv, IdleOpen
    <1>7. next_port \in MinPort..(MaxPort + Cardinality(Storing))
        BY <1>4, <1>5, ProxyAssumption, SMT
    <1> QED BY <1>2, <1>4, <1>5, <1>6, <1>7 DEF PortInv

\* Every listener is inside the configured range as long as the counter has
\* room past the end of the range for the calls that are between its two
\* operations (bind_listener).
THEOREM PortInRangeWithRoom == Spec /\ []Room => []PortInRange
    <1>1. PortInv => PortInRange
        BY DEF PortInv, OpenInv, PortInRange
    <1>2. PortInv /\ Room' /\ [Next]_vars => PortInv'
        BY PortStep
    <1> QED BY <1>1, <1>2, PortBoot, PTL DEF Spec

\* With fewer concurrent calls than there are numbers past the range every
\* listener is inside it.
THEOREM PortInRangeHolds ==
    ASSUME IsFiniteSet(Call), MaxPort + Cardinality(Call) < Width
    PROVE  Spec => []PortInRange
    <1>1. Room
        <2>1. Storing \subseteq Call
            BY DEF Storing
        <2>2. Cardinality(Storing) <= Cardinality(Call) /\ Cardinality(Storing) \in Nat /\ Cardinality(Call) \in Nat
            BY <2>1, FS_Subset, FS_CardinalityType
        <2> QED BY <2>2, ProxyAssumption, SMT DEF Room
    <1> QED BY <1>1, PortInRangeWithRoom, PTL
=============================================================================
