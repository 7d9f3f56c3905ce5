-------------------------------- MODULE Proxy --------------------------------
(***************************************************************************)
(* The Proxy (coordin8-proxy) in split mode: leased listeners on a port    *)
(* range, each forwarding a connection to an endpoint it looks up in the   *)
(* Registry at that moment, through a resolver that is installed once the  *)
(* Registry was reached (coordin8-bootstrap).                              *)
(***************************************************************************)
EXTENDS Integers, FiniteSets

CONSTANTS
    Call,        \* Open calls, and the proxies they make
    Conn,        \* client connections open at a time
    Endpoint,    \* services that come and go in the Registry
    Nowhere,     \* no endpoint, no proxy
    MinPort, MaxPort,   \* PROXY_PORT_MIN, PROXY_PORT_MAX
    Width,       \* ports are numbers modulo Width (2^16)
    Busy,        \* ports another process holds
    MaxMove,     \* bound: endpoints registered or gone
    MaxFault     \* bound: lost reclaims, failing calls, accept errors

ASSUME ProxyAssumption ==
    /\ Nowhere \notin Call \cup Endpoint
    /\ MaxPort \in Nat /\ Width \in Nat /\ MinPort \in 1..MaxPort /\ MaxPort < Width
    /\ Busy \subseteq MinPort..MaxPort
    /\ MaxMove \in Nat /\ MaxFault \in Nat

VARIABLES
    resolver,    \* PendingCapabilityResolver: "pending" or "ready"
    registered,  \* endpoints a Lookup may return now
    next_port,
    proxies,     \* the map of open proxies
    open,        \* each Open call: step, attempts, the port it holds or tries
    task,        \* each proxy's accept task: "none", "accept", "stop", "ended"
    lease,       \* of each proxy: "none", "held" or "ended"
    reclaims,    \* reclaims on their way to the cascade, in any order
    missed,      \* (history) reclaims the cascade never saw
    conn,        \* each connection: step, proxy, endpoint, and (history) the
                 \* endpoints registered at some time since it was accepted
    moves, faults

ports == <<next_port, open>>
leases == <<lease, reclaims, missed>>
spent == <<moves, faults>>
vars == <<resolver, registered, ports, proxies, task, leases, conn, spent>>

IdleOpen == [pc |-> "idle", tries |-> 0, port |-> 0, held |-> FALSE]
IdleConn == [pc |-> "idle", proxy |-> Nowhere, to |-> Nowhere, since |-> {}]

Init ==
    /\ resolver = "pending" /\ registered \in SUBSET Endpoint
    /\ next_port = MinPort /\ proxies = {}
    /\ open = [p \in Call |-> IdleOpen] /\ task = [p \in Call |-> "none"]
    /\ lease = [p \in Call |-> "none"] /\ reclaims = {} /\ missed = {}
    /\ conn = [k \in Conn |-> IdleConn]
    /\ moves = 0 /\ faults = 0

Fault == faults < MaxFault /\ faults' = faults + 1 /\ UNCHANGED moves
Goto(p, l) == open' = [open EXCEPT ![p].pc = l]
\* Port 0 asks the operating system for any free port.
Free(port) ==
    port = 0 \/ (port \notin Busy /\ \A p \in Call : ~(open[p].held /\ open[p].port = port))

-----------------------------------------------------------------------------
\* The background task reaches the Registry and installs the resolver.
Install ==
    /\ resolver = "pending" /\ resolver' = "ready"
    /\ UNCHANGED <<registered, ports, proxies, task, leases, conn, spent>>

\* A service appears in the Registry, or is gone.
Move(e) ==
    /\ moves < MaxMove /\ moves' = moves + 1
    /\ registered' = IF e \in registered THEN registered \ {e} ELSE registered \cup {e}
    /\ conn' = [k \in Conn |-> IF conn[k].pc \in {"idle", "closed"} THEN conn[k]
                               ELSE [conn[k] EXCEPT !.since = @ \cup registered']]
    /\ UNCHANGED <<resolver, ports, proxies, task, leases, faults>>

\* Mutant: a resolver that waits for the Registry.
ResolveWhenReady(p) ==
    /\ open[p].pc = "idle" /\ resolver = "pending"
    /\ Goto(p, "resolve")
    /\ UNCHANGED <<resolver, registered, next_port, proxies, task, leases, conn, spent>>

\* A caller opens a proxy before the Registry was reached: refused at once.
OpenUnavailable(p) ==
    /\ open[p].pc = "idle" /\ resolver = "pending"
    /\ Goto(p, "refused")
    /\ UNCHANGED <<resolver, registered, next_port, proxies, task, leases, conn, spent>>

\* ProxyManager.open: there is a match now ...
OpenResolve(p) ==
    /\ open[p].pc = "idle" /\ resolver = "ready"
    /\ Goto(p, IF registered = {} THEN "refused" ELSE "fetch")
    /\ UNCHANGED <<resolver, registered, next_port, proxies, task, leases, conn, spent>>

\* ... a port: fetch_add ...
BindFetch(p) ==
    /\ open[p].pc = "fetch"
    /\ next_port' = (next_port + 1) % Width
    /\ open' = [open EXCEPT ![p].pc = "store", ![p].port = next_port]
    /\ UNCHANGED <<resolver, registered, proxies, task, leases, conn, spent>>

\* Mutant: the number past the range is tried before the counter wraps.
StoreNext(p) ==
    /\ open[p].pc = "store"
    /\ next_port' = IF open[p].port >= MaxPort THEN MinPort ELSE open[p].port + 1
    /\ Goto(p, "bind")
    /\ UNCHANGED <<resolver, registered, proxies, task, leases, conn, spent>>

\* ... and store, two operations on the shared counter ...
BindStore(p) ==
    LET port == IF open[p].port > MaxPort THEN MinPort ELSE open[p].port IN
    /\ open[p].pc = "store"
    /\ next_port' = IF port >= MaxPort THEN MinPort ELSE port + 1
    /\ open' = [open EXCEPT ![p].pc = "bind", ![p].port = port]
    /\ UNCHANGED <<resolver, registered, proxies, task, leases, conn, spent>>

\* ... until one can be bound, or as many were tried as the range has.
Bind(p) ==
    LET tries == open[p].tries + 1 IN
    /\ open[p].pc = "bind"
    /\ open' = [open EXCEPT ![p] =
          IF Free(@.port) THEN [@ EXCEPT !.pc = "grant", !.tries = 0, !.held = TRUE]
          ELSE IF tries = MaxPort - MinPort + 1 THEN [IdleOpen EXCEPT !.pc = "refused"]
          ELSE [@ EXCEPT !.pc = "fetch", !.tries = tries]]
    /\ UNCHANGED <<resolver, registered, next_port, proxies, task, leases, conn, spent>>

\* The lease; if that fails, or the client has gone, the listener is dropped.
OpenGrant(p) ==
    /\ open[p].pc = "grant"
    /\ lease' = [lease EXCEPT ![p] = "held"]
    /\ Goto(p, "spawn")
    /\ UNCHANGED <<resolver, registered, next_port, proxies, task, reclaims, missed, conn, spent>>

\* (the lease may have been stored when the client went).
OpenFails(p) ==
    /\ \/ open[p].pc = "idle" /\ resolver = "ready"
       \/ open[p].pc \in {"bind", "grant"}
    /\ Fault
    /\ open' = [open EXCEPT ![p] = [IdleOpen EXCEPT !.pc = "refused"]]
    /\ \/ UNCHANGED lease
       \/ open[p].pc = "grant" /\ lease' = [lease EXCEPT ![p] = "held"]
    /\ UNCHANGED <<resolver, registered, next_port, proxies, task, reclaims, missed, conn>>

\* The accept task is spawned, and only then the proxy put into the map.
OpenSpawn(p) ==
    /\ open[p].pc = "spawn"
    /\ task' = [task EXCEPT ![p] = "accept"]
    /\ Goto(p, "insert")
    /\ UNCHANGED <<resolver, registered, next_port, proxies, leases, conn, spent>>

OpenInsert(p) ==
    /\ open[p].pc = "insert"
    /\ proxies' = proxies \cup {p}
    /\ Goto(p, "opened")
    /\ UNCHANGED <<resolver, registered, next_port, task, leases, conn, spent>>

-----------------------------------------------------------------------------
\* A proxy leaves the map, and the sender kept there ends its task.
Stop(p) ==
    /\ proxies' = proxies \ {p}
    /\ task' = [task EXCEPT ![p] = IF p \in proxies /\ @ = "accept" THEN "stop" ELSE @]

\* Release: close the proxy ...
Close(p) ==
    /\ open[p].pc = "opened" /\ p \in proxies
    /\ Stop(p)
    /\ Goto(p, "cancel")
    /\ UNCHANGED <<resolver, registered, next_port, leases, conn, spent>>

\* ... then cancel its lease, which may have ended by now.
CloseCancel(p) ==
    /\ open[p].pc = "cancel"
    /\ lease' = [lease EXCEPT ![p] = "ended"]
    /\ reclaims' = IF lease[p] = "held" THEN reclaims \cup {p} ELSE reclaims
    /\ Goto(p, "released")
    /\ UNCHANGED <<resolver, registered, next_port, proxies, task, missed, conn, spent>>

\* The cancel fails and is logged, or the client has gone.
CloseFails(p) ==
    /\ open[p].pc = "cancel" /\ Fault
    /\ Goto(p, "released")
    /\ UNCHANGED <<resolver, registered, next_port, proxies, task, leases, conn>>

\* The lease runs out, or is cancelled at the Proxy's lease service.
LeaseEnds(p) ==
    /\ lease[p] = "held"
    /\ lease' = [lease EXCEPT ![p] = "ended"]
    /\ reclaims' = reclaims \cup {p}
    /\ UNCHANGED <<resolver, registered, ports, proxies, task, missed, conn, spent>>

\* The cascade lags: it misses a reclaim and goes on.
LoseReclaim(p) ==
    /\ p \in reclaims /\ Fault
    /\ reclaims' = reclaims \ {p} /\ missed' = missed \cup {p}
    /\ UNCHANGED <<resolver, registered, ports, proxies, task, lease, conn>>

\* Mutant: the cascade ends when it has lagged.
handle_until_lag(p) ==
    /\ p \in reclaims /\ missed = {}
    /\ reclaims' = reclaims \ {p}
    /\ Stop(p)
    /\ UNCHANGED <<resolver, registered, ports, lease, missed, conn, spent>>

\* A proxy that is not in the map (not yet, or no more) is ignored.
handle_reclaimed(p) ==
    /\ p \in reclaims
    /\ reclaims' = reclaims \ {p}
    /\ Stop(p)
    /\ UNCHANGED <<resolver, registered, ports, lease, missed, conn, spent>>

\* The task ends, on its signal or on an accept error: it drops the listener
\* and takes the proxy out of the map.
TaskEnds(p) ==
    /\ \/ task[p] = "stop" /\ UNCHANGED spent
       \/ task[p] = "accept" /\ Fault
    /\ task' = [task EXCEPT ![p] = "ended"]
    /\ proxies' = proxies \ {p}
    /\ open' = [open EXCEPT ![p].port = 0, ![p].held = FALSE]
    /\ UNCHANGED <<resolver, registered, next_port, leases, conn>>

-----------------------------------------------------------------------------
\* Mutant: a proxy that has forwarded before uses that endpoint again.
AcceptCached(k, p) ==
    /\ conn[k].pc \in {"idle", "closed"} /\ task[p] \in {"accept", "stop"}
    /\ conn' = [conn EXCEPT ![k] =
          IF @.proxy = p /\ @.to # Nowhere
          THEN [@ EXCEPT !.pc = "connect", !.since = registered]
          ELSE [pc |-> "resolve", proxy |-> p, to |-> Nowhere, since |-> registered]]
    /\ UNCHANGED <<resolver, registered, ports, proxies, task, leases, spent>>

\* accept_loop takes a connection (also with its signal already sent: select!
\* polls its branches in any order) ...
Accept(k, p) ==
    /\ conn[k].pc \in {"idle", "closed"} /\ task[p] \in {"accept", "stop"}
    /\ conn' = [conn EXCEPT ![k] = [pc |-> "resolve", proxy |-> p, to |-> Nowhere,
                                    since |-> registered]]
    /\ UNCHANGED <<resolver, registered, ports, proxies, task, leases, spent>>

\* ... forward looks up where to: nothing matches, or one that does ...
Resolve(k) ==
    /\ conn[k].pc = "resolve"
    /\ \/ registered = {} /\ conn' = [conn EXCEPT ![k].pc = "closed"]
       \/ \E e \in registered : conn' = [conn EXCEPT ![k].pc = "connect", ![k].to = e]
    /\ UNCHANGED <<resolver, registered, ports, proxies, task, leases, spent>>

\* (the lookup fails, also after it has reconnected to the Registry, or the
\* entry has no transport) ...
ResolveFails(k) ==
    /\ conn[k].pc = "resolve" /\ Fault
    /\ conn' = [conn EXCEPT ![k].pc = "closed"]
    /\ UNCHANGED <<resolver, registered, ports, proxies, task, leases>>

\* ... and copies both ways if it can be reached, registered or not by now.
Connect(k) ==
    /\ conn[k].pc = "connect"
    /\ \E l \in {"open", "closed"} : conn' = [conn EXCEPT ![k].pc = l]
    /\ UNCHANGED <<resolver, registered, ports, proxies, task, leases, spent>>

\* Either side closes the connection.
HangUp(k) ==
    /\ conn[k].pc = "open"
    /\ conn' = [conn EXCEPT ![k].pc = "closed"]
    /\ UNCHANGED <<resolver, registered, ports, proxies, task, leases, spent>>

OpenStep(p) ==
    \/ OpenUnavailable(p) \/ OpenResolve(p) \/ BindFetch(p) \/ BindStore(p) \/ Bind(p)
    \/ OpenGrant(p) \/ OpenSpawn(p) \/ OpenInsert(p)
TaskStep(p) == handle_reclaimed(p) \/ (task[p] = "stop" /\ TaskEnds(p))

Next ==
    \/ Install
    \/ \E e \in Endpoint : Move(e)
    \/ \E p \in Call : \/ OpenStep(p) \/ OpenFails(p) \/ Close(p) \/ CloseCancel(p)
                       \/ CloseFails(p) \/ LeaseEnds(p)
                       \/ LoseReclaim(p) \/ handle_reclaimed(p) \/ TaskEnds(p)
    \/ \E k \in Conn : Resolve(k) \/ ResolveFails(k) \/ Connect(k) \/ HangUp(k)
                       \/ \E p \in Call : Accept(k, p)

Spec == Init /\ [][Next]_vars

\* An Open call that has begun goes on, the cascade and the accept tasks run.
\* The Registry need never be reached.
Fairness == \A p \in Call : /\ WF_vars(open[p].pc # "idle" /\ OpenStep(p))
                            /\ WF_vars(TaskStep(p))

LiveSpec == Spec /\ Fairness

-----------------------------------------------------------------------------
TypeOK ==
    /\ resolver \in {"pending", "ready"} /\ registered \subseteq Endpoint
    /\ next_port \in 0..(Width - 1) /\ proxies \subseteq Call
    /\ open \in [Call -> [pc : {"idle", "resolve", "fetch", "store", "bind", "grant", "spawn",
                                "insert", "opened", "cancel", "released", "refused"},
                          tries : 0..(MaxPort - MinPort), port : 0..(Width - 1), held : BOOLEAN]]
    /\ task \in [Call -> {"none", "accept", "stop", "ended"}]
    /\ lease \in [Call -> {"none", "held", "ended"}] /\ reclaims \cup missed \subseteq Call
    /\ \A k \in Conn : conn[k].to \in Endpoint \cup {Nowhere} /\ conn[k].since \subseteq Endpoint

\* Every listener is inside the configured range, though concurrent Open calls
\* move the shared counter past its end (bind_listener). It needs room between
\* MaxPort and the largest 16-bit number: see README, Known divergences.
PortInRange == \A p \in Call : open[p].held => open[p].port \in MinPort..MaxPort

\* A connection is only sent to an endpoint that was registered at some time
\* after the connection came in, however long its proxy has been open (forward).
FreshTarget == \A k \in Conn : conn[k].to # Nowhere => conn[k].to \in conn[k].since

\* The reclaim of an open proxy removes it and gives its port back, unless that
\* very reclaim was missed: missing another one does not end the cascade
\* (spawn_cascade, handle_reclaimed, the accept task).
ReclaimedIsClosed ==
    \A p \in Call : (p \in reclaims /\ p \in proxies) ~> ((p \notin proxies /\ ~open[p].held) \/ p \in missed)

\* An Open call returns, also when the Registry was never reached
\* (PendingCapabilityResolver: "never hanging the caller").
OpenReturns == \A p \in Call : open[p].pc # "idle" ~> open[p].pc \in {"opened", "cancel", "released", "refused"}
=============================================================================
