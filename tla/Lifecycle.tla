------------------------------ MODULE Lifecycle ------------------------------
(***************************************************************************)
(* A Djinn process from boot to its end (coordin8-djinn, services.rs): the *)
(* bundled one, which serves the Registry its own services register with,  *)
(* and the split Proxy, which serves before it has found the Registry.     *)
(***************************************************************************)
EXTENDS Naturals, Sequences, FiniteSets

CONSTANTS
    Registered,     \* the services a bundled process registers, in their order
    MaxCall,        \* bound: requests in flight
    MaxTry          \* bound: Register requests of one service

ASSUME LifecycleAssumption ==
    /\ Registered \in Seq(STRING) /\ \E n \in DOMAIN Registered : Registered[n] = "Proxy"
    /\ MaxCall \in Nat /\ MaxTry \in Nat

VARIABLES
    bundled,     \* the bundled process, or the split Proxy
    phase,       \* "run", "stop" (deregister), "drain"; "clean", "late", "failed"
    left,        \* registrations that are still to be cancelled
    task,        \* of each: "trying", "sent", "held" (a handle) or "over"
    made,        \* of each: its Register requests so far, which number them
    known,       \* of each: the one whose lease its handle would cancel, or 0
    asked,       \* requests that the Registry has still to serve
    leased,      \* ... whose lease is held
    lost,        \* history: those no handle knows, or whose cancel failed
    calls,       \* requests in flight, streams included
    health,      \* "none" (bundled), "not_serving" or "serving"
    discovery,   \* the Proxy's background task: "dial", "tell" or "over"
    resolves     \* the Proxy's resolver is installed

ids == <<made, known>>
leasing == <<asked, leased, lost>>
proxy == <<health, discovery, resolves>>
lifeVars == <<bundled, phase, left, task, ids, leasing, calls, proxy>>

Name == {Registered[n] : n \in DOMAIN Registered}
Ours == {left[n] : n \in DOMAIN left}
Running == phase \in {"run", "stop", "drain"}

\* A bundled process accepts no request once it drains; the Proxy's Registry
\* is another process.
RegistryServes == bundled => phase \in {"run", "stop"}

LifeInit ==
    /\ bundled \in BOOLEAN /\ phase = "run"
    /\ left = IF bundled THEN Registered ELSE <<"Proxy">>
    /\ task = [s \in Name |-> "trying"] /\ made = [s \in Name |-> 0] /\ known = made
    /\ asked = {} /\ leased = {} /\ lost = {}
    /\ calls = 0 /\ discovery = "dial" /\ resolves = FALSE
    /\ health = IF bundled THEN "none" ELSE "not_serving"

\* self_register_retrying: ask for a registration ...
Register(s) ==
    /\ s \in Ours /\ Running /\ RegistryServes
    /\ task[s] = "trying" /\ made[s] < MaxTry
    /\ task' = [task EXCEPT ![s] = "sent"] /\ made' = [made EXCEPT ![s] = @ + 1]
    /\ asked' = asked \cup {<<s, made'[s]>>}
    /\ UNCHANGED <<bundled, phase, left, known, leased, lost, calls, proxy>>

\* ... which the Registry grants a lease or fails to, also when the task that
\* asked has been aborted.  (The entry follows its lease: see Registry.)
Grants(r) ==
    /\ r \in asked /\ (bundled => Running)
    /\ asked' = asked \ {r} /\ leased' \in {leased, leased \cup {r}}
    /\ UNCHANGED <<bundled, phase, left, task, ids, lost, calls, proxy>>

\* The answer: leave the handle in the slot; or it is an error, or does not
\* come, and the task tries again.
RegisterReturns(s) ==
    LET r == <<s, made[s]>> IN
    /\ s \in Ours /\ Running /\ task[s] = "sent"
    /\ \/ /\ r \in leased \ asked
          /\ task' = [task EXCEPT ![s] = "held"] /\ known' = [known EXCEPT ![s] = made[s]]
          /\ UNCHANGED lost
       \/ task' = [task EXCEPT ![s] = "trying"] /\ lost' = lost \cup {r} /\ UNCHANGED known
    /\ UNCHANGED <<bundled, phase, left, made, asked, leased, calls, proxy>>

\* The renewal task gives a registration up that Registry refuses to renew, and
\* makes another; when that one fails, it knows none.  (deregister waits for
\* the task; see SelfRegistration.)
Reregister(s) ==
    LET r == <<s, made[s] + 1>> IN
    /\ s \in Ours /\ Running /\ RegistryServes
    /\ task[s] = "held" /\ made[s] < MaxTry
    /\ made' = [made EXCEPT ![s] = @ + 1] /\ leased' \in {leased, leased \cup {r}}
    /\ \/ /\ r \in leased' /\ known' = [known EXCEPT ![s] = made'[s]]
          /\ lost' = lost \cup {<<s, known[s]>>}
       \/ /\ known' = [known EXCEPT ![s] = 0]
          /\ lost' = lost \cup {<<s, known[s]>>, r}
    /\ UNCHANGED <<bundled, phase, left, task, asked, calls, proxy>>

\* "Resolve Registry in the background; flip health to Serving once found."
Discover ==
    /\ ~bundled /\ Running
    /\ \/ discovery = "dial" /\ discovery' = "tell" /\ resolves' = TRUE /\ UNCHANGED health
       \/ discovery = "tell" /\ discovery' = "over" /\ health' = "serving" /\ UNCHANGED resolves
    /\ UNCHANGED <<bundled, phase, left, task, ids, leasing, calls>>

\* A request, on one of the servers; it returns, a stream when it is told to.
Request ==
    /\ phase \in {"run", "stop"} /\ calls < MaxCall /\ calls' = calls + 1
    /\ UNCHANGED <<bundled, phase, left, task, ids, leasing, proxy>>

Return ==
    /\ Running /\ calls > 0 /\ calls' = calls - 1
    /\ UNCHANGED <<bundled, phase, left, task, ids, leasing, proxy>>

\* SIGTERM or SIGINT; split, health goes to NOT_SERVING.
Stop ==
    /\ phase = "run" /\ phase' = "stop"
    /\ health' = IF bundled THEN health ELSE "not_serving"
    /\ UNCHANGED <<bundled, left, task, ids, leasing, calls, discovery, resolves>>

\* Registration.deregister, of one after the other: abort the task, and cancel
\* the lease if there is a handle.  The cancel may fail; when the process has
\* stopped its own Registry it does nothing.
deregister ==
    /\ phase \in {"stop", "drain"} /\ left # <<>>
    /\ LET s == Head(left)
           r == <<s, known[s]>>
       IN
       /\ task' = [task EXCEPT ![s] = "over"] /\ left' = Tail(left)
       /\ \/ /\ task[s] = "held" /\ leased' = (IF RegistryServes THEN leased \ {r} ELSE leased)
             /\ UNCHANGED lost
          \/ task[s] = "held" /\ RegistryServes /\ lost' = lost \cup {r} /\ UNCHANGED leased
          \/ task[s] = "sent" /\ lost' = lost \cup {<<s, made[s]>>} /\ UNCHANGED leased
          \/ task[s] = "trying" /\ UNCHANGED <<leased, lost>>
    /\ UNCHANGED <<bundled, phase, ids, asked, calls, proxy>>

\* Mutant: the servers drain first.
DrainFirst ==
    /\ phase = "stop" /\ phase' = "drain"
    /\ UNCHANGED <<bundled, left, task, ids, leasing, calls, proxy>>

\* Then end the streams and drain every server.
Drain ==
    /\ phase = "stop" /\ left = <<>> /\ phase' = "drain"
    /\ UNCHANGED <<bundled, left, task, ids, leasing, calls, proxy>>

Drained ==
    /\ phase = "drain" /\ left = <<>> /\ calls = 0 /\ (bundled => asked = {})
    /\ phase' = "clean"
    /\ UNCHANGED <<bundled, left, task, ids, leasing, calls, proxy>>

\* The grace period is over; or a server fails.
Fails ==
    /\ \/ phase \in {"stop", "drain"} /\ phase' = "late"
       \/ phase \in {"run", "drain"} /\ phase' = "failed"
    /\ UNCHANGED <<bundled, left, task, ids, leasing, calls, proxy>>

LifeNext ==
    \/ \E s \in Name : Register(s) \/ RegisterReturns(s) \/ Reregister(s)
    \/ \E r \in asked : Grants(r)
    \/ Discover \/ Request \/ Return \/ Stop \/ deregister \/ Drain \/ Drained \/ Fails

LifeTypeOK ==
    /\ bundled \in BOOLEAN /\ phase \in {"run", "stop", "drain", "clean", "late", "failed"}
    /\ Ours \subseteq Name /\ task \in [Name -> {"trying", "sent", "held", "over"}]
    /\ made \in [Name -> 0..MaxTry] /\ known \in [Name -> 0..MaxTry]
    /\ asked \cup leased \cup lost \subseteq Name \X (0..MaxTry) /\ calls \in 0..MaxCall
    /\ health \in {"none", "not_serving", "serving"}
    /\ discovery \in {"dial", "tell", "over"} /\ resolves \in BOOLEAN

\* After a clean shutdown no lease of the process's registrations is held, but
\* those nobody could cancel: the answer did not come or the task was aborted
\* before it did, Registry refused a renewal, or the cancel failed at a Registry
\* that serves ("Deregister while Registry is still serving": run_all,
\* serve_split, Registration::deregister).
CleanLeavesNothing == phase = "clean" => leased \subseteq lost

\* "On shutdown: health -> NOT_SERVING" (serve_split). It does not stay so: the
\* Proxy's discovery may succeed afterwards.
DrainingIsNotServing == phase \in {"stop", "drain"} => health # "serving"
=============================================================================
