-------------------------- MODULE SelfRegistration --------------------------
(***************************************************************************)
(* A Djinn service that keeps itself registered (coordin8-bootstrap,       *)
(* self_register) from boot to graceful shutdown (services.rs), against a  *)
(* Registry that fails, restarts and forgets; and another holder of its    *)
(* lease that modifies the entry's attributes.                             *)
(***************************************************************************)
EXTENDS Registry

CONSTANTS me, tool   \* the service's request, and that of the other holder

ASSUME CallerAssumption == Caller = {me, tool} /\ me # tool

VARIABLES
    svc,         \* the service: step, the ids its request cites, the live
                 \* lease it knows (CurrentRegistration), told to stop
    lost         \* history: ids of registrations the service does not know,
                 \* or no longer knows

vars == <<registry, svc, lost>>

Init ==
    /\ RegistryInit
    /\ svc = [pc |-> "boot", req |-> NoCap, cur |-> NoCap, stop |-> FALSE, clean |-> FALSE]
    /\ lost = {}

Cited == {svc.req, svc.cur}

\* Register, with the request's capability_id if it has one.
Send(c) == call' = [call EXCEPT ![me] =
               [IdleCall EXCEPT !.pc = IF c = NoCap THEN "new" ELSE "get", !.cap = c]]
Hung == call' = [call EXCEPT ![me] = IdleCall]
Replied == call[me].pc = "done"

\* spawn_registration: dial the Registry and register, until it succeeds.
Dial ==
    /\ svc.pc = "boot" /\ ~svc.stop /\ call[me].pc = "idle"
    /\ Send(NoCap)
    /\ svc' = [svc EXCEPT !.pc = "first"]
    /\ UNCHANGED <<provider, store, lease, remover, spent, lost>>

Registered ==
    /\ svc.pc = "first" /\ Replied
    /\ svc' = IF call[me].ans = "ok"
              THEN [svc EXCEPT !.pc = "idle", !.req = call[me].cap, !.cur = call[me].cap]
              ELSE [svc EXCEPT !.pc = "boot"]
    /\ lost' = lost \cup IF call[me].ans = "ok" THEN {} ELSE {call[me].cap}
    /\ Hung
    /\ UNCHANGED <<provider, store, lease, remover, spent>>

\* Every ttl/3 the renewal task registers again.
Tick ==
    /\ svc.pc = "idle" /\ call[me].pc = "idle"
    /\ Send(svc.req)
    /\ svc' = [svc EXCEPT !.pc = "renewing"]
    /\ UNCHANGED <<provider, store, lease, remover, spent, lost>>

\* Mutant: an entry that is not found is a transient error.
only_expired(ans) == ans = "precondition"

entry_is_unusable(ans) == ans \in {"not_found", "precondition"}

\* The answer: keep the lease it names; or start afresh; or try again later.
Renewed ==
    LET a == call[me].ans IN
    /\ svc.pc = "renewing" /\ Replied
    /\ IF entry_is_unusable(a)
       THEN /\ Send(NoCap)
            /\ svc' = [svc EXCEPT !.pc = "fresh", !.req = NoCap, !.cur = NoCap]
       ELSE /\ Hung
            /\ svc' = [svc EXCEPT !.pc = "idle", !.cur = IF a = "ok" THEN call[me].cap ELSE @]
    /\ lost' = lost \cup (IF entry_is_unusable(a) THEN {svc.req}
                         ELSE IF svc.req # NoCap THEN {}
                         ELSE IF a = "ok" THEN {svc.cur} ELSE {call[me].cap})
    /\ UNCHANGED <<provider, store, lease, remover, spent>>

\* The fresh registration: adopt it, or leave the ids empty for the next tick.
Reregistered ==
    /\ svc.pc = "fresh" /\ Replied
    /\ svc' = IF call[me].ans = "ok"
              THEN [svc EXCEPT !.pc = "idle", !.req = call[me].cap, !.cur = call[me].cap]
              ELSE [svc EXCEPT !.pc = "idle"]
    /\ lost' = lost \cup IF call[me].ans = "ok" THEN {} ELSE {call[me].cap}
    /\ Hung
    /\ UNCHANGED <<provider, store, lease, remover, spent>>

\* The Registry cannot be reached, or its answer is lost.
Unreachable ==
    /\ call[me].pc \in {"new", "get"} \/ (Replied /\ call[me].ans # "error")
    /\ Fault
    /\ Answer(me, "error")
    /\ UNCHANGED <<provider, store, lease, remover, svc, lost>>

-----------------------------------------------------------------------------
\* SIGTERM: serve_split drains, and deregisters first.
Shutdown ==
    /\ svc.pc # "down" /\ ~svc.stop
    /\ svc' = [svc EXCEPT !.stop = TRUE]
    /\ UNCHANGED <<registry, lost>>

\* Mutant: cancel does not wait for the renewal task.
StopAtOnce ==
    /\ svc.stop /\ svc.pc \in {"boot", "first", "idle", "renewing", "fresh"}
    /\ svc' = [svc EXCEPT !.pc = IF svc.pc \in {"boot", "first"} THEN "down" ELSE "cancel"]
    /\ UNCHANGED <<registry, lost>>

\* Registration.deregister: the task is aborted while it has no handle yet;
\* afterwards SelfRegistrationHandle.cancel stops the renewal task between
\* two ticks ...
StopRenewal ==
    /\ svc.stop /\ svc.pc \in {"boot", "first", "idle"}
    /\ svc' = [svc EXCEPT !.pc = IF svc.pc = "idle" THEN "cancel" ELSE "down"]
    /\ UNCHANGED <<registry, lost>>

\* ... and cancels the lease that is live now.
CancelLease ==
    /\ svc.pc = "cancel"
    /\ svc' = [svc EXCEPT !.pc = "down", !.clean = TRUE]
    /\ lease' = IF svc.cur \in Cap /\ lease[svc.cur] = "held"
                THEN [lease EXCEPT ![svc.cur] = "ended"] ELSE lease
    /\ UNCHANGED <<provider, store, remover, call, spent, lost>>

\* The grace period runs out, the cancel fails, or the process is killed.
Killed ==
    /\ svc.pc # "down" /\ Fault
    /\ svc' = [svc EXCEPT !.pc = "down"]
    /\ UNCHANGED <<provider, store, lease, remover, call, lost>>

\* A request nobody waits for any more ends.
Forget == svc.pc = "down" /\ Replied /\ Hung
          /\ UNCHANGED <<provider, store, lease, remover, spent, svc, lost>>

-----------------------------------------------------------------------------
\* A lease that nobody renews runs out; one that is renewed does so only when
\* the renewal comes too late.  (Not while an in-memory Register that has just
\* granted it is still running: that takes less than the shortest TTL.)
LeaseRunsOut(c) ==
    /\ lease[c] = "held"
    /\ Local => ~(call[me].cap = c /\ call[me].pc \in {"index", "insert"})
    /\ IF svc.pc # "down" /\ (c = svc.req \/ (call[me].cap = c /\ call[me].pc # "idle"))
       THEN Fault ELSE UNCHANGED spent
    /\ lease' = [lease EXCEPT ![c] = "ended"]
    /\ UNCHANGED <<provider, store, remover, call, svc, lost>>

\* ModifyAttrs by another holder of the lease id.
ModifyAttrs(A) ==
    /\ call[tool].pc = "idle" /\ modifies < MaxModify /\ svc.req \in Cap
    /\ modifies' = modifies + 1
    /\ call' = [call EXCEPT ![tool] = [IdleCall EXCEPT !.pc = "modify", !.cap = svc.req, !.put = A]]
    /\ UNCHANGED <<provider, store, lease, remover, faults, svc, lost>>

Modified ==
    /\ call[tool].pc = "done" /\ call' = [call EXCEPT ![tool] = IdleCall]
    /\ UNCHANGED <<provider, store, lease, remover, spent, svc, lost>>

Service == Dial \/ Registered \/ Tick \/ Renewed \/ Reregistered \/ StopRenewal \/ CancelLease
\* (An id that is granted again is a new one; see Grant.)
Server(q) == Serve(q, Cited) /\ UNCHANGED svc /\ lost' = {c \in lost \cap Cap : lease[c] = "held"}
Reclaim(c) == (Cascade(c) \/ Sweep(c) \/ Delete(c)) /\ UNCHANGED <<svc, lost>>
Trouble == ((\E q \in Caller : CallFails(q)) \/ (\E c \in Cap : DeleteFails(c)) \/ RegistryRestart) /\ UNCHANGED <<svc, lost>>

Next ==
    \/ Service \/ Unreachable \/ Shutdown \/ Killed \/ Forget \/ Modified \/ Trouble
    \/ \E q \in Caller : Server(q)
    \/ \E c \in Cap : Reclaim(c) \/ LeaseRunsOut(c) \/ (Settle(c) /\ UNCHANGED <<svc, lost>>)
    \/ \E A \in SUBSET Key : ModifyAttrs(A)

Spec == Init /\ [][Next]_vars

\* Tasks that can run do, timers fire, requests are answered.
Fairness ==
    /\ WF_vars(Service)
    /\ WF_vars(Forget \/ Modified)
    /\ \A q \in Caller : WF_vars(call[q].pc \notin {"idle", "done"} /\ Server(q))
    /\ \A c \in Cap : /\ WF_vars(lease[c] = "ended" /\ Reclaim(c))
                      /\ WF_vars(c # svc.req /\ LeaseRunsOut(c))

LiveSpec == Spec /\ Fairness

-----------------------------------------------------------------------------
TypeOK ==
    /\ RegistryTypeOK
    /\ svc \in [pc : {"boot", "first", "idle", "renewing", "fresh", "cancel", "down"},
                req : Cap \cup {NoCap}, cur : Cap \cup {NoCap}, stop : BOOLEAN, clean : BOOLEAN]
    /\ lost \subseteq Cap \cup {NoCap}

Live(c) == entries[c].there /\ lease[c] = "held"

\* "Otherwise a single missed TTL window makes this service invisible in
\* Registry forever": a service that runs is found in the Registry again,
\* after whatever failed, restarted or expired (the renewal task).
StaysVisible ==
    (svc.pc # "down" /\ ~svc.stop) ~> ((\E c \in Cap : Live(c)) \/ svc.stop \/ svc.pc = "down")

\* After a graceful shutdown no lease is held, now or later, but those the
\* service could not know to cancel (deregister, SelfRegistrationHandle::cancel):
\* of a registration whose answer it did not get, of an entry that Registry
\* refused to renew, and of one that a later registration replaced in a task
\* without an id to renew (see AdoptsRegistration).
DeregisteredIsGone == svc.clean => \A c \in Cap : lease[c] = "held" => c \in lost

\* "Stop renewing to disappear": an entry whose lease ended, and that the store
\* finds by its lease, is removed, whatever is half-way (the cascade, the
\* sweep, remove_by_lease).
StopRenewingToDisappear ==
    \A c \in Cap :
        (lease[c] = "ended" /\ (Dynamo \/ c \in index)) ~> (~entries[c].there \/ lease[c] = "held")

\* "Adopts whatever new capability_id/lease comes back for every renewal after
\* that": between two ticks, the renewal task renews the entry it knows to be
\* live (the renewal task).
AdoptsRegistration == svc.pc = "idle" /\ svc.cur # NoCap => svc.req = svc.cur
=============================================================================
