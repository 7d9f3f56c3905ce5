----------------------------- MODULE LeaseTerm ------------------------------
(***************************************************************************)
(* What a lease promises its holder: it stands until the time the holder   *)
(* was last told, unless the holder gives it up; once it has ended it never *)
(* comes back; and an end is announced only after it happened.             *)
(***************************************************************************)
EXTENDS Naturals

CONSTANTS Lease, Time

VARIABLES
    now,        \* the clock
    status,     \* each lease: "unused", "standing" or "ended"
    until,      \* the time each holder was last told
    asked,      \* leases somebody asked to cancel
    announced   \* leases whose end was announced

vars == <<now, status, until, asked, announced>>

Init ==
    /\ now = 0
    /\ status = [l \in Lease |-> "unused"]
    /\ until = [l \in Lease |-> 0]
    /\ asked = {}
    /\ announced = {}

Pass ==
    /\ now' = now + 1
    /\ UNCHANGED <<status, until, asked, announced>>

Promise(l, t) ==
    /\ status[l] \in {"unused", "standing"}
    /\ status' = [status EXCEPT ![l] = "standing"]
    /\ until' = [until EXCEPT ![l] = t]
    /\ UNCHANGED <<now, asked, announced>>

AskCancel(l) ==
    /\ asked' = asked \cup {l}
    /\ UNCHANGED <<now, status, until, announced>>

End(l) ==
    /\ status[l] = "standing"
    /\ l \in asked \/ until[l] <= now
    /\ status' = [status EXCEPT ![l] = "ended"]
    /\ UNCHANGED <<now, until, asked, announced>>

\* A batch of ends is announced at once.
Announce(S) ==
    /\ \A l \in S : status[l] = "ended"
    /\ announced' = announced \cup S
    /\ UNCHANGED <<now, status, until, asked>>

Next ==
    \/ Pass
    \/ \E l \in Lease : \/ \E t \in Time : Promise(l, t)
                        \/ AskCancel(l)
                        \/ End(l)
    \/ \E S \in SUBSET Lease : Announce(S)

Spec == Init /\ [][Next]_vars
=============================================================================
