---------------------------- MODULE OrphanSweep ----------------------------
(***************************************************************************)
(* How a service cleans up after its leases (coordin8-djinn): the cascade, *)
(* which follows the in-process broadcast of reclaimed leases and may miss *)
(* some, and under it the two-strike orphan sweep.                         *)
(*                                                                         *)
(* A resource (registry entry, tuple, watch, subscription) is named by its *)
(* lease: each has one of its own.  The stores are durable, and a lease    *)
(* read is eventually consistent: a lease granted since the last pass may  *)
(* not be readable yet.                                                    *)
(***************************************************************************)
EXTENDS Naturals, Sequences

CONSTANTS
    Lease,
    Capacity,   \* of the broadcast channel
    MaxLoss,    \* bound: reclaims that are never announced
    MaxFailure, \* bound: store errors met by the sweep
    MaxCrash    \* bound: restarts

ASSUME SweepAssumption ==
    /\ Capacity \in Nat \ {0}
    /\ MaxLoss \in Nat /\ MaxFailure \in Nat /\ MaxCrash \in Nat

VARIABLES
    status,    \* of each lease: "unused", "standing" or "gone"
    creating,  \* leases granted for a resource not yet inserted
    held,      \* leases whose resource is in the store
    readable,  \* leases granted before the end of the last pass
    channel,   \* reclaims the cascade has not received
    lagged,    \* whether its next recv returns Lagged
    cleaning,  \* tasks the cascade has spawned
    sweep,     \* where the pass is: "ticking", "looking" or "reclaiming"
    listed,    \* resources the pass has listed and not looked up
    leaseless, \* resources it found without a lease
    suspects,  \* OrphanTracker.suspects
    confirmed, \* what it is to reclaim
    losses, failures, crashes

leases  == <<status, creating, readable>>
cascade == <<channel, lagged, cleaning>>
pass    == <<sweep, listed, leaseless, suspects, confirmed>>
faults  == <<losses, failures, crashes>>
vars    == <<leases, held, cascade, pass, faults>>

Init ==
    /\ status = [l \in Lease |-> "unused"]
    /\ creating = {} /\ held = {} /\ readable = {}
    /\ channel = <<>> /\ lagged = FALSE /\ cleaning = {}
    /\ sweep = "ticking"
    /\ listed = {} /\ leaseless = {} /\ suspects = {} /\ confirmed = {}
    /\ losses = 0 /\ failures = 0 /\ crashes = 0

-----------------------------------------------------------------------------
\* A handler grants the lease first ...
Grant(l) ==
    /\ status[l] = "unused"
    /\ status' = [status EXCEPT ![l] = "standing"]
    /\ creating' = creating \cup {l}
    /\ UNCHANGED <<readable, held, cascade, pass, faults>>

\* ... and inserts the resource afterwards, whatever became of the lease.
InsertResource(l) ==
    /\ l \in creating
    /\ creating' = creating \ {l}
    /\ held' = held \cup {l}
    /\ UNCHANGED <<status, readable, cascade, pass, faults>>

\* The client disconnects between the two.
Dropped(l) ==
    /\ l \in creating
    /\ creating' = creating \ {l}
    /\ UNCHANGED <<status, readable, held, cascade, pass, faults>>

\* broadcast::Sender::send: a full channel overwrites its oldest value.
send(l) ==
    IF Len(channel) < Capacity
    THEN channel' = Append(channel, l) /\ UNCHANGED lagged
    ELSE channel' = Append(Tail(channel), l) /\ lagged' = TRUE

\* A lease expires or is cancelled, and is announced.
Reclaim(l) ==
    /\ status[l] = "standing"
    /\ status' = [status EXCEPT ![l] = "gone"]
    /\ send(l)
    /\ UNCHANGED <<creating, readable, held, cleaning, pass, faults>>

\* A lease goes silently: native TTL deletes its row, the reaper's pass fails
\* after removing it, or a cancel is dropped.
ReclaimUnseen(l) ==
    /\ losses < MaxLoss
    /\ losses' = losses + 1
    /\ status[l] = "standing"
    /\ status' = [status EXCEPT ![l] = "gone"]
    /\ UNCHANGED <<creating, readable, held, cascade, pass, failures, crashes>>

-----------------------------------------------------------------------------
\* spawn_cascade: the handler spawns a task per reclaim.
Receive ==
    /\ ~lagged /\ channel # <<>>
    /\ channel' = Tail(channel)
    /\ cleaning' = cleaning \cup {Head(channel)}
    /\ UNCHANGED <<leases, held, lagged, pass, faults>>

\* Mutant: the loop ends on a lag error.
LagStops ==
    /\ lagged
    /\ UNCHANGED vars

\* Lagged is logged and the loop goes on.
ReceiveLagged ==
    /\ lagged
    /\ lagged' = FALSE
    /\ UNCHANGED <<leases, held, channel, cleaning, pass, faults>>

\* A task removes the resource, if it is there.
Clean(l) ==
    /\ l \in cleaning
    /\ cleaning' = cleaning \ {l}
    /\ held' = held \ {l}
    /\ UNCHANGED <<leases, channel, lagged, pass, faults>>

-----------------------------------------------------------------------------
\* sweep_once lists what is held ...
SweepList ==
    /\ sweep = "ticking"
    /\ sweep' = "looking"
    /\ listed' = held
    /\ leaseless' = {}
    /\ UNCHANGED <<leases, held, cascade, suspects, confirmed, faults>>

\* ... or gives the pass up, keeping its suspects.
SweepListFails ==
    /\ sweep = "ticking"
    /\ failures < MaxFailure
    /\ failures' = failures + 1
    /\ UNCHANGED <<leases, held, cascade, pass, losses, crashes>>

\* It looks each lease up: gone, or not readable yet, is leaseless; an error
\* counts as present.
Lookup(l) ==
    /\ sweep = "looking" /\ l \in listed
    /\ listed' = listed \ {l}
    /\ \/ /\ status[l] = "gone" \/ l \notin readable
          /\ leaseless' = leaseless \cup {l}
          /\ UNCHANGED failures
       \/ status[l] = "standing" /\ UNCHANGED <<leaseless, failures>>
       \/ /\ failures < MaxFailure
          /\ failures' = failures + 1
          /\ UNCHANGED leaseless
    /\ UNCHANGED <<leases, held, cascade, sweep, suspects, confirmed, losses, crashes>>

\* Mutant: one strike is enough.
OneStrike ==
    /\ sweep = "looking" /\ listed = {}
    /\ confirmed' = leaseless
    /\ suspects' = {}
    /\ readable' = {l \in Lease : status[l] # "unused"}
    /\ sweep' = "reclaiming"
    /\ UNCHANGED <<status, creating, held, cascade, listed, leaseless, faults>>

\* Mutant: the suspects are not kept for the next pass.
Forget ==
    /\ sweep = "looking" /\ listed = {}
    /\ confirmed' = leaseless \cap suspects
    /\ suspects' = {}
    /\ readable' = {l \in Lease : status[l] # "unused"}
    /\ sweep' = "reclaiming"
    /\ UNCHANGED <<status, creating, held, cascade, listed, leaseless, faults>>

\* OrphanTracker.pass.
Tally ==
    /\ sweep = "looking" /\ listed = {}
    /\ confirmed' = leaseless \cap suspects
    /\ suspects' = leaseless \ suspects
    /\ readable' = {l \in Lease : status[l] # "unused"}
    /\ sweep' = "reclaiming"
    /\ UNCHANGED <<status, creating, held, cascade, listed, leaseless, faults>>

\* The confirmed are reclaimed through the cascade's cleanup; its errors are
\* ignored.
SweepReclaim(l) ==
    /\ sweep = "reclaiming" /\ l \in confirmed
    /\ confirmed' = confirmed \ {l}
    /\ \/ held' = held \ {l} /\ UNCHANGED failures
       \/ /\ failures < MaxFailure
          /\ failures' = failures + 1
          /\ UNCHANGED held
    /\ UNCHANGED <<leases, cascade, sweep, listed, leaseless, suspects, losses, crashes>>

SweepDone ==
    /\ sweep = "reclaiming" /\ confirmed = {}
    /\ sweep' = "ticking"
    /\ UNCHANGED <<leases, held, cascade, listed, leaseless, suspects, confirmed, faults>>

\* A restart: the stores remain.
Crash ==
    /\ crashes < MaxCrash
    /\ crashes' = crashes + 1
    /\ creating' = {}
    /\ channel' = <<>> /\ lagged' = FALSE /\ cleaning' = {}
    /\ sweep' = "ticking"
    /\ listed' = {} /\ leaseless' = {} /\ suspects' = {} /\ confirmed' = {}
    /\ UNCHANGED <<status, readable, held, losses, failures>>

-----------------------------------------------------------------------------
CascadeStep == Receive \/ ReceiveLagged

SweepStep ==
    \/ SweepList \/ Tally \/ SweepDone
    \/ \E l \in Lease : Lookup(l) \/ SweepReclaim(l)

Next ==
    \/ \E l \in Lease : \/ Grant(l) \/ InsertResource(l) \/ Dropped(l)
                        \/ Reclaim(l) \/ ReclaimUnseen(l) \/ Clean(l)
    \/ CascadeStep \/ SweepStep \/ SweepListFails \/ Crash

Spec == Init /\ [][Next]_vars

\* The sweep's interval ticks and its pass goes on; the cascade's loop and the
\* tasks it spawns are polled.
CascadeFairness == WF_vars(CascadeStep) /\ \A l \in Lease : WF_vars(Clean(l))
LiveSpec == Spec /\ CascadeFairness /\ WF_vars(SweepStep)
-----------------------------------------------------------------------------
TypeOK ==
    /\ status \in [Lease -> {"unused", "standing", "gone"}]
    /\ creating \subseteq Lease /\ held \subseteq Lease /\ readable \subseteq Lease
    /\ channel \in Seq(Lease) /\ Len(channel) <= Capacity
    /\ lagged \in BOOLEAN /\ cleaning \subseteq Lease
    /\ sweep \in {"ticking", "looking", "reclaiming"}
    /\ listed \subseteq Lease /\ leaseless \subseteq Lease
    /\ suspects \subseteq Lease /\ confirmed \subseteq Lease
    /\ losses \in 0 .. MaxLoss /\ failures \in 0 .. MaxFailure
    /\ crashes \in 0 .. MaxCrash

\* Neither the cascade nor the sweep ever removes a resource whose lease
\* stands, whatever lookups fail or lag: "deleting a live entry is far worse
\* than keeping a dead one a little longer" (sweep.rs).
NeverReclaimsLeased == [][\A l \in held \ held' : status[l] = "gone"]_vars

\* Every resource whose lease is gone is removed in the end, even if its
\* reclaim was never announced, was overwritten in the channel, was handled
\* before the resource was inserted, or was lost in a restart.
OrphansGo == \A l \in Lease : (l \in held /\ status[l] = "gone") ~> l \notin held

\* The cascade drains its channel: a lag does not end it.
CascadeDrains == channel # <<>> ~> channel = <<>>

-----------------------------------------------------------------------------
\* The inductive invariant behind NeverReclaimsLeased.  A suspect was granted
\* before the last pass ended, so the next pass can read its lease.
SweepInv ==
    /\ \A l \in Lease : status[l] = "unused" => l \notin creating \cup held \cup readable
    /\ \A l \in listed \cup leaseless \cup suspects : status[l] # "unused"
    /\ \A l \in leaseless \cap readable : sweep = "looking" => status[l] = "gone"
    /\ suspects \subseteq readable
    /\ \A l \in confirmed \cup cleaning : status[l] = "gone"
    /\ \A i \in DOMAIN channel : status[channel[i]] = "gone"
=============================================================================
