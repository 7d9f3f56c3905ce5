----------------------------- MODULE TxnOutcome -----------------------------
(***************************************************************************)
(* What a distributed transaction promises its participants: there is one  *)
(* decision, taken once, and a participant only ever does what was         *)
(* decided.  TxnManager implements it (see TxnManager!Abstract).           *)
(***************************************************************************)
CONSTANT Endpoint

VARIABLES
    decision,  \* "open", or the one outcome of the transaction
    outcome    \* per endpoint: what the participant has done

vars == <<decision, outcome>>

Verdict == {"committed", "aborted"}

Init ==
    /\ decision = "open"
    /\ outcome = [p \in Endpoint |-> {}]

\* The coordinator decides.
Decide(d) ==
    /\ decision = "open"
    /\ decision' = d
    /\ UNCHANGED outcome

\* A participant carries out the decision.
Apply(p) ==
    /\ decision \in Verdict
    /\ outcome' = [outcome EXCEPT ![p] = @ \cup {decision}]
    /\ UNCHANGED decision

\* A participant decides for all: a veto, or PrepareAndCommit on the only one.
DecideAt(p, d) ==
    /\ decision = "open"
    /\ decision' = d
    /\ outcome' = [outcome EXCEPT ![p] = @ \cup {d}]

Next ==
    \/ \E d \in Verdict : Decide(d)
    \/ \E p \in Endpoint : Apply(p)
    \/ \E p \in Endpoint, d \in Verdict : DecideAt(p, d)

Spec == Init /\ [][Next]_vars
=============================================================================
