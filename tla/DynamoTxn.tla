------------------------------ MODULE DynamoTxn ------------------------------
(***************************************************************************)
(* The DynamoDB transaction table (providers/dynamo/txn_store.rs): one     *)
(* record under concurrent Enlist, Commit and Abort calls of the           *)
(* TransactionMgr.  A step is one request; a get may miss the record, or   *)
(* show an earlier list of participants.  A set stands for the list: an    *)
(* endpoint enlisted twice is in it once.                                  *)
(***************************************************************************)
EXTENDS Naturals, FiniteSets

CONSTANTS
    Participant,
    Ender        \* Commit and Abort calls

VARIABLES
    state, participants,   \* the record
    shown,       \* what a late get shows: is the record there, and its participants
    ender,       \* each call: step, and the participants it has read
    enlisted,    \* (history) participants whose Enlist was answered OK
    frozen,      \* (history) the participants when the record left Active
    claims       \* (history) calls that made it leave Active

txnVars == <<state, participants, shown, ender, enlisted, frozen, claims>>

TxnInit ==
    /\ state = "none" /\ participants = {} /\ shown = [there |-> FALSE, list |-> {}] /\ enlisted = {} /\ frozen = {}
    /\ claims = 0 /\ ender = [c \in Ender |-> [pc |-> "idle", read |-> {}]]

Current == [there |-> state # "none", list |-> participants]

create_txn ==
    /\ state = "none" /\ state' = "Active"
    /\ shown' \in {shown, [there |-> TRUE, list |-> {}]}
    /\ UNCHANGED <<participants, ender, enlisted, frozen, claims>>

\* Replicas have caught up.
TxnSettle ==
    /\ shown # Current /\ shown' = Current
    /\ UNCHANGED <<state, participants, ender, enlisted, frozen, claims>>

\* Mutant: the record need only exist.
add_to_any(p) ==
    /\ state # "none"
    /\ participants' = participants \cup {p} /\ shown' \in {shown, [there |-> TRUE, list |-> participants']}
    /\ enlisted' = enlisted \cup {p}
    /\ UNCHANGED <<state, ender, frozen, claims>>

\* Enlist: list_append under the condition that the record is Active.
add_participant(p) ==
    /\ state = "Active"
    /\ participants' = participants \cup {p} /\ shown' \in {shown, [there |-> TRUE, list |-> participants']}
    /\ enlisted' = enlisted \cup {p}
    /\ UNCHANGED <<state, ender, frozen, claims>>

\* update_state_if: Active to Voting (commit) or to Aborted (abort).
update_state_if(c, new) ==
    /\ ender[c].pc = "idle" /\ state # "none"
    /\ IF state = "Active"
       THEN /\ state' = new /\ frozen' = participants /\ claims' = claims + 1
            /\ ender' = [ender EXCEPT ![c].pc = "fetch"]
       ELSE ender' = [ender EXCEPT ![c].pc = "refused"] /\ UNCHANGED <<state, frozen, claims>>
    /\ UNCHANGED <<participants, shown, enlisted>>

\* The winner gets the record to learn the participants it must call, and fails
\* when it is not shown.
Fetch(c) ==
    /\ ender[c].pc = "fetch"
    /\ \E r \in {Current, shown} :
          ender' = [ender EXCEPT ![c] = [pc |-> IF r.there THEN "call" ELSE "failed", read |-> r.list]]
    /\ UNCHANGED <<state, participants, shown, enlisted, frozen, claims>>

Moves(c, from, to, pc) ==
    /\ state = from /\ state' = to
    /\ ender' = [ender EXCEPT ![c].pc = pc]

\* The calls to the participants are over: an abort returns; a commit of at most
\* one participant records the answer, or leaves Voting when there was none; a
\* commit of several goes through Prepared.
Decide(c) ==
    /\ ender[c].pc = "call"
    /\ \/ Moves(c, "Aborted", "Aborted", "done")
       \/ Cardinality(ender[c].read) <= 1 /\ Moves(c, "Voting", "Committed", "done")
       \/ Cardinality(ender[c].read) = 1 /\ Moves(c, "Voting", "Voting", "failed")
       \/ ender[c].read # {} /\ Moves(c, "Voting", "Aborted", "done")
       \/ ender[c].read # {} /\ Moves(c, "Voting", "Prepared", "second")
    /\ UNCHANGED <<participants, shown, enlisted, frozen, claims>>

Complete(c) ==
    /\ ender[c].pc = "second" /\ Moves(c, "Prepared", "Committed", "done")
    /\ UNCHANGED <<participants, shown, enlisted, frozen, claims>>

TxnNext ==
    \/ create_txn \/ TxnSettle
    \/ \E p \in Participant : add_participant(p)
    \/ \E c \in Ender : \/ \E new \in {"Voting", "Aborted"} : update_state_if(c, new)
                        \/ Fetch(c) \/ Decide(c) \/ Complete(c)

TxnTypeOK ==
    /\ state \in {"none", "Active", "Voting", "Prepared", "Committed", "Aborted"}
    /\ participants \cup enlisted \cup frozen \subseteq Participant
    /\ shown \in [there : BOOLEAN, list : SUBSET Participant]
    /\ ender \in [Ender -> [pc : {"idle", "refused", "fetch", "call", "second", "done", "failed"},
                           read : SUBSET Participant]]
    /\ claims \in Nat

\* One call alone takes a transaction out of Active, and from then on its
\* participants do not change: no Enlist is answered OK by a transaction that is
\* ending (update_state_if, add_participant).
LeftActiveOnce ==
    /\ claims <= 1
    /\ state \notin {"none", "Active"} => participants = frozen /\ enlisted = frozen

\* A transaction recorded Committed has called every participant whose Enlist was
\* answered OK (commit's second get). The code does not ensure it over DynamoDB:
\* see README, Known divergences.
AllAreCalled ==
    state = "Committed" => \A c \in Ender : ender[c].pc = "done" => enlisted \subseteq ender[c].read
=============================================================================
