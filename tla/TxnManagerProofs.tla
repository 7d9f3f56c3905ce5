-------------------------- MODULE TxnManagerProofs --------------------------
(***************************************************************************)
(* Type correctness and atomicity of the two-phase-commit coordinator, for *)
(* every number of handlers, participants and crashes: the inductive       *)
(* invariant, what follows from it, and the refinement of the abstract     *)
(* transaction.                                                            *)
(***************************************************************************)
EXTENDS TxnManager, TLAPS

\* Most steps are first-order; those that count or update records cite SMT.
USE Zenon

\* What vote_from_i32 makes of a vote that was given.
LEMMA VoteFromI32 ==
    ASSUME NEW v \in WireVote
    PROVE  /\ vote_from_i32(v) \in PrepareVote
           /\ vote_from_i32(v) = "prepared" <=> v = 0
           /\ vote_from_i32(v) = "notchanged" <=> v = 1
           /\ vote_from_i32(v) = "aborted" <=> v \in {2, 3}
    BY SMT DEF WireVote, vote_from_i32, PrepareVote

\* CallAll(h, l, S) sends well-typed calls and waits for their slots.
LEMMA CallAllType ==
    ASSUME TypeOK, NEW h \in Handler, NEW l \in Waiting, NEW S \in SUBSET Slot,
           CallAll(h, l, S)
    PROVE  /\ pc' \in [Handler -> PC]
           /\ reply' \in [Handler -> [Slot -> Reply]]
           /\ inflight' \subseteq Kind \X Slot
    <1>1. Await(S) \in [Slot -> Reply]
        BY DEF Await, Reply
    <1>2. CallOf(l) \in Kind
        BY DEF CallOf, Kind
    <1>3. {<<CallOf(l), s>> : s \in S} \subseteq Kind \X Slot
        BY <1>2, SMT
    <1> QED BY <1>1, <1>3 DEF CallAll, TypeOK, PC

\* A participant list has one slot per entry; the empty list is one.
LEMMA ParticipantSlots ==
    /\ <<>> \in Participants
    /\ \A l \in Participants : DOMAIN l = 1..Len(l) /\ DOMAIN l \subseteq Slot
                              /\ Len(l) \in Nat /\ Len(l) <= MaxEnlist
    BY TxnAssumption, SMT DEF Participants, Slot

\* Return, Goto and Transition keep the handlers' locals well typed.
LEMMA ReturnType ==
    ASSUME TypeOK, NEW h \in Handler, NEW a \in SUBSET Answer, Return(h, a)
    PROVE  /\ pc' \in [Handler -> PC]
           /\ list' \in [Handler -> Participants]
           /\ reply' \in [Handler -> [Slot -> Reply]]
           /\ answered' \subseteq Answer
    <1>1. NoReply \in [Slot -> Reply]
        BY DEF NoReply, Reply
    <1> QED BY <1>1, ParticipantSlots DEF Return, TypeOK, PC

\* A transition that wins its CAS keeps the types.
LEMMA TransitionType ==
    ASSUME TypeOK, NEW h \in Handler, NEW from \in TransactionState,
           NEW to \in TransactionState, NEW l \in PC, NEW S \in SUBSET Slot,
           Transition(h, from, to, l, S), UNCHANGED <<suspect, crashes>>
    PROVE  TypeOK'
    <1>1. CASE state # from
        <2>1. Return(h, {"internal"})
            BY <1>1 DEF Transition
        <2>2. {"internal"} \in SUBSET Answer
            BY DEF Answer
        <2> QED BY <1>1, <2>1, <2>2, ReturnType DEF Transition, TypeOK, net
    <1>2. CASE state = from /\ l \in Waiting
        <2>1. CallAll(h, l, S)
            BY <1>2 DEF Transition
        <2> QED BY <1>2, <2>1, CallAllType, Zenon DEF Transition, TypeOK, CallAll
    <1>3. CASE state = from /\ l \notin Waiting
        BY <1>3 DEF Transition, TypeOK, Goto, net
    <1> QED BY <1>1, <1>2, <1>3

-----------------------------------------------------------------------------
\* The initial state is well typed.
LEMMA InitType == Init => TypeOK
    <1> SUFFICES ASSUME Init PROVE TypeOK
        OBVIOUS
    <1>1. NoReply \in [Slot -> Reply]
        BY DEF NoReply, Reply
    <1>2. /\ vote \in [Slot -> WireVote \cup {NoVote}]
          /\ outcome \in [Endpoint -> SUBSET {"committed", "aborted"}]
          /\ crashes \in 0..MaxCrash
        BY TxnAssumption, SMT DEF Init
    <1>3. /\ inflight \subseteq Kind \X Slot
          /\ served \subseteq Kind \X Slot
          /\ answered \subseteq Answer
        BY DEF Init
    <1>4. pc \in [Handler -> PC]
        BY DEF Init, PC
    <1> QED BY <1>1, <1>2, <1>3, <1>4, ParticipantSlots, Zenon DEF Init, TypeOK

\* Every action keeps the types.
LEMMA NextType == TypeOK /\ [Next]_vars => TypeOK'
    <1> SUFFICES ASSUME TypeOK, [Next]_vars PROVE TypeOK'
        OBVIOUS
    <1> USE DEF store, net, local
    <1>a. {} \in SUBSET Answer
        OBVIOUS
    <1>b. \A a \in Answer : {a} \in SUBSET Answer
        OBVIOUS
    <1>1. ASSUME NEW h \in Handler, BeginCreate(h) PROVE TypeOK'
        BY <1>1, ParticipantSlots DEF BeginCreate, TypeOK, Goto, PC, TransactionState
    <1>2. ASSUME NEW h \in Handler, CommitRefused(h) PROVE TypeOK'
        BY <1>2, <1>a, <1>b, ReturnType DEF CommitRefused, TypeOK, Answer
    <1>3. ASSUME NEW h \in Handler, CommitFetch(h) PROVE TypeOK'
        <2>n. Len(participants) \in Nat
            BY ParticipantSlots DEF TypeOK
        <2>1. list' \in [Handler -> Participants]
            BY <1>3 DEF CommitFetch, TypeOK
        <2>2. CASE Len(participants) = 0
            BY <1>3, <2>1, <2>2, SMT DEF CommitFetch, TypeOK, PC
        <2>3. CASE Len(participants) = 1
            <3>1. CallAll(h, "pac", {1})
                BY <1>3, <2>3, SMT DEF CommitFetch
            <3>2. {1} \in SUBSET Slot /\ "pac" \in Waiting
                BY <2>3, ParticipantSlots, SMT DEF TypeOK, Waiting
            <3> QED BY <1>3, <2>1, <3>1, <3>2, CallAllType, Zenon
                    DEF CommitFetch, TypeOK, CallAll
        <2>4. CASE Len(participants) > 1
            <3>1. CallAll(h, "preparing", 1..Len(participants))
                BY <1>3, <2>n, <2>4, SMT DEF CommitFetch
            <3>2. /\ 1..Len(participants) \in SUBSET Slot
                  /\ "preparing" \in Waiting
                BY ParticipantSlots DEF TypeOK, Waiting
            <3> QED BY <1>3, <2>1, <3>1, <3>2, CallAllType, Zenon
                    DEF CommitFetch, TypeOK, CallAll
        <2>5. \/ Len(participants) = 0
              \/ Len(participants) = 1
              \/ Len(participants) > 1
            BY <2>n, SMT
        <2> QED BY <2>2, <2>3, <2>4, <2>5
    <1>4. ASSUME NEW h \in Handler, CommitEmpty(h) PROVE TypeOK'
        <2>1. {} \in SUBSET Slot
            OBVIOUS
        <2> QED BY <1>4, <2>1, TransitionType, Zenon DEF CommitEmpty, TransactionState, PC
    <1>5. ASSUME NEW h \in Handler, PacDone(h) PROVE TypeOK'
        <2>1. {} \in SUBSET Slot
            OBVIOUS
        <2>2. CASE Transition(h, "voting", "committed", "cancel_committed", {})
            BY <1>5, <2>1, <2>2, TransitionType DEF PacDone, TransactionState, PC
        <2>3. CASE Transition(h, "voting", "aborted", "cancel_aborted", {})
            BY <1>5, <2>1, <2>3, TransitionType DEF PacDone, TransactionState, PC
        <2>4. CASE Return(h, {"commit_unknown"}) /\ UNCHANGED <<store, lease, net>>
            BY <1>5, <2>4, <1>b, ReturnType DEF PacDone, TypeOK, Answer
        <2> QED BY <1>5, <2>2, <2>3, <2>4 DEF PacDone
    <1>6. ASSUME NEW h \in Handler, PrepareDone(h) PROVE TypeOK'
        <2>1. DOMAIN list[h] \subseteq Slot
            BY ParticipantSlots DEF TypeOK
        <2>2. CASE Transition(h, "voting", "aborted", "undoing", DOMAIN list[h])
            BY <1>6, <2>1, <2>2, TransitionType
               DEF PrepareDone, TransactionState, PC, Waiting
        <2>3. CASE Transition(h, "voting", "prepared", "committing",
                              Answered(h, "prepared"))
            <3>1. Answered(h, "prepared") \subseteq Slot
                BY <2>1 DEF Answered
            <3> QED BY <1>6, <2>3, <3>1, TransitionType
                    DEF PrepareDone, TransactionState, PC, Waiting
        <2> QED BY <1>6, <2>2, <2>3 DEF PrepareDone
    <1>7. ASSUME NEW h \in Handler, CommitDone(h) PROVE TypeOK'
        <2>1. {} \in SUBSET Slot
            OBVIOUS
        <2> QED BY <1>7, <2>1, TransitionType DEF CommitDone, TransactionState, PC
    <1>8. ASSUME NEW h \in Handler, UndoDone(h) PROVE TypeOK'
        BY <1>8 DEF UndoDone, TypeOK, Goto, PC
    <1>9. ASSUME NEW h \in Handler, CancelLease(h) PROVE TypeOK'
        BY <1>9, <1>b, ReturnType DEF CancelLease, TypeOK, Answer
    <1>10. ASSUME NEW h \in Handler, AbortRefused(h) PROVE TypeOK'
        BY <1>10, <1>a, <1>b, ReturnType DEF AbortRefused, TypeOK, Answer
    <1>11. ASSUME NEW h \in Handler, AbortFetch(h) PROVE TypeOK'
        BY <1>11, ParticipantSlots, CallAllType, Zenon
           DEF AbortFetch, TypeOK, CallAll, Waiting
    <1>12. ASSUME NEW h \in Handler, AbortDone(h) PROVE TypeOK'
        BY <1>12 DEF AbortDone, TypeOK, Goto, PC
    <1>13. ASSUME NEW h \in Handler, ExpireFetch(h) PROVE TypeOK'
        BY <1>13, ParticipantSlots, CallAllType, Zenon
           DEF ExpireFetch, TypeOK, CallAll, Waiting
    <1>14. ASSUME NEW h \in Handler, ExpireDone(h) PROVE TypeOK'
        BY <1>14, <1>a, ReturnType DEF ExpireDone, TypeOK
    <1>15. ASSUME NEW h \in Handler, BeginGrant(h) PROVE TypeOK'
        BY <1>15 DEF BeginGrant, TypeOK, Goto, PC
    <1>16. ASSUME NEW h \in Handler, CommitClaim(h) PROVE TypeOK'
        BY <1>16 DEF CommitClaim, TypeOK, Goto, PC, UpdateStateIf, TransactionState
    <1>17. ASSUME NEW h \in Handler, AbortClaim(h) PROVE TypeOK'
        BY <1>17 DEF AbortClaim, TypeOK, Goto, PC, UpdateStateIf, TransactionState
    <1>18. ASSUME NEW h \in Handler, Cascade(h) PROVE TypeOK'
        BY <1>18 DEF Cascade, AbortExpired, TypeOK, Goto, PC, UpdateStateIf,
                     TransactionState
    <1>19. ASSUME NEW h \in Handler, Dropped(h) PROVE TypeOK'
        BY <1>19, <1>a, ReturnType DEF Dropped, TypeOK
    <1>20. ASSUME NEW h \in Handler, NEW s \in Slot, CallReturns(h, s) PROVE TypeOK'
        BY <1>20 DEF CallReturns, TypeOK, vote_from_i32, Reply, PrepareVote
    <1>21. ASSUME NEW h \in Handler, NEW s \in Slot, CallFails(h, s) PROVE TypeOK'
        BY <1>21 DEF CallFails, TypeOK, Reply
    <1>22. ASSUME NEW k \in Kind, NEW s \in Slot, Serve(k, s) PROVE TypeOK'
        <2>1. \E what \in SUBSET {"committed", "aborted"} : Done(s, what)
            BY <1>22 DEF Serve
        <2>2. outcome' \in [Endpoint -> SUBSET {"committed", "aborted"}]
            BY <2>1, Zenon DEF Done, TypeOK
        <2>3. vote' \in [Slot -> WireVote \cup {NoVote}]
            BY <1>22 DEF Serve, TypeOK
        <2> QED BY <1>22, <2>2, <2>3 DEF Serve, TypeOK
    <1>23. ASSUME NEW k \in Kind, NEW s \in Slot, Lose(k, s) PROVE TypeOK'
        BY <1>23 DEF Lose, TypeOK
    <1>24. ASSUME NEW p \in Endpoint, Enlist(p) PROVE TypeOK'
        <2>1. participants' \in Participants
            BY <1>24, TxnAssumption, SMT DEF Enlist, TypeOK, Participants
        <2> QED BY <1>24, <2>1 DEF Enlist, TypeOK
    <1>25. CASE LeaseReclaimed
        BY <1>25 DEF LeaseReclaimed, TypeOK
    <1>26. CASE SweepList \/ SweepCheck
        BY <1>26, Zenon DEF SweepList, SweepCheck, AbortExpired, TypeOK, Goto, PC,
                     UpdateStateIf, TransactionState, Handler
    <1>27. CASE Crash
        <2>1. /\ NoReply \in [Slot -> Reply]
              /\ list' \in [Handler -> Participants]
            BY <1>27, ParticipantSlots DEF NoReply, Reply, Crash
        <2>2. crashes' \in 0..MaxCrash
            BY <1>27, TxnAssumption, SMT DEF Crash, TypeOK
        <2>3. pc' \in [Handler -> PC]
            BY <1>27 DEF Crash, PC
        <2>4. reply' \in [Handler -> [Slot -> Reply]]
            BY <1>27, <2>1 DEF Crash
        <2> QED BY <1>27, <2>1, <2>2, <2>3, <2>4, Zenon DEF Crash, TypeOK
    <1>28. CASE UNCHANGED vars
        BY <1>28 DEF vars, TypeOK
    <1> QED
        BY <1>1, <1>2, <1>3, <1>4, <1>5, <1>6, <1>7, <1>8, <1>9, <1>10, <1>11,
           <1>12, <1>13, <1>14, <1>15, <1>16, <1>17, <1>18, <1>19, <1>20,
           <1>21, <1>22, <1>23, <1>24, <1>25, <1>26, <1>27, <1>28
        DEF Next, Step, Request

\* The record, the handlers' locals and the calls keep their types.
THEOREM TypeCorrect == Spec => []TypeOK
    BY InitType, NextType, PTL DEF Spec

-----------------------------------------------------------------------------
(***************************************************************************)
(* The commit path.                                                        *)
(***************************************************************************)


\* Several participants are not one.
LEMMA Several == \A n \in Nat : n > 1 => n # 1
    BY SMT

\* A vote that was given is one of the wire values.
LEMMA GivenVote ==
    ASSUME TypeOK, NEW s \in Slot, vote[s] # NoVote
    PROVE  vote[s] \in WireVote
    <1>1. vote \in [Slot -> WireVote \cup {NoVote}]
        BY DEF TypeOK
    <1> QED BY <1>1

\* Votes that were given and stay as they are keep AllYes and Vetoed.
LEMMA VotesKept ==
    ASSUME participants' = participants,
           \A s \in DOMAIN participants : vote[s] # NoVote => vote'[s] = vote[s]
    PROVE  (AllYes => AllYes') /\ (Vetoed => Vetoed')
    <1>1. \A v \in {0, 1, 2, 3} : v # NoVote
        BY SMT DEF NoVote
    <1> QED BY <1>1 DEF AllYes, Vetoed

\* A handler that stops at a label where it holds no claim on the outcome
\* disturbs nothing but the answers.
LEMMA StepAside ==
    ASSUME TypeOK, ProtocolInv, NEW h \in Handler,
           NEW l \in {"idle", "commit_refused", "abort_refused", "sweep_check"},
           pc' = [pc EXCEPT ![h] = l],
           lease' \in {lease, "gone"},
           UNCHANGED <<store, net>>,
           \A g \in Handler \ {h} : list'[g] = list[g] /\ reply'[g] = reply[g]
    PROVE  /\ PhaseInv' /\ BeginInv' /\ OwnerInv'
           /\ CallInv' /\ ReplyInv' /\ OutcomeInv'
    <1> USE DEF ProtocolInv, TypeOK, store, net
    <1>1. /\ pc' \in [Handler -> PC] /\ pc'[h] = l
          /\ \A g \in Handler \ {h} : pc'[g] = pc[g]
        BY DEF PC
    <1>2. PhaseInv'
        BY <1>1 DEF PhaseInv, Voting, Undoing
    <1>3. BeginInv'
        BY <1>1 DEF BeginInv
    <1>4. OwnerInv'
        BY <1>1, SMT DEF OwnerInv, Owning, Voting, Waiting, Calls
    <1>5. CallInv'
        BY DEF CallInv, Calls, AllYes
    <1>6. ReplyInv'
        BY <1>1, SMT DEF ReplyInv, TrueReply
    <1>7. OutcomeInv'
        BY DEF OutcomeInv, AllYes, Vetoed
    <1> QED BY <1>2, <1>3, <1>4, <1>5, <1>6, <1>7

\* ... and nothing at all if it leaves without an answer.
LEMMA AsideInv ==
    ASSUME TypeOK, ProtocolInv, NEW h \in Handler,
           NEW l \in {"idle", "commit_refused", "abort_refused", "sweep_check"},
           Goto(h, l), UNCHANGED <<store, lease, net, answered>>
    PROVE  ProtocolInv'
    <1>1. /\ PhaseInv' /\ BeginInv' /\ OwnerInv'
          /\ CallInv' /\ ReplyInv' /\ OutcomeInv'
        BY StepAside, Zenon DEF Goto
    <1>2. AnswerInv'
        BY DEF ProtocolInv, AnswerInv, Goto, Owning, Voting, TypeOK, store
    <1> QED BY <1>1, <1>2 DEF ProtocolInv

\* Nor does a return disturb anything, once its answer is accounted for.
LEMMA ReturnInv ==
    ASSUME TypeOK, ProtocolInv, NEW h \in Handler, NEW a, Return(h, a),
           lease' \in {lease, "gone"}, UNCHANGED <<store, net>>,
           \A b \in a : \/ b \in {"commit_ok", "abort_terminal"} /\ state = "committed"
                        \/ b \in {"commit_aborted", "abort_ok"} /\ state = "aborted"
    PROVE  ProtocolInv'
    <1>1. \A g \in Handler \ {h} : list'[g] = list[g] /\ reply'[g] = reply[g]
        BY DEF Return, TypeOK
    <1>2. /\ PhaseInv' /\ BeginInv' /\ OwnerInv'
          /\ CallInv' /\ ReplyInv' /\ OutcomeInv'
        BY <1>1, StepAside, Zenon DEF Return
    <1>3. AnswerInv'
        BY Zenon DEF ProtocolInv, AnswerInv, Return, TypeOK, store, Owning, Voting
    <1> QED BY <1>2, <1>3 DEF ProtocolInv

\* A commit or abort that lost its CAS reads the record and answers.
LEMMA RefusedInv ==
    ASSUME TypeOK, ProtocolInv, NEW h \in Handler,
           CommitRefused(h) \/ AbortRefused(h)
    PROVE  ProtocolInv'
    <1>1. lease' \in {lease, "gone"} /\ UNCHANGED <<store, net>>
        BY DEF CommitRefused, AbortRefused
    <1>2. CASE state = "committed"
        <2>1. Return(h, {"commit_ok"}) \/ Return(h, {"abort_terminal"})
            BY <1>2 DEF CommitRefused, AbortRefused
        <2> QED BY <1>1, <1>2, <2>1, ReturnInv
    <1>3. CASE state = "aborted"
        <2>1. Return(h, {"commit_aborted"}) \/ Return(h, {"abort_ok"})
            BY <1>3 DEF CommitRefused, AbortRefused
        <2> QED BY <1>1, <1>3, <2>1, ReturnInv
    <1>4. CASE state \notin {"committed", "aborted"}
        <2>1. Return(h, {})
            BY <1>4 DEF CommitRefused, AbortRefused
        <2> QED BY <1>1, <2>1, ReturnInv, SMT
    <1> QED BY <1>2, <1>3, <1>4

\* The lease is cancelled after the decision; the answer follows.
LEMMA CancelLeaseInv ==
    ASSUME TypeOK, ProtocolInv, NEW h \in Handler, CancelLease(h)
    PROVE  ProtocolInv'
    <1>1. lease' \in {lease, "gone"} /\ UNCHANGED <<store, net>>
        BY DEF CancelLease
    <1>2. CASE pc[h] = "cancel_committed"
        <2>1. Return(h, {"commit_ok"}) /\ state = "committed"
            BY <1>2 DEF CancelLease, ProtocolInv, PhaseInv
        <2> QED BY <1>1, <2>1, ReturnInv
    <1>3. CASE pc[h] = "cancel_aborted"
        <2>1. Return(h, {"commit_aborted"}) /\ state = "aborted"
            BY <1>3 DEF CancelLease, ProtocolInv, PhaseInv, Undoing
        <2> QED BY <1>1, <2>1, ReturnInv
    <1>4. CASE pc[h] = "cancel_abort"
        <2>1. Return(h, {"abort_ok"}) /\ state = "aborted"
            BY <1>4 DEF CancelLease, ProtocolInv, PhaseInv, Undoing
        <2> QED BY <1>1, <2>1, ReturnInv
    <1> QED BY <1>2, <1>3, <1>4 DEF CancelLease

\* The CAS from Active succeeds: so far nobody owns the commit, nobody was
\* called and nobody has acted.
LEMMA FromActiveInv ==
    ASSUME TypeOK, ProtocolInv, NEW h \in Handler, state = "active",
           NEW l, pc' = [pc EXCEPT ![h] = l],
           \/ l = "commit_fetch" /\ state' = "voting"
           \/ l \in {"abort_fetch", "expire_fetch"} /\ state' = "aborted",
           UNCHANGED <<participants, list, reply, lease, net, answered>>
    PROVE  ProtocolInv'
    <1> USE DEF net
    <1>1. \A g \in Handler :
             pc[g] \notin Owning \cup Undoing \cup {"cancel_committed", "begin_create"}
        BY DEF ProtocolInv, PhaseInv, BeginInv, Owning
    <1>2. Calls = {} /\ Calls' = {}
        BY DEF ProtocolInv, CallInv, Calls
    <1>3. \A q \in Endpoint : "committed" \notin outcome[q] /\ "aborted" \notin outcome[q]
        BY DEF ProtocolInv, OutcomeInv
    <1>4. pc'[h] = l /\ \A g \in Handler \ {h} : pc'[g] = pc[g]
        BY DEF TypeOK
    <1>5. PhaseInv'
        BY <1>1, <1>4 DEF PhaseInv, Voting, Owning, Undoing
    <1>6. BeginInv'
        BY <1>1, <1>4 DEF ProtocolInv, BeginInv
    <1>7. OwnerInv'
        BY <1>1, <1>2, <1>4, SMT DEF OwnerInv, Owning, Voting, Waiting, Undoing
    <1>8. CallInv'
        BY <1>2 DEF CallInv, Calls
    <1>9. ReplyInv'
        BY <1>1, <1>4 DEF ReplyInv, Owning, Voting
    <1>10. OutcomeInv'
        BY <1>3 DEF ProtocolInv, OutcomeInv
    <1>11. AnswerInv'
        BY DEF ProtocolInv, AnswerInv
    <1> QED BY <1>5, <1>6, <1>7, <1>8, <1>9, <1>10, <1>11 DEF ProtocolInv

\* The CAS out of Active: one handler claims the outcome.
LEMMA ClaimInv ==
    ASSUME TypeOK, ProtocolInv, NEW h \in Handler,
           CommitClaim(h) \/ AbortClaim(h)
    PROVE  ProtocolInv'
    <1>1. CASE state # "active"
        <2>1. /\ Goto(h, "commit_refused") \/ Goto(h, "abort_refused")
              /\ UNCHANGED <<store, net, lease, answered>>
            BY <1>1 DEF CommitClaim, AbortClaim, UpdateStateIf
        <2> QED BY <2>1, AsideInv
    <1>2. CASE state = "active"
        <2>1. PICK l \in {"commit_fetch", "abort_fetch"} :
                 /\ pc' = [pc EXCEPT ![h] = l]
                 /\ \/ l = "commit_fetch" /\ state' = "voting"
                    \/ l \in {"abort_fetch", "expire_fetch"} /\ state' = "aborted"
                 /\ UNCHANGED <<participants, list, reply, lease, net, answered>>
            BY <1>2 DEF CommitClaim, AbortClaim, UpdateStateIf, Goto
        <2> QED BY <1>2, <2>1, FromActiveInv, Zenon
    <1> QED BY <1>1, <1>2

\* Calls leave for the first time: no vote has been given.
LEMMA CommitFetchInv ==
    ASSUME TypeOK, ProtocolInv, NEW h \in Handler, CommitFetch(h)
    PROVE  ProtocolInv'
    <1> USE DEF store, net
    <1>1. /\ DOMAIN participants = 1..Len(participants)
          /\ Len(participants) \in Nat
          /\ DOMAIN participants \subseteq Slot
        BY ParticipantSlots DEF TypeOK
    <1>2. /\ Calls = {} /\ state = "voting"
          /\ \A s \in Slot : vote[s] = NoVote
        BY Zenon DEF CommitFetch, ProtocolInv, OwnerInv, PhaseInv, Voting, OutcomeInv, Calls
    <1>3. PICK l \in {"commit_empty", "pac", "preparing"} :
             /\ pc' = [pc EXCEPT ![h] = l]
             /\ list' = [list EXCEPT ![h] = participants]
             /\ l = "commit_empty" => Len(participants) = 0 /\ UNCHANGED <<reply, inflight>>
             /\ l = "pac" => /\ Len(participants) = 1
                             /\ reply' = [reply EXCEPT ![h] = Await({1})]
                             /\ inflight' = {<<"prepare_and_commit", 1>>}
             /\ l = "preparing" =>
                   /\ Len(participants) > 1
                   /\ reply' = [reply EXCEPT ![h] = Await(DOMAIN participants)]
                   /\ inflight' = {<<"prepare", s>> : s \in DOMAIN participants}
             /\ UNCHANGED <<state, participants, lease, served, vote, outcome, answered>>
        BY <1>1, <1>2, SMT DEF CommitFetch, CallAll, CallOf, Calls
    <1>4. \A s \in DOMAIN participants : Await(DOMAIN participants)[s] = "waiting"
        BY <1>1 DEF Await
    <1>5. Len(participants) = 1 =>
             1 \in DOMAIN participants /\ Await({1})[1] = "waiting"
        <2>1. Len(participants) = 1 => 1 \in DOMAIN participants
            BY <1>1, SMT
        <2> QED BY <1>1, <2>1 DEF Await
    <1> USE DEF TypeOK
    <1>6. PhaseInv' /\ BeginInv'
        BY <1>2, <1>3 DEF ProtocolInv, PhaseInv, BeginInv, Voting, Undoing
    <1>7. OwnerInv'
        <2>1. pc[h] = "commit_fetch" /\ pc[h] \in Owning
            BY DEF CommitFetch, Owning, Voting
        <2>2. \A g \in Handler \ {h} : pc[g] \notin Owning
            BY <2>1 DEF ProtocolInv, OwnerInv
        <2>3. /\ pc'[h] = l /\ list'[h] = participants
              /\ \A g \in Handler \ {h} : pc'[g] = pc[g] /\ list'[g] = list[g]
            BY <1>3
        <2>4. \A g \in Handler \ {h} : pc[g] \in Waiting => list[g] = participants
            BY DEF ProtocolInv, OwnerInv
        <2> QED BY <1>3, <2>2, <2>3, <2>4, SMT DEF OwnerInv, Owning, Voting
    <1>8. CallInv'
        <2>1. inflight = {} /\ served = {} /\ served' = {}
            BY <1>2, <1>3 DEF Calls
        <2>2. CASE l = "commit_empty"
            BY <1>2, <1>3, <2>1, <2>2 DEF CallInv, Calls
        <2>3. CASE l = "pac"
            <3>1. 1 \in DOMAIN participants
                BY <1>3, <1>5, <2>3
            <3>2. /\ Calls' = {<<"prepare_and_commit", 1>>} /\ Len(participants) = 1
                  /\ UNCHANGED <<state, participants, vote>>
                BY <1>3, <2>1, <2>3 DEF Calls
            <3>3. \A k \in Kind, s \in Slot : <<k, s>> \in Calls' =>
                     k = "prepare_and_commit" /\ s = 1
                BY <3>2
            <3> QED BY <1>2, <3>1, <3>2, <3>3 DEF CallInv, Calls
        <2>4. CASE l = "preparing"
            BY <1>1, <1>2, <1>3, <2>1, <2>4, SMT DEF CallInv, Calls
        <2> QED BY <2>2, <2>3, <2>4
    <1>9. ReplyInv'
        <2>1. ASSUME NEW g \in Handler, g # h
              PROVE  pc'[g] = pc[g] /\ reply'[g] = reply[g]
            BY <1>3, <2>1
        <2>2. reply'[h] = IF pc'[h] = "pac" THEN Await({1})
                          ELSE IF pc'[h] = "preparing" THEN Await(DOMAIN participants)
                          ELSE reply[h]
            BY <1>3
        <2>3. pc'[h] = "pac" => reply'[h][1] = "waiting"
            BY <1>3, <1>5, <2>2
        <2>4. pc'[h] = "preparing" => \A s \in DOMAIN participants : reply'[h][s] = "waiting"
            BY <1>3, <1>4, <2>2
        <2>5. /\ pc'[h] = "pac" => TrueReply(h, 1)'
              /\ pc'[h] = "preparing" => \A s \in DOMAIN participants : TrueReply(h, s)'
            BY <2>3, <2>4 DEF TrueReply, PrepareVote
        <2>6. \A g \in Handler : pc[g] # "pac" /\ pc[g] # "preparing"
            <3>1. pc[h] = "commit_fetch"
                BY DEF CommitFetch
            <3> QED BY <3>1 DEF ProtocolInv, OwnerInv, Owning, Voting
        <2> QED BY <1>3, <2>1, <2>5, <2>6 DEF ReplyInv
    <1>10. OutcomeInv'
        BY <1>3 DEF ProtocolInv, OutcomeInv, AllYes, Vetoed
    <1>11. AnswerInv'
        BY <1>3, CommitFetch(h) DEF CommitFetch, ProtocolInv, AnswerInv, Owning, Voting
    <1> QED BY <1>6, <1>7, <1>8, <1>9, <1>10, <1>11 DEF ProtocolInv

\* The only participant has answered: the record follows it.
LEMMA PacDoneInv ==
    ASSUME TypeOK, ProtocolInv, NEW h \in Handler, PacDone(h)
    PROVE  ProtocolInv'
    <1> USE DEF store, net
    <1>1. /\ pc[h] = "pac" /\ state = "voting" /\ Len(participants) = 1
          /\ DOMAIN participants = {1} /\ 1 \in Slot
        <2>1. pc[h] = "pac" /\ state = "voting" /\ Len(participants) = 1
            BY DEF PacDone, ProtocolInv, PhaseInv, OwnerInv, Voting
        <2> QED BY <2>1, ParticipantSlots, SMT DEF TypeOK
    <1>2. \A g \in Handler : g # h => pc[g] \notin Owning
        BY <1>1 DEF ProtocolInv, OwnerInv, Owning, Voting
    <1>3. \A s \in Slot : <<"commit", s>> \notin Calls /\ <<"abort", s>> \notin Calls
        BY <1>1, Zenon DEF ProtocolInv, CallInv, Kind
    <1>4. CASE reply[h][1] = "error"
        <2>1. /\ Return(h, {"commit_unknown"})
              /\ UNCHANGED <<state, participants, lease, inflight, served, vote, outcome>>
            BY <1>4 DEF PacDone
        <2>2. \A g \in Handler \ {h} : list'[g] = list[g] /\ reply'[g] = reply[g]
            BY <2>1 DEF Return, TypeOK
        <2>3. /\ PhaseInv' /\ BeginInv' /\ OwnerInv'
              /\ CallInv' /\ ReplyInv' /\ OutcomeInv'
            BY <2>1, <2>2, StepAside, Zenon DEF Return
        <2>4. \A g \in Handler : pc'[g] \notin Owning
            BY <1>2, <2>1 DEF Return, TypeOK, Owning, Voting
        <2>5. AnswerInv'
            BY <1>1, <2>1, <2>4 DEF ProtocolInv, AnswerInv, Return
        <2> QED BY <2>3, <2>5 DEF ProtocolInv
    <1>5. CASE reply[h][1] \in PrepareVote
        <2>0. reply[h][1] = vote_from_i32(vote[1]) /\ vote[1] # NoVote
            BY <1>1, <1>5 DEF ProtocolInv, ReplyInv, TrueReply
        <2>1. reply[h][1] = vote_from_i32(vote[1]) /\ vote[1] \in WireVote
            BY <1>1, <2>0, GivenVote
        <2>2. \A s \in Slot : <<"prepare_and_commit", s>> \notin inflight
            <3> SUFFICES ASSUME NEW s \in Slot, <<"prepare_and_commit", s>> \in inflight
                         PROVE  FALSE
                BY Zenon
            <3>1. s = 1
                BY <1>1 DEF ProtocolInv, CallInv, Calls, Kind
            <3>2. vote[1] = NoVote
                BY <3>1, Zenon DEF ProtocolInv, CallInv
            <3> QED BY <2>0, <3>2
        <2>3. PICK to \in {"committed", "aborted"} :
                 /\ to = "committed" <=> vote[1] \in {0, 1}
                 /\ Transition(h, "voting", to,
                       IF to = "committed" THEN "cancel_committed" ELSE "cancel_aborted", {})
            <3>1. CASE reply[h][1] \in {"prepared", "notchanged"}
                BY <2>1, <3>1, VoteFromI32 DEF PacDone, WireVote
            <3>2. CASE reply[h][1] = "aborted"
                BY <2>1, <3>2, VoteFromI32, Zenon DEF PacDone, WireVote
            <3> QED BY <1>5, <3>1, <3>2 DEF PrepareVote
        <2>4. /\ state' = to
              /\ pc' = [pc EXCEPT ![h] = IF to = "committed" THEN "cancel_committed"
                                         ELSE "cancel_aborted"]
              /\ UNCHANGED <<participants, lease, list, reply, inflight, served, vote,
                             outcome, answered>>
            BY <1>1, <2>3 DEF Transition, Goto, Waiting
        <2>5. AllYes <=> to = "committed"
            BY <1>1, <2>3 DEF AllYes
        <2> USE DEF TypeOK
        <2>6. PhaseInv' /\ BeginInv'
            BY <1>1, <1>2, <2>4 DEF ProtocolInv, PhaseInv, BeginInv, Owning, Voting, Undoing
        <2>7. OwnerInv'
            BY <2>4 DEF ProtocolInv, OwnerInv, Owning, Voting, Waiting, Calls
        <2>8. CallInv'
            <3>1. \A k \in Kind, s \in Slot : <<k, s>> \in Calls =>
                     /\ k \notin {"commit", "abort"}
                     /\ s \in DOMAIN participants
                     /\ k = "prepare" => Len(participants) > 1
                     /\ k = "prepare_and_commit" => Len(participants) = 1
                BY <1>3, Zenon DEF ProtocolInv, CallInv
            <3>2. \A s \in Slot : <<"prepare", s>> \in inflight => vote[s] = NoVote
                BY Zenon DEF ProtocolInv, CallInv
            <3> QED BY <2>2, <2>3, <2>4, <3>1, <3>2 DEF CallInv, Calls
        <2>9. ReplyInv'
            BY <2>4, SMT DEF ProtocolInv, ReplyInv, TrueReply
        <2>10. OutcomeInv'
            <3>1. Vetoed => ~AllYes
                BY SMT DEF Vetoed, AllYes
            <3> QED BY <1>1, <2>4, <2>5, <3>1 DEF ProtocolInv, OutcomeInv, AllYes, Vetoed
        <2>11. AnswerInv'
            BY <1>1, <2>4 DEF ProtocolInv, AnswerInv, Owning, Voting
        <2> QED BY <2>6, <2>7, <2>8, <2>9, <2>10, <2>11 DEF ProtocolInv
    <1> QED BY <1>4, <1>5 DEF PacDone, PrepareVote

\* Phase 1 is over: the abort calls or the commit calls leave.
LEMMA PrepareDoneInv ==
    ASSUME TypeOK, ProtocolInv, NEW h \in Handler, PrepareDone(h)
    PROVE  ProtocolInv'
    <1> USE DEF store, net
    <1>1. /\ pc[h] = "preparing" /\ state = "voting"
          /\ Len(participants) > 1 /\ list[h] = participants
        BY DEF PrepareDone, ProtocolInv, PhaseInv, OwnerInv, Owning, Voting, Waiting
    <1>2. /\ DOMAIN participants = 1..Len(participants)
          /\ Len(participants) \in Nat /\ Len(participants) # 1
          /\ DOMAIN participants \subseteq Slot
        <2>1. Len(participants) \in Nat
            BY ParticipantSlots DEF TypeOK
        <2>2. Len(participants) # 1
            BY <1>1, <2>1, Several, Zenon
        <2> QED BY <2>1, <2>2, ParticipantSlots DEF TypeOK
    <1>3. \A g \in Handler : g # h => pc[g] \notin Owning
        BY <1>1 DEF ProtocolInv, OwnerInv, Owning, Voting
    <1>4. \A k \in Kind, s \in Slot : <<k, s>> \in Calls =>
             k = "prepare" /\ s \in DOMAIN participants
        BY <1>1, <1>2 DEF ProtocolInv, CallInv, Kind
    <1>5. \A p \in Endpoint : "committed" \notin outcome[p]
        BY <1>1, <1>2 DEF ProtocolInv, OutcomeInv
    <1>6. PICK to \in {"prepared", "aborted"}, S \in SUBSET DOMAIN participants :
             /\ to = "prepared" => AllYes
             /\ state' = to
             /\ pc' = [pc EXCEPT ![h] = IF to = "prepared" THEN "committing" ELSE "undoing"]
             /\ reply' = [reply EXCEPT ![h] = Await(S)]
             /\ inflight' = inflight \cup
                   {<<IF to = "prepared" THEN "commit" ELSE "abort", s>> : s \in S}
             /\ UNCHANGED <<participants, lease, list, served, vote, outcome, answered>>
        <2>1. CASE AbortReason(h)
            <3>1. /\ state' = "aborted" /\ CallAll(h, "undoing", DOMAIN participants)
                  /\ UNCHANGED <<participants, lease, list, answered>>
                BY <1>1, <2>1 DEF PrepareDone, Transition, Waiting
            <3> WITNESS "aborted" \in {"prepared", "aborted"},
                        DOMAIN participants \in SUBSET DOMAIN participants
            <3> QED BY <3>1 DEF CallAll, CallOf
        <2>2. CASE ~AbortReason(h)
            <3>1. AllYes
                <4> SUFFICES ASSUME NEW s \in DOMAIN participants
                             PROVE  vote[s] \in {0, 1}
                    BY DEF AllYes
                <4>1. reply[h][s] \notin {"waiting", "error", "aborted"}
                    BY <1>1, <1>2, <2>2 DEF PrepareDone, AbortReason, Answered, Collected
                <4>2. reply[h][s] \in {"prepared", "notchanged"} /\ vote[s] # NoVote
                      /\ reply[h][s] = vote_from_i32(vote[s])
                    BY <1>1, <4>1 DEF ProtocolInv, ReplyInv, TrueReply, PrepareVote
                <4>3. vote[s] \in WireVote
                    BY <1>2, <4>2, GivenVote
                <4> QED BY <4>2, <4>3, VoteFromI32 DEF WireVote
            <3>2. Answered(h, "prepared") \subseteq DOMAIN participants
                BY <1>1 DEF Answered
            <3>3. /\ state' = "prepared"
                  /\ CallAll(h, "committing", Answered(h, "prepared"))
                  /\ UNCHANGED <<participants, lease, list, answered>>
                BY <1>1, <2>2 DEF PrepareDone, Transition, Waiting
            <3>4. Answered(h, "prepared") \in SUBSET DOMAIN participants
                BY <3>2
            <3> WITNESS "prepared" \in {"prepared", "aborted"},
                        Answered(h, "prepared") \in SUBSET DOMAIN participants
            <3> QED BY <3>1, <3>3 DEF CallAll, CallOf
        <2> QED BY <2>1, <2>2
    <1> USE DEF TypeOK
    <1>7. PhaseInv' /\ BeginInv'
        BY <1>1, <1>3, <1>6 DEF ProtocolInv, PhaseInv, BeginInv, Owning, Voting, Undoing
    <1>8. OwnerInv'
        BY <1>1, <1>3, <1>6 DEF ProtocolInv, OwnerInv, Owning, Voting, Waiting
    <1>9. CallInv'
        <2>1. \A k \in Kind, s \in Slot : <<k, s>> \in Calls' =>
                 /\ s \in DOMAIN participants
                 /\ k \in {"prepare", IF to = "prepared" THEN "commit" ELSE "abort"}
            BY <1>4, <1>6 DEF Calls
        <2>2. \A s \in Slot : /\ <<"prepare", s>> \in inflight' => vote[s] = NoVote
                              /\ <<"prepare_and_commit", s>> \notin inflight'
            BY <1>4, <1>6, Zenon DEF ProtocolInv, CallInv, Calls, Kind
        <2>3. to = "prepared" => AllYes'
            BY <1>6 DEF AllYes
        <2> QED BY <1>1, <1>6, <2>1, <2>2, <2>3 DEF CallInv
    <1>10. ReplyInv'
        BY <1>3, <1>6 DEF ProtocolInv, ReplyInv, TrueReply, Owning, Voting
    <1>11. OutcomeInv'
        <2>1. AllYes => ~Vetoed
            BY SMT DEF AllYes, Vetoed
        <2> QED BY <1>1, <1>5, <1>6, <2>1 DEF ProtocolInv, OutcomeInv, AllYes, Vetoed
    <1>12. AnswerInv'
        BY <1>1, <1>6 DEF ProtocolInv, AnswerInv, Owning, Voting
    <1> QED BY <1>7, <1>8, <1>9, <1>10, <1>11, <1>12 DEF ProtocolInv

\* An answer arrives: a vote is recorded as it was given.
LEMMA CallReturnsInv ==
    ASSUME TypeOK, ProtocolInv, NEW h \in Handler, NEW s \in Slot, CallReturns(h, s)
    PROVE  ProtocolInv'
    <1> USE DEF store, net
    <1>1. UNCHANGED <<state, participants, lease, pc, list, inflight, served, vote,
                      outcome, answered>>
        BY DEF CallReturns
    <1>2. PhaseInv' /\ BeginInv' /\ OwnerInv' /\ AnswerInv'
        BY <1>1 DEF ProtocolInv, PhaseInv, BeginInv, OwnerInv, AnswerInv, Calls
    <1>3. CallInv' /\ OutcomeInv'
        BY <1>1 DEF ProtocolInv, CallInv, OutcomeInv, Calls, AllYes, Vetoed
    <1>4. ReplyInv'
        <2>1. \A g \in Handler, x \in Slot : (g # h \/ x # s) => reply'[g][x] = reply[g][x]
            BY DEF CallReturns, TypeOK
        <2>2. pc[h] \in {"preparing", "pac"} =>
                 /\ vote[s] # NoVote
                 /\ reply'[h][s] = vote_from_i32(vote[s])
                 /\ reply'[h][s] \in PrepareVote
            <3> SUFFICES ASSUME pc[h] \in {"preparing", "pac"}
                         PROVE  /\ vote[s] # NoVote
                                /\ reply'[h][s] = vote_from_i32(vote[s])
                                /\ reply'[h][s] \in PrepareVote
                OBVIOUS
            <3>1. vote[s] # NoVote
                BY Zenon DEF CallReturns, CallOf, ProtocolInv, OutcomeInv
            <3>2. reply'[h][s] = vote_from_i32(vote[s])
                BY DEF CallReturns, TypeOK
            <3>3. vote[s] \in WireVote
                BY <3>1, GivenVote
            <3> QED BY <3>1, <3>2, <3>3, VoteFromI32
        <2>3. /\ DOMAIN participants \subseteq Slot
              /\ \A g \in Handler : pc[g] = "pac" => 1 \in Slot
            BY ParticipantSlots, SMT DEF TypeOK, ProtocolInv, OwnerInv
        <2>4. ASSUME NEW g \in Handler, NEW x \in Slot,
                     pc[g] \in {"preparing", "pac"}, TrueReply(g, x)
              PROVE  TrueReply(g, x)'
            BY <1>1, <2>1, <2>2, <2>4 DEF TrueReply
        <2> QED BY <1>1, <2>3, <2>4 DEF ProtocolInv, ReplyInv
    <1> QED BY <1>2, <1>3, <1>4 DEF ProtocolInv

\* A participant acts on a call: what it does is what the state allows.
LEMMA ServeInv ==
    ASSUME TypeOK, ProtocolInv, NEW k \in Kind, NEW s \in Slot, Serve(k, s)
    PROVE  ProtocolInv'
    <1> USE DEF store, net, local
    <1>1. /\ <<k, s>> \in inflight /\ <<k, s>> \in Calls
          /\ inflight' = inflight \ {<<k, s>>}
          /\ served' = served \cup {<<k, s>>}
          /\ Calls' = Calls
          /\ UNCHANGED <<state, participants, lease, pc, list, reply, answered>>
        BY DEF Serve, Calls
    <1>2. /\ s \in DOMAIN participants
          /\ k = "commit" => state \in {"prepared", "committed"} /\ AllYes
          /\ k = "abort" => state = "aborted"
          /\ k = "prepare" => Len(participants) > 1 /\ vote[s] = NoVote
          /\ k = "prepare_and_commit" =>
                Len(participants) = 1 /\ vote[s] = NoVote /\ state = "voting"
        BY <1>1, Zenon DEF ProtocolInv, CallInv
    <1>3. PICK what \in SUBSET {"committed", "aborted"} :
             /\ outcome' = [outcome EXCEPT ![participants[s]] = @ \cup what]
             /\ k = "commit" => what = {"committed"} /\ vote' = vote
             /\ k = "abort" => what = {"aborted"} /\ vote' = vote
             /\ k \in {"prepare", "prepare_and_commit"} =>
                   \E v \in WireVote :
                      /\ vote' = [vote EXCEPT ![s] = v]
                      /\ "aborted" \in what => v \in {2, 3}
                      /\ "committed" \in what => v = 0 /\ k = "prepare_and_commit"
        <2>1. CASE k = "commit"
            BY <2>1, Zenon DEF Serve, Done
        <2>2. CASE k = "abort"
            BY <2>2, Zenon DEF Serve, Done
        <2>3. CASE k \in {"prepare", "prepare_and_commit"}
            <3>1. PICK v \in WireVote :
                     /\ vote' = [vote EXCEPT ![s] = v]
                     /\ Done(s, IF v > 1 THEN {"aborted"}
                                ELSE IF v = 0 /\ k = "prepare_and_commit"
                                THEN {"committed"} ELSE {})
                BY <2>3 DEF Serve
            <3>2. v > 1 => v \in {2, 3}
                BY SMT DEF WireVote
            <3> DEFINE w == IF v > 1 THEN {"aborted"}
                            ELSE IF v = 0 /\ k = "prepare_and_commit"
                            THEN {"committed"} ELSE {}
            <3>3. /\ w \in SUBSET {"committed", "aborted"}
                  /\ "aborted" \in w => v \in {2, 3}
                  /\ "committed" \in w => v = 0 /\ k = "prepare_and_commit"
                BY <3>2
            <3>4. outcome' = [outcome EXCEPT ![participants[s]] = @ \cup w]
                BY <3>1 DEF Done
            <3> HIDE DEF w
            <3> QED BY <2>3, <3>1, <3>3, <3>4, Zenon
        <2> QED BY <2>1, <2>2, <2>3 DEF Kind
    <1>4. \A x \in Slot : x # s => vote'[x] = vote[x]
        BY <1>3 DEF Kind, TypeOK
    <1>5. k \in {"prepare", "prepare_and_commit"} =>
             ~AllYes /\ vote'[s] \in WireVote
        BY <1>2, <1>3, SMT DEF AllYes, NoVote, TypeOK, Kind
    <1>6. \A x \in Slot : vote[x] # NoVote => vote'[x] = vote[x]
        BY <1>2, <1>3, <1>4 DEF Kind
    <1>7. DOMAIN participants \subseteq Slot
        BY ParticipantSlots DEF TypeOK
    <1>8. (AllYes => AllYes') /\ (Vetoed => Vetoed')
        BY <1>1, <1>6, <1>7, VotesKept, Zenon
    <1>10. PhaseInv' /\ BeginInv' /\ OwnerInv' /\ AnswerInv'
        BY <1>1 DEF ProtocolInv, PhaseInv, BeginInv, OwnerInv, AnswerInv
    <1>11. CallInv'
        <2>0. ~(Len(participants) > 1 /\ Len(participants) = 1)
            BY Several, ParticipantSlots, Zenon DEF TypeOK
        <2>1. \A x \in Slot : x = s /\ k \in {"prepare", "prepare_and_commit"} =>
                  <<"prepare", x>> \notin inflight' /\ <<"prepare_and_commit", x>> \notin inflight'
            <3>1. k = "prepare" => <<"prepare_and_commit", s>> \notin Calls
                BY <1>2, <2>0 DEF ProtocolInv, CallInv, Kind
            <3>2. k = "prepare_and_commit" => <<"prepare", s>> \notin Calls
                BY <1>2, <2>0 DEF ProtocolInv, CallInv, Kind
            <3> QED BY <1>1, <3>1, <3>2 DEF Calls
        <2>2. \A x \in Slot : /\ <<"prepare", x>> \in inflight' => vote'[x] = NoVote
                              /\ <<"prepare_and_commit", x>> \in inflight' =>
                                    vote'[x] = NoVote /\ state = "voting"
            BY <1>1, <1>3, <1>4, <2>1, Zenon DEF ProtocolInv, CallInv, Kind
        <2> QED BY <1>1, <1>8, <2>2, Zenon DEF ProtocolInv, CallInv
    <1>12. ReplyInv'
        <2>1. \A g \in Handler : pc[g] = "pac" => 1 \in Slot
            BY <1>7, ParticipantSlots, SMT DEF TypeOK, ProtocolInv, OwnerInv
        <2>2. \A g \in Handler, x \in Slot : TrueReply(g, x) => TrueReply(g, x)'
            BY <1>1, <1>6 DEF TrueReply
        <2> QED BY <1>1, <1>7, <2>1, <2>2 DEF ProtocolInv, ReplyInv
    <1>13. OutcomeInv'
        <2>1. \A x \in Slot : vote'[x] # NoVote <=>
                 <<"prepare", x>> \in served' \/ <<"prepare_and_commit", x>> \in served'
            <3>1. CASE k \in {"prepare", "prepare_and_commit"}
                <4>1. vote'[s] # NoVote
                    BY <1>5, <3>1, SMT DEF WireVote, NoVote
                <4> QED BY <1>1, <1>4, <3>1, <4>1, Zenon DEF ProtocolInv, OutcomeInv
            <3>2. CASE k \in {"commit", "abort"}
                BY <1>1, <1>3, <3>2, Zenon DEF ProtocolInv, OutcomeInv
            <3> QED BY <3>1, <3>2, Zenon DEF Kind
        <2>2. state \in {"prepared", "committed"} => AllYes'
            BY <1>8 DEF ProtocolInv, OutcomeInv
        <2>3. \A p \in Endpoint : outcome'[p] \subseteq outcome[p] \cup what
            BY <1>3 DEF TypeOK
        <2>4. "committed" \in what =>
                 AllYes' /\ \/ state \in {"prepared", "committed"}
                            \/ state = "voting" /\ Len(participants) = 1
            <3>1. CASE k = "commit"
                BY <1>2, <1>8, <3>1
            <3>2. CASE k = "prepare_and_commit"
                <4>1. DOMAIN participants = {s}
                    BY <1>2, <3>2, ParticipantSlots, SMT DEF TypeOK
                <4>2. "committed" \in what => vote'[s] = 0
                    BY <1>3, <3>2 DEF TypeOK
                <4> QED BY <1>1, <1>2, <3>2, <4>1, <4>2 DEF AllYes
            <3> QED BY <1>3, <3>1, <3>2 DEF Kind
        <2>5. "aborted" \in what => state = "aborted" \/ (state = "voting" /\ Vetoed')
            <3>1. CASE k = "abort"
                BY <1>2, <3>1
            <3>2. CASE k \in {"prepare", "prepare_and_commit"}
                <4>1. "aborted" \in what => vote'[s] \in {2, 3}
                    BY <1>3, <3>2 DEF TypeOK
                <4>2. state \in {"voting", "aborted"}
                    BY <1>1, <1>5, <3>2
                    DEF ProtocolInv, OutcomeInv, CallInv, TypeOK, TransactionState
                <4> QED BY <1>1, <1>2, <4>1, <4>2 DEF Vetoed
            <3> QED BY <1>3, <3>1, <3>2 DEF Kind
        <2> QED BY <1>1, <1>8, <2>1, <2>2, <2>3, <2>4, <2>5
                DEF ProtocolInv, OutcomeInv
    <1> QED BY <1>10, <1>11, <1>12, <1>13 DEF ProtocolInv

-----------------------------------------------------------------------------
\* Nothing has happened yet.
LEMMA InitProtocol == Init => ProtocolInv
    <1> SUFFICES ASSUME Init PROVE ProtocolInv
        OBVIOUS
    <1>1. PhaseInv /\ BeginInv /\ ReplyInv /\ AnswerInv
        BY DEF Init, PhaseInv, BeginInv, ReplyInv, AnswerInv, Voting, Undoing, Owning
    <1>2. OwnerInv
        BY DEF Init, OwnerInv, Owning, Voting, Waiting
    <1>3. CallInv /\ OutcomeInv
        BY DEF Init, CallInv, OutcomeInv, Calls
    <1> QED BY <1>1, <1>2, <1>3 DEF ProtocolInv

\* Calls, votes and effects stay right while nobody touches them.
LEMMA NetStill ==
    ASSUME ProtocolInv, UNCHANGED <<store, net>>
    PROVE  CallInv' /\ OutcomeInv'
    <1>1. CallInv'
        BY DEF ProtocolInv, CallInv, Calls, AllYes, store, net
    <1>2. OutcomeInv'
        BY DEF ProtocolInv, OutcomeInv, AllYes, Vetoed, store, net
    <1> QED BY <1>1, <1>2

\* begin: the lease first, then the record.
LEMMA BeginStepsInv ==
    ASSUME TypeOK, ProtocolInv, NEW h \in Handler,
           BeginGrant(h) \/ BeginCreate(h)
    PROVE  ProtocolInv'
    <1> USE DEF TypeOK, store, net
    <1>1. CASE BeginGrant(h)
        <2>1. state = "none"
            BY <1>1 DEF BeginGrant, ProtocolInv, BeginInv
        <2>2. CallInv' /\ OutcomeInv'
            BY <1>1, NetStill DEF BeginGrant
        <2>3. PhaseInv' /\ BeginInv'
            BY <1>1, <2>1 DEF BeginGrant, Goto, ProtocolInv, PhaseInv, BeginInv, Voting, Undoing
        <2>0. /\ pc'[h] = "begin_create"
              /\ \A g \in Handler \ {h} : pc'[g] = pc[g]
              /\ UNCHANGED <<participants, inflight, served, vote, list, reply>>
            BY <1>1 DEF BeginGrant, Goto
        <2>4. OwnerInv' /\ ReplyInv'
            <3>1. OwnerInv'
                BY <2>0 DEF ProtocolInv, OwnerInv, Owning, Voting, Waiting, Calls
            <3>2. ReplyInv'
                BY <2>0, SMT DEF ProtocolInv, ReplyInv, TrueReply
            <3> QED BY <3>1, <3>2
        <2>5. AnswerInv'
            BY <1>1, <2>1 DEF BeginGrant, Goto, ProtocolInv, AnswerInv
        <2> QED BY <2>2, <2>3, <2>4, <2>5 DEF ProtocolInv
    <1>2. CASE BeginCreate(h)
        <2>1. /\ state = "none" /\ lease # "none" /\ pc[h] = "begin_create"
              /\ \A g \in Handler : pc[g] = "begin_create" => g = h
            BY <1>2 DEF BeginCreate, ProtocolInv, BeginInv
        <2>2. Calls = {} /\ \A p \in Endpoint : outcome[p] = {}
            <3>1. Calls = {}
                BY <2>1 DEF ProtocolInv, CallInv
            <3>2. \A p \in Endpoint : "committed" \notin outcome[p] /\ "aborted" \notin outcome[p]
                BY <2>1 DEF ProtocolInv, OutcomeInv
            <3> QED BY <3>1, <3>2
        <2>3. \A g \in Handler : pc[g] \notin Owning \cup Undoing \cup {"cancel_committed"}
            BY <2>1 DEF ProtocolInv, PhaseInv, Owning
        <2>4. PhaseInv' /\ BeginInv'
            BY <1>2, <2>1, <2>3 DEF BeginCreate, Goto, PhaseInv, BeginInv, Owning, Voting, Undoing
        <2>5. OwnerInv' /\ ReplyInv'
            BY <1>2, <2>3 DEF BeginCreate, Goto, OwnerInv, ReplyInv, Owning, Voting, Waiting, Undoing
        <2>6. CallInv' /\ OutcomeInv'
            BY <1>2, <2>1, <2>2, Zenon DEF BeginCreate, ProtocolInv, CallInv, OutcomeInv, Calls
        <2>7. AnswerInv'
            BY <1>2, <2>1 DEF BeginCreate, ProtocolInv, AnswerInv
        <2> QED BY <2>4, <2>5, <2>6, <2>7 DEF ProtocolInv
    <1> QED BY <1>1, <1>2

\* The abort calls of abort and abort_expired leave after the CAS.
LEMMA AbortCallsInv ==
    ASSUME TypeOK, ProtocolInv, NEW h \in Handler,
           AbortFetch(h) \/ ExpireFetch(h)
    PROVE  ProtocolInv'
    <1>1. state = "aborted" /\ DOMAIN participants \subseteq Slot
        <2>1. state = "aborted"
            BY DEF AbortFetch, ExpireFetch, ProtocolInv, PhaseInv, Undoing
        <2> QED BY <2>1, ParticipantSlots DEF TypeOK
    <1>2. PICK l \in {"aborting", "expiring"} : CallAll(h, l, DOMAIN participants)
        BY Zenon DEF AbortFetch, ExpireFetch
    <1>3. UNCHANGED <<state, participants, lease, answered>>
        BY DEF AbortFetch, ExpireFetch, store
    <1>4. UNCHANGED <<served, vote, outcome>>
        BY <1>2 DEF CallAll
    <1>5. pc'[h] = l /\ \A g \in Handler \ {h} : pc'[g] = pc[g] /\ reply'[g] = reply[g]
        BY <1>2 DEF CallAll, TypeOK
    <1>6. inflight' = inflight \cup {<<"abort", s>> : s \in DOMAIN participants}
        BY <1>2 DEF CallAll, CallOf
    <1>7. PhaseInv' /\ BeginInv'
        BY <1>1, <1>3, <1>5 DEF ProtocolInv, PhaseInv, BeginInv, Voting, Undoing
    <1>8. OwnerInv' /\ ReplyInv'
        <2>1. \A g \in Handler : pc[g] \notin Owning
            BY <1>1 DEF ProtocolInv, PhaseInv, Owning, Voting
        <2>2. \A g \in Handler : pc'[g] \notin Owning
            BY <1>5, <2>1 DEF Owning, Voting
        <2>3. list'[h] = participants /\ \A g \in Handler \ {h} : list'[g] = list[g]
            BY DEF AbortFetch, ExpireFetch, TypeOK
        <2>4. \A g \in Handler : pc'[g] \in Waiting => list'[g] = participants
            BY <1>5, <2>3 DEF ProtocolInv, OwnerInv
        <2>5. OwnerInv'
            BY <1>3, <2>2, <2>4 DEF OwnerInv, Owning, Voting
        <2> QED BY <2>2, <2>5 DEF ReplyInv, Owning, Voting
    <1>9. CallInv'
        <2>1. \A k \in Kind, s \in Slot :
                 <<k, s>> \in Calls' <=>
                    \/ <<k, s>> \in Calls
                    \/ k = "abort" /\ s \in DOMAIN participants
            <3>1. \A k \in Kind, s \in Slot :
                     <<k, s>> \in inflight' <=>
                        \/ <<k, s>> \in inflight
                        \/ k = "abort" /\ s \in DOMAIN participants
                BY <1>6
            <3> QED BY <1>4, <3>1 DEF Calls
        <2>2. \A s \in Slot : /\ <<"prepare", s>> \in inflight' => <<"prepare", s>> \in inflight
                              /\ <<"prepare_and_commit", s>> \in inflight' =>
                                    <<"prepare_and_commit", s>> \in inflight
            BY <1>6
        <2>3. AllYes => AllYes'
            BY <1>3, <1>4 DEF AllYes
        <2>4. \A k \in Kind, s \in Slot : <<k, s>> \in Calls' =>
                  /\ s \in DOMAIN participants
                  /\ k = "commit" => state \in {"prepared", "committed"} /\ AllYes'
                  /\ k = "abort" => state = "aborted"
                  /\ k = "prepare" => Len(participants) > 1
                  /\ k = "prepare_and_commit" => Len(participants) = 1
            BY <1>1, <2>1, <2>3, Zenon DEF ProtocolInv, CallInv
        <2>5. \A s \in Slot :
                  /\ <<"prepare", s>> \in inflight' => vote'[s] = NoVote
                  /\ <<"prepare_and_commit", s>> \in inflight' =>
                        vote'[s] = NoVote /\ state = "voting"
            BY <1>4, <2>2, Zenon DEF ProtocolInv, CallInv
        <2> QED BY <1>1, <1>3, <2>4, <2>5 DEF CallInv
    <1>10. OutcomeInv'
        BY <1>3, <1>4 DEF ProtocolInv, OutcomeInv, AllYes, Vetoed
    <1>11. AnswerInv'
        BY <1>1, <1>3, <1>5 DEF ProtocolInv, AnswerInv, Owning, Voting
    <1> QED BY <1>7, <1>8, <1>9, <1>10, <1>11 DEF ProtocolInv

\* Every abort call came back.
LEMMA AbortedCallsInv ==
    ASSUME TypeOK, ProtocolInv, NEW h \in Handler,
           UndoDone(h) \/ AbortDone(h)
    PROVE  ProtocolInv'
    <1> USE DEF TypeOK, store, net
    <1>1. state = "aborted"
        BY DEF UndoDone, AbortDone, ProtocolInv, PhaseInv, Undoing
    <1>2. PICK l \in {"cancel_aborted", "cancel_abort"} :
             pc' = [pc EXCEPT ![h] = l] /\ UNCHANGED <<store, net, lease, list, reply, answered>>
        BY DEF UndoDone, AbortDone, Goto
    <1>3. PhaseInv' /\ BeginInv'
        BY <1>1, <1>2 DEF ProtocolInv, PhaseInv, BeginInv, Voting, Undoing
    <1>4. OwnerInv' /\ ReplyInv'
        <2>1. pc'[h] = l /\ \A g \in Handler \ {h} : pc'[g] = pc[g]
            BY <1>2
        <2>2. OwnerInv'
            BY <1>2, <2>1, SMT DEF ProtocolInv, OwnerInv, Owning, Voting, Waiting, Calls
        <2>3. ReplyInv'
            BY <1>2, <2>1, SMT DEF ProtocolInv, ReplyInv, TrueReply
        <2> QED BY <2>2, <2>3
    <1>5. CallInv' /\ OutcomeInv'
        BY <1>2, NetStill
    <1>6. AnswerInv'
        BY <1>1, <1>2 DEF ProtocolInv, AnswerInv
    <1> QED BY <1>3, <1>4, <1>5, <1>6 DEF ProtocolInv

\* Committed is recorded with every vote in.
LEMMA CommittedInv ==
    ASSUME TypeOK, ProtocolInv, NEW h \in Handler,
           CommitEmpty(h) \/ CommitDone(h)
    PROVE  ProtocolInv'
    <1> USE DEF TypeOK, store, net
    <1>1. /\ pc[h] = "commit_empty" => state = "voting" /\ DOMAIN participants = {}
          /\ pc[h] = "committing" => state = "prepared"
        <2>1. /\ pc[h] = "commit_empty" => state = "voting" /\ Len(participants) = 0
              /\ pc[h] = "committing" => state = "prepared"
            BY DEF ProtocolInv, PhaseInv, OwnerInv, Voting
        <2>2. Len(participants) = 0 => DOMAIN participants = {}
            BY ParticipantSlots, SMT
        <2> QED BY <2>1, <2>2
    <1>2. AllYes /\ state \in {"voting", "prepared"} /\ ~Vetoed
        <2>1. AllYes /\ state \in {"voting", "prepared"}
            BY <1>1 DEF CommitEmpty, CommitDone, AllYes, ProtocolInv, OutcomeInv
        <2>2. AllYes => ~Vetoed
            BY SMT DEF AllYes, Vetoed
        <2> QED BY <2>1, <2>2
    <1>3. /\ state' = "committed"
          /\ pc' = [pc EXCEPT ![h] = "cancel_committed"]
          /\ UNCHANGED <<participants, lease, list, reply, inflight, served, vote,
                         outcome, answered>>
        BY <1>1 DEF CommitEmpty, CommitDone, Transition, Goto, Waiting
    <1>4. pc[h] \in Owning
        BY DEF CommitEmpty, CommitDone, Owning, Voting
    <1>5. \A g \in Handler : g # h => pc[g] \notin Owning
        BY <1>4 DEF ProtocolInv, OwnerInv
    <1>6. PhaseInv' /\ BeginInv'
        BY <1>2, <1>3, <1>5 DEF ProtocolInv, PhaseInv, BeginInv, Voting, Owning, Undoing
    <1>7. OwnerInv' /\ ReplyInv'
        <2>1. pc'[h] = "cancel_committed" /\ \A g \in Handler \ {h} : pc'[g] = pc[g]
            BY <1>3
        <2>2. OwnerInv'
            BY <1>3, <2>1, SMT DEF ProtocolInv, OwnerInv, Owning, Voting, Waiting, Calls
        <2>3. ReplyInv'
            BY <1>3, <2>1, SMT DEF ProtocolInv, ReplyInv, TrueReply
        <2> QED BY <2>2, <2>3
    <1>8. CallInv'
        <2>1. \A s \in Slot : <<"abort", s>> \notin Calls
            BY <1>2, Zenon DEF ProtocolInv, CallInv, Kind
        <2>2. \A s \in Slot : <<"prepare_and_commit", s>> \notin inflight
            <3> SUFFICES ASSUME NEW s \in Slot, <<"prepare_and_commit", s>> \in inflight
                         PROVE  FALSE
                BY Zenon
            <3>1. s \in DOMAIN participants /\ vote[s] = NoVote
                BY Zenon DEF ProtocolInv, CallInv, Calls, Kind
            <3> QED BY <1>2, <3>1, SMT DEF AllYes, NoVote
        <2> QED BY <1>2, <1>3, <2>1, <2>2 DEF ProtocolInv, CallInv, Calls, AllYes
    <1>9. OutcomeInv'
        BY <1>2, <1>3 DEF ProtocolInv, OutcomeInv, AllYes, Vetoed
    <1>10. AnswerInv'
        BY <1>2, <1>3, <1>4 DEF ProtocolInv, AnswerInv
    <1> QED BY <1>6, <1>7, <1>8, <1>9, <1>10 DEF ProtocolInv

\* A call that fails reports an error, not a vote.
LEMMA CallFailsInv ==
    ASSUME TypeOK, ProtocolInv, NEW h \in Handler, NEW s \in Slot, CallFails(h, s)
    PROVE  ProtocolInv'
    <1> USE DEF store, net
    <1>1. UNCHANGED <<store, lease, pc, list, net, answered>>
        BY DEF CallFails
    <1>2. PhaseInv' /\ BeginInv' /\ OwnerInv' /\ AnswerInv'
        BY <1>1 DEF ProtocolInv, PhaseInv, BeginInv, OwnerInv, AnswerInv, Calls
    <1>3. CallInv' /\ OutcomeInv'
        BY <1>1, NetStill
    <1>4. ReplyInv'
        <2>1. \A g \in Handler, x \in Slot :
                 reply'[g][x] = reply[g][x] \/ reply'[g][x] = "error"
            BY DEF CallFails, TypeOK
        <2>2. /\ DOMAIN participants \subseteq Slot
              /\ \A g \in Handler : pc[g] = "pac" => 1 \in Slot
            BY ParticipantSlots, SMT DEF TypeOK, ProtocolInv, OwnerInv
        <2>3. \A g \in Handler, x \in Slot : TrueReply(g, x) => TrueReply(g, x)'
            BY <1>1, <2>1, Zenon DEF TrueReply, PrepareVote
        <2> QED BY <1>1, <2>2, <2>3 DEF ProtocolInv, ReplyInv
    <1> QED BY <1>2, <1>3, <1>4 DEF ProtocolInv

\* A lost call is no longer in flight.
LEMMA LoseInv ==
    ASSUME TypeOK, ProtocolInv, NEW k \in Kind, NEW s \in Slot, Lose(k, s)
    PROVE  ProtocolInv'
    <1> USE DEF store, net, local
    <1>1. /\ inflight' \subseteq inflight /\ Calls' \subseteq Calls
          /\ UNCHANGED <<state, participants, lease, pc, list, reply, served, vote,
                         outcome, answered>>
        BY DEF Lose, Calls
    <1>2. PhaseInv' /\ BeginInv' /\ OwnerInv' /\ AnswerInv'
        BY <1>1, Zenon DEF ProtocolInv, PhaseInv, BeginInv, OwnerInv, AnswerInv
    <1>3. CallInv'
        BY <1>1 DEF ProtocolInv, CallInv, AllYes
    <1>4. ReplyInv' /\ OutcomeInv'
        BY <1>1 DEF ProtocolInv, ReplyInv, TrueReply, OutcomeInv, AllYes, Vetoed
    <1> QED BY <1>2, <1>3, <1>4 DEF ProtocolInv

\* A transaction still Active has called nobody and nobody has acted.
LEMMA EnlistInv ==
    ASSUME TypeOK, ProtocolInv, NEW p \in Endpoint, Enlist(p)
    PROVE  ProtocolInv'
    <1> USE DEF store, net, local
    <1>1. /\ state = "active"
          /\ UNCHANGED <<state, lease, pc, list, reply, inflight, served, vote,
                         outcome, answered>>
        BY DEF Enlist
    <1>2. \A g \in Handler : pc[g] \notin Owning \cup Undoing
        BY <1>1 DEF ProtocolInv, PhaseInv, Owning
    <1>3. Calls = {} /\ \A q \in Endpoint : outcome[q] = {}
        <2>1. Calls = {}
            BY <1>1 DEF ProtocolInv, CallInv
        <2>2. \A q \in Endpoint : "committed" \notin outcome[q] /\ "aborted" \notin outcome[q]
            BY <1>1 DEF ProtocolInv, OutcomeInv
        <2> QED BY <2>1, <2>2 DEF TypeOK
    <1>4. PhaseInv' /\ BeginInv' /\ AnswerInv'
        BY <1>1 DEF ProtocolInv, PhaseInv, BeginInv, AnswerInv
    <1>5. OwnerInv' /\ ReplyInv'
        BY <1>1, <1>2 DEF OwnerInv, ReplyInv, Owning, Voting, Waiting, Undoing
    <1>6. CallInv' /\ OutcomeInv'
        BY <1>1, <1>3 DEF ProtocolInv, CallInv, OutcomeInv, Calls
    <1> QED BY <1>4, <1>5, <1>6 DEF ProtocolInv

\* A restart forgets the handlers, not the record or the calls.
LEMMA CrashInv ==
    ASSUME TypeOK, ProtocolInv, Crash
    PROVE  ProtocolInv'
    <1> USE DEF store, net
    <1>1. /\ \A g \in Handler : pc'[g] = "idle"
          /\ UNCHANGED <<store, lease, net, answered>>
        BY DEF Crash
    <1>2. PhaseInv' /\ BeginInv' /\ AnswerInv'
        BY <1>1 DEF ProtocolInv, PhaseInv, BeginInv, AnswerInv, Voting, Owning, Undoing
    <1>3. OwnerInv' /\ ReplyInv'
        BY <1>1 DEF OwnerInv, ReplyInv, Owning, Voting, Waiting
    <1>4. CallInv' /\ OutcomeInv'
        BY <1>1, NetStill
    <1> QED BY <1>2, <1>3, <1>4 DEF ProtocolInv

\* The lease is no part of the protocol once it has been granted.
LEMMA LeaseInv ==
    ASSUME ProtocolInv, UNCHANGED <<store, local, net, answered>>,
           lease' \in {lease, "gone"}
    PROVE  ProtocolInv'
    <1> USE DEF store, net, local
    <1>1. PhaseInv' /\ BeginInv' /\ AnswerInv'
        BY DEF ProtocolInv, PhaseInv, BeginInv, AnswerInv
    <1>2. OwnerInv' /\ ReplyInv'
        BY DEF ProtocolInv, OwnerInv, ReplyInv, TrueReply, Calls
    <1>3. CallInv' /\ OutcomeInv'
        BY NetStill
    <1> QED BY <1>1, <1>2, <1>3 DEF ProtocolInv

\* abort_expired takes the record from Active, or does nothing.
LEMMA AbortExpiredInv ==
    ASSUME TypeOK, ProtocolInv, NEW h \in Handler,
           pc[h] \in {"idle", "sweep_check"},
           AbortExpired(h), UNCHANGED <<lease, net, answered>>
    PROVE  ProtocolInv'
    <1>1. CASE state # "active"
        BY <1>1, AsideInv DEF AbortExpired
    <1>2. CASE state = "active"
        <2>1. /\ state' = "aborted" /\ pc' = [pc EXCEPT ![h] = "expire_fetch"]
              /\ UNCHANGED <<participants, list, reply>>
            BY <1>2 DEF AbortExpired, UpdateStateIf, Goto
        <2> QED BY <1>2, <2>1, FromActiveInv, Zenon
    <1> QED BY <1>1, <1>2

\* The sweep lists, suspects and aborts only Active records.
LEMMA SweepInv ==
    ASSUME TypeOK, ProtocolInv, SweepList \/ SweepCheck
    PROVE  ProtocolInv'
    <1>1. Sweeper \in Handler
        BY DEF Handler
    <1>2. \/ UNCHANGED <<store, local, lease, net, answered>>
          \/ /\ pc[Sweeper] = "sweep_check" /\ AbortExpired(Sweeper)
             /\ UNCHANGED <<lease, net, answered>>
          \/ /\ Goto(Sweeper, "sweep_check") \/ Goto(Sweeper, "idle")
             /\ UNCHANGED <<store, lease, net, answered>>
        BY DEF SweepList, SweepCheck
    <1> QED BY <1>1, <1>2, LeaseInv, AsideInv, AbortExpiredInv

-----------------------------------------------------------------------------
\* Every action keeps the commit owner's knowledge and the store in step.
LEMMA NextProtocol == TypeOK /\ ProtocolInv /\ [Next]_vars => ProtocolInv'
    <1> SUFFICES ASSUME TypeOK, ProtocolInv, [Next]_vars PROVE ProtocolInv'
        OBVIOUS
    <1>1. ASSUME NEW h \in Handler, BeginCreate(h) PROVE ProtocolInv'
        BY <1>1, BeginStepsInv
    <1>2. ASSUME NEW h \in Handler, CommitRefused(h) PROVE ProtocolInv'
        BY <1>2, RefusedInv
    <1>3. ASSUME NEW h \in Handler, CommitFetch(h) PROVE ProtocolInv'
        BY <1>3, CommitFetchInv
    <1>4. ASSUME NEW h \in Handler, CommitEmpty(h) PROVE ProtocolInv'
        BY <1>4, CommittedInv
    <1>5. ASSUME NEW h \in Handler, PacDone(h) PROVE ProtocolInv'
        BY <1>5, PacDoneInv
    <1>6. ASSUME NEW h \in Handler, PrepareDone(h) PROVE ProtocolInv'
        BY <1>6, PrepareDoneInv
    <1>7. ASSUME NEW h \in Handler, CommitDone(h) PROVE ProtocolInv'
        BY <1>7, CommittedInv
    <1>8. ASSUME NEW h \in Handler, UndoDone(h) PROVE ProtocolInv'
        BY <1>8, AbortedCallsInv
    <1>9. ASSUME NEW h \in Handler, CancelLease(h) PROVE ProtocolInv'
        BY <1>9, CancelLeaseInv
    <1>10. ASSUME NEW h \in Handler, AbortRefused(h) PROVE ProtocolInv'
        BY <1>10, RefusedInv
    <1>11. ASSUME NEW h \in Handler, AbortFetch(h) PROVE ProtocolInv'
        BY <1>11, AbortCallsInv
    <1>12. ASSUME NEW h \in Handler, AbortDone(h) PROVE ProtocolInv'
        BY <1>12, AbortedCallsInv
    <1>13. ASSUME NEW h \in Handler, ExpireFetch(h) PROVE ProtocolInv'
        BY <1>13, AbortCallsInv
    <1>14. ASSUME NEW h \in Handler, ExpireDone(h) PROVE ProtocolInv'
        BY <1>14, ReturnInv, SMT DEF ExpireDone
    <1>15. ASSUME NEW h \in Handler, BeginGrant(h) PROVE ProtocolInv'
        BY <1>15, BeginStepsInv
    <1>16. ASSUME NEW h \in Handler, CommitClaim(h) PROVE ProtocolInv'
        BY <1>16, ClaimInv
    <1>17. ASSUME NEW h \in Handler, AbortClaim(h) PROVE ProtocolInv'
        BY <1>17, ClaimInv
    <1>18. ASSUME NEW h \in Handler, Cascade(h) PROVE ProtocolInv'
        BY <1>18, AbortExpiredInv DEF Cascade
    <1>19. ASSUME NEW h \in Handler, Dropped(h) PROVE ProtocolInv'
        BY <1>19, ReturnInv, SMT DEF Dropped
    <1>20. ASSUME NEW h \in Handler, NEW s \in Slot, CallReturns(h, s) PROVE ProtocolInv'
        BY <1>20, CallReturnsInv
    <1>21. ASSUME NEW h \in Handler, NEW s \in Slot, CallFails(h, s) PROVE ProtocolInv'
        BY <1>21, CallFailsInv
    <1>22. ASSUME NEW k \in Kind, NEW s \in Slot, Serve(k, s) PROVE ProtocolInv'
        BY <1>22, ServeInv
    <1>23. ASSUME NEW k \in Kind, NEW s \in Slot, Lose(k, s) PROVE ProtocolInv'
        BY <1>23, LoseInv
    <1>24. ASSUME NEW p \in Endpoint, Enlist(p) PROVE ProtocolInv'
        BY <1>24, EnlistInv
    <1>25. CASE LeaseReclaimed
        BY <1>25, LeaseInv DEF LeaseReclaimed
    <1>26. CASE SweepList \/ SweepCheck
        BY <1>26, SweepInv
    <1>27. CASE Crash
        BY <1>27, CrashInv
    <1>28. CASE UNCHANGED vars
        BY <1>28, LeaseInv DEF vars, store, local, net
    <1> QED
        BY <1>1, <1>2, <1>3, <1>4, <1>5, <1>6, <1>7, <1>8, <1>9,
           <1>10, <1>11, <1>12, <1>13, <1>14, <1>15, <1>16, <1>17,
           <1>18, <1>19, <1>20, <1>21, <1>22, <1>23, <1>24, <1>25,
           <1>26, <1>27, <1>28
        DEF Next, Step, Request

\* One commit owner at a time, whose phase, list and votes are those of the
\* store and of the participants (manager.rs commit, abort, abort_expired).
THEOREM ProtocolHolds == Spec => []ProtocolInv
    <1>1. Init => TypeOK /\ ProtocolInv
        BY InitType, InitProtocol
    <1>2. TypeOK /\ ProtocolInv /\ [Next]_vars => (TypeOK /\ ProtocolInv)'
        BY NextType, NextProtocol
    <1> QED BY <1>1, <1>2, PTL DEF Spec

\* No participant commits while another rolls back: the decision is one, and
\* every effect a call can still have is in line with it.
THEOREM AgreementHolds == Spec => []Agreement
    <1>1. ProtocolInv => Agreement
        <2>1. AllYes => ~Vetoed
            BY SMT DEF AllYes, Vetoed
        <2> QED BY <2>1 DEF ProtocolInv, OutcomeInv, Agreement
    <1> QED BY <1>1, ProtocolHolds, PTL

\* Nobody commits before everyone enlisted has voted yes.
THEOREM UnanimousCommitHolds == Spec => []UnanimousCommit
    <1>1. ProtocolInv => UnanimousCommit
        BY DEF ProtocolInv, OutcomeInv, AllYes, UnanimousCommit
    <1> QED BY <1>1, ProtocolHolds, PTL

\* The stored decision never contradicts a participant.
THEOREM DecisionIsTrueHolds == Spec => []DecisionIsTrue
    <1>1. ProtocolInv => DecisionIsTrue
        BY DEF ProtocolInv, OutcomeInv, DecisionIsTrue
    <1> QED BY <1>1, ProtocolHolds, PTL

\* Clients are told one outcome.
THEOREM ClientsAgreeHolds == Spec => []ClientsAgree
    <1>1. ProtocolInv => ClientsAgree
        BY DEF ProtocolInv, AnswerInv, ClientsAgree
    <1> QED BY <1>1, ProtocolHolds, PTL

\* The CASes a commit makes after its claim always succeed.
THEOREM CommitOwnsOutcomeHolds == Spec => []CommitOwnsOutcome
    <1>1. ProtocolInv => CommitOwnsOutcome
        BY DEF ProtocolInv, AnswerInv, CommitOwnsOutcome
    <1> QED BY <1>1, ProtocolHolds, PTL

-----------------------------------------------------------------------------
\* What a step may do to the record; outside Serve nobody acts on the effects.
LEMMA StepForward ==
    ASSUME TypeOK, ProtocolInv, Next
    PROVE  /\ state \in {"committed", "aborted"} => UNCHANGED store
           /\ state = "prepared" => state' \in {"prepared", "committed"}
           /\ state = "voting" => state' \notin {"none", "active"}
           /\ state \notin {"none", "active"} => UNCHANGED participants
           /\ \/ UNCHANGED outcome
              \/ \E k \in Kind, s \in Slot : Serve(k, s)
    <1> DEFINE Forward ==
            /\ state \in {"committed", "aborted"} => UNCHANGED store
            /\ state = "prepared" => state' \in {"prepared", "committed"}
            /\ state = "voting" => state' \notin {"none", "active"}
            /\ state \notin {"none", "active"} => UNCHANGED participants
    <1> USE DEF store, net, local
    <1>1. ASSUME NEW h \in Handler, Step(h) PROVE Forward /\ UNCHANGED outcome
        <2>1. CASE BeginCreate(h)
            BY <2>1 DEF BeginCreate, ProtocolInv, BeginInv
        <2>2. CASE CommitEmpty(h) \/ PacDone(h) \/ PrepareDone(h)
            <3>1. state = "voting"
                <4>1. pc[h] \in Voting
                    BY <2>2, Zenon DEF CommitEmpty, PacDone, PrepareDone, Voting
                <4> QED BY <4>1 DEF ProtocolInv, PhaseInv
            <3> QED BY <2>2, <3>1, Zenon DEF CommitEmpty, PacDone, PrepareDone,
                            Transition, CallAll
        <2>3. CASE CommitDone(h)
            BY <2>3 DEF CommitDone, ProtocolInv, PhaseInv, Transition, CallAll
        <2>4. CASE \/ CommitRefused(h) \/ CommitFetch(h) \/ UndoDone(h)
                   \/ CancelLease(h) \/ AbortRefused(h) \/ AbortFetch(h)
                   \/ AbortDone(h) \/ ExpireFetch(h) \/ ExpireDone(h)
            BY <2>4, Zenon DEF CommitRefused, CommitFetch, UndoDone, CancelLease,
                        AbortRefused, AbortFetch, AbortDone, ExpireFetch,
                        ExpireDone, CallAll
        <2> QED BY <1>1, <2>1, <2>2, <2>3, <2>4 DEF Step
    <1>2. ASSUME NEW h \in Handler, Request(h) \/ Dropped(h)
          PROVE  Forward /\ UNCHANGED outcome
        BY <1>2 DEF Request, BeginGrant, CommitClaim, AbortClaim, Cascade,
                    AbortExpired, UpdateStateIf, Dropped
    <1>3. ASSUME NEW h \in Handler, NEW s \in Slot, CallReturns(h, s) \/ CallFails(h, s)
          PROVE  Forward /\ UNCHANGED outcome
        BY <1>3 DEF CallReturns, CallFails
    <1>4. ASSUME NEW k \in Kind, NEW s \in Slot, Serve(k, s) PROVE Forward
        BY <1>4, Zenon DEF Serve
    <1>5. ASSUME NEW k \in Kind, NEW s \in Slot, Lose(k, s)
          PROVE  Forward /\ UNCHANGED outcome
        BY <1>5 DEF Lose
    <1>6. ASSUME NEW p \in Endpoint, Enlist(p) PROVE Forward /\ UNCHANGED outcome
        BY <1>6 DEF Enlist
    <1>7. CASE LeaseReclaimed \/ SweepList \/ SweepCheck \/ Crash
        BY <1>7 DEF LeaseReclaimed, SweepList, SweepCheck, AbortExpired,
                    UpdateStateIf, Crash
    <1> QED BY <1>1, <1>2, <1>3, <1>4, <1>5, <1>6, <1>7 DEF Next

\* The record only moves forward and a decided list is final.
THEOREM OnlyForwardHolds == Spec => OnlyForward
    <1>1. /\ TypeOK /\ ProtocolInv /\ [Next]_vars
          => [/\ state \in {"committed", "aborted"} => UNCHANGED store
              /\ state = "prepared" => state' \in {"prepared", "committed"}
              /\ state = "voting" => state' \notin {"none", "active"}
              /\ state \notin {"none", "active"} => UNCHANGED participants]_vars
        BY StepForward
    <1> QED BY <1>1, TypeCorrect, ProtocolHolds, PTL DEF Spec, OnlyForward

-----------------------------------------------------------------------------
\* What the invariant says of the abstract decision.
DecisionInv ==
    /\ decision \in {"open", "committed", "aborted"}
    /\ Did("committed") => decision = "committed"
    /\ Did("aborted") => decision = "aborted"
    /\ state \in {"prepared", "committed"} => decision = "committed"
    /\ state = "aborted" => decision = "aborted"
    /\ decision = "committed" =>
          state \in {"prepared", "committed"} \/ Did("committed")
    /\ decision = "aborted" => state = "aborted" \/ Did("aborted")

\* The invariant gives the facts the refinement needs.
LEMMA DecisionFacts == ProtocolInv => DecisionInv
    <1> SUFFICES ASSUME ProtocolInv PROVE DecisionInv
        OBVIOUS
    <1>1. AllYes => ~Vetoed
        BY SMT DEF AllYes, Vetoed
    <1>2. /\ Did("committed") => state # "aborted" /\ ~Did("aborted")
          /\ Did("aborted") => state \notin {"prepared", "committed"}
        BY <1>1 DEF ProtocolInv, OutcomeInv, Did
    <1> QED BY <1>2 DEF decision, DecisionInv

\* The initial state maps to the abstract one.
LEMMA InitAbstract == Init => Abstract!Init
    BY DEF Init, Abstract!Init, decision, Did

\* Every step of the coordinator is a decision, the carrying out of one, or
\* invisible.
LEMMA NextAbstract ==
    ASSUME TypeOK, ProtocolInv, ProtocolInv', [Next]_vars
    PROVE  [Abstract!Next]_(Abstract!vars)
    <1>d. DecisionInv /\ DecisionInv'
        BY DecisionFacts, PTL
    <1>1. CASE UNCHANGED vars
        BY <1>1 DEF vars, Abstract!vars, decision, Did
    <1>2. CASE Next /\ UNCHANGED outcome
        <2>1. Did("committed")' = Did("committed") /\ Did("aborted")' = Did("aborted")
            BY <1>2 DEF Did
        <2>2. /\ state \in {"prepared", "committed"} => state' \in {"prepared", "committed"}
              /\ state = "aborted" => state' = "aborted"
            BY <1>2, StepForward DEF store
        <2>3. decision # "open" => decision' = decision
            BY <1>d, <2>1, <2>2 DEF DecisionInv
        <2>4. decision' \in {"open", "committed", "aborted"}
            BY DEF decision
        <2> QED BY <1>2, <2>3, <2>4
                DEF Abstract!Next, Abstract!Decide, Abstract!vars, Abstract!Verdict
    <1>3. ASSUME NEW k \in Kind, NEW s \in Slot, Serve(k, s)
          PROVE  [Abstract!Next]_(Abstract!vars)
        <2>1. state' = state /\ s \in DOMAIN participants
            BY <1>3, Zenon DEF Serve, store, ProtocolInv, CallInv, Calls
        <2>2. PICK what \in {{}, {"committed"}, {"aborted"}} : Done(s, what)
            BY <1>3 DEF Serve
        <2> DEFINE p == participants[s]
        <2>3. p \in Endpoint
            BY <2>1, ParticipantSlots, SMT DEF TypeOK, Participants
        <2>4. outcome' = [outcome EXCEPT ![p] = @ \cup what] /\ outcome \in [Endpoint -> SUBSET {"committed", "aborted"}]
            BY <2>2 DEF Done, TypeOK
        <2> HIDE DEF p
        <2>5. CASE what = {}
            <3>1. outcome' = outcome
                BY <2>4, <2>5
            <3> QED BY <2>1, <3>1 DEF Abstract!vars, decision, Did
        <2>6. ASSUME NEW d \in {"committed", "aborted"}, what = {d}
              PROVE  [Abstract!Next]_(Abstract!vars)
            <3>1. \A e \in {"committed", "aborted"} :
                     Did(e)' <=> Did(e) \/ e = d
                BY <2>3, <2>4, <2>6 DEF Did
            <3>2. decision' = d
                BY <1>d, <3>1 DEF DecisionInv
            <3>3. decision \in {"open", d}
                BY <1>d, <2>1, <3>1, <3>2 DEF DecisionInv
            <3>4. outcome' = [outcome EXCEPT ![p] = @ \cup {d}]
                BY <2>4, <2>6
            <3> QED BY <2>3, <3>2, <3>3, <3>4, Zenon
                    DEF Abstract!Next, Abstract!Apply, Abstract!DecideAt, Abstract!Verdict
        <2> QED BY <2>2, <2>5, <2>6
    <1> QED BY <1>1, <1>2, <1>3, StepForward

\* The coordinator, its handlers, late calls and restarts included, implements
\* the specification with one decision.
THEOREM Refinement == Spec => ImplementsTxnOutcome
    <1>1. TypeOK /\ ProtocolInv /\ ProtocolInv' /\ [Next]_vars
          => [Abstract!Next]_(Abstract!vars)
        BY NextAbstract
    <1> QED BY <1>1, InitAbstract, TypeCorrect, ProtocolHolds, PTL
            DEF Spec, ImplementsTxnOutcome, Abstract!Spec
=============================================================================
