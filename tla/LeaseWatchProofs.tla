-------------------------- MODULE LeaseWatchProofs --------------------------
(***************************************************************************)
(* Leases keep their promise, for any number of leases, calls, TTLs and    *)
(* store errors, and the manager implements LeaseTerm; a watch of what is  *)
(* leased shows all of it, and goes with its own lease.                    *)
(***************************************************************************)
EXTENDS LeaseManager, WatchStream, TLAPS

\* Most steps are first-order; those that count or update records cite SMT.  In a
\* module of this size a prover is slow to start, so each leaf is given 30 seconds.
USE ZenonT(30)

USE LeaseAssumption DEF NoCap, LEASE_ANY

\* negotiate grants a whole number of seconds.
LEMMA NegotiateType == \A t \in Request : negotiate(t) \in Nat
    BY DEF negotiate

\* A granted term is a record whose expiry is a time.
LEMMA ExpiryType ==
    ASSUME NEW from \in Nat, NEW t \in Nat
    PROVE  /\ expiry_for(from, t) \in Nat
           /\ [expires_at |-> expiry_for(from, t), ttl |-> t] \in Record
           /\ in_range(from, t) => expiry_for(from, t) <= MAX_UTC
    BY SMTT(30) DEF expiry_for, Record, in_range

\* The initial state is well typed.
LEMMA InitType == Init => TypeOK
    BY SMTT(30) DEF Init, TypeOK, Record

\* Every step keeps the types.
LEMMA NextType == TypeOK /\ [Next]_vars => TypeOK'
    <1> SUFFICES ASSUME TypeOK, [Next]_vars PROVE TypeOK'
        OBVIOUS
    <1> USE DEF TypeOK, store, calls, reap
    <1>1. CASE Tick
        BY <1>1, SMTT(30) DEF Tick
    <1>2. ASSUME NEW l \in Lease, NEW t \in Request, Grant(l, t) PROVE TypeOK'
        <2>1. negotiate(t) \in Nat /\ now \in Nat
            BY NegotiateType, SMTT(30)
        <2>2. [expires_at |-> expiry_for(now, negotiate(t)), ttl |-> negotiate(t)] \in Record
            BY <2>1, ExpiryType
        <2> QED BY <1>2, <2>2 DEF Grant
    <1>3. ASSUME NEW h \in Caller, NEW l \in Lease, Renew(h, l) \/ Cancel(h, l) PROVE TypeOK'
        BY <1>3, SMTT(30) DEF Renew, Cancel, Goto
    <1>4. ASSUME NEW h \in Caller, NEW t \in Request, RenewExpiry(h, t) PROVE TypeOK'
        <2>1. negotiate(t) \in Nat /\ now \in Nat
            BY NegotiateType, SMTT(30)
        <2>2. [expires_at |-> expiry_for(now, negotiate(t)), ttl |-> negotiate(t)] \in Record
            BY <2>1, ExpiryType
        <2> QED BY <1>4, <2>2 DEF RenewExpiry, Goto
    <1>5. ASSUME NEW h \in Caller, RenewStore(h) PROVE TypeOK'
        BY <1>5 DEF RenewStore, Goto
    <1>6. ASSUME NEW h \in Caller, CancelRemove(h) \/ CancelSend(h) \/ Dropped(h) PROVE TypeOK'
        BY <1>6, SMTT(30) DEF CancelRemove, CancelSend, Dropped, Goto, Reason
    <1>7. CASE ReapList
        <2>1. \A l \in Lease : record[l].expires_at \in Nat
            BY DEF Record
        <2>2. listed' \subseteq Lease \X Nat
            BY <1>7, <2>1, SMTT(30) DEF ReapList
        <2> QED BY <1>7, <2>2 DEF ReapList
    <1>8. CASE ReapOne
        BY <1>8 DEF ReapOne, ReapRemove
    <1>9. CASE ReapFails \/ ReapSend
        BY <1>9, SMTT(30) DEF ReapFails, ReapSend, Reason
    <1>10. CASE UNCHANGED vars
        BY <1>10 DEF vars
    <1> QED BY <1>1, <1>2, <1>3, <1>4, <1>5, <1>6, <1>7, <1>8, <1>9, <1>10 DEF Next, Call

\* Every variable keeps its type.
THEOREM TypeCorrect == Spec => []TypeOK
    BY InitType, NextType, PTL DEF Spec
-----------------------------------------------------------------------------
\* What has expired is past the time its holder was told: FOREVER is never
\* expired, and its sentinel time lies beyond the clock.
LEMMA ExpiredIsPast ==
    ASSUME TypeOK, NEW l \in Lease, is_expired(record[l])
    PROVE  record[l].expires_at <= now
    BY DEF TypeOK, Record, is_expired

\* Nothing was granted yet.
LEMMA InitLease == Init => LeaseInv
    BY DEF Init, LeaseInv, PromiseKept, AnnouncedIsGone

\* Every step keeps the invariant.  The step that could break it is the
\* reaper's removal, whose list may be stale.
LEMMA NextLease == TypeOK /\ LeaseInv /\ [Next]_vars => LeaseInv'
    <1> SUFFICES ASSUME TypeOK, LeaseInv, [Next]_vars PROVE LeaseInv'
        OBVIOUS
    <1> USE DEF store, calls, reap, PromiseKept, AnnouncedIsGone
    <1>1. CASE Tick
        BY <1>1, SMTT(30) DEF Tick, TypeOK, LeaseInv, Record
    <1>2. ASSUME NEW l \in Lease, NEW t \in Request, Grant(l, t) PROVE LeaseInv'
        BY <1>2 DEF Grant, TypeOK, LeaseInv
    <1>3. ASSUME NEW h \in Caller, NEW l \in Lease, Renew(h, l) \/ Cancel(h, l) PROVE LeaseInv'
        BY <1>3, SMTT(30) DEF Renew, Cancel, Goto, TypeOK, LeaseInv
    <1>4. ASSUME NEW h \in Caller, NEW t \in Request, RenewExpiry(h, t) PROVE LeaseInv'
        <2>1. in_range(now, negotiate(t)) => expiry_for(now, negotiate(t)) <= MAX_UTC
            <3>1. negotiate(t) \in Nat /\ now \in Nat
                BY NegotiateType, SMTT(30) DEF TypeOK
            <3> QED BY <3>1, ExpiryType
        <2> QED BY <1>4, <2>1, SMTT(30) DEF RenewExpiry, Goto, TypeOK, LeaseInv
    <1>5. ASSUME NEW h \in Caller, RenewStore(h) PROVE LeaseInv'
        BY <1>5 DEF RenewStore, Goto, TypeOK, LeaseInv
    <1>6. ASSUME NEW h \in Caller, CancelRemove(h) \/ CancelSend(h) \/ Dropped(h) PROVE LeaseInv'
        BY <1>6, SMTT(30) DEF CancelRemove, CancelSend, Dropped, Goto, TypeOK, LeaseInv
    <1>7. CASE ReapList
        <2>1. \A x \in listed' : x[1] \in used /\ x[2] <= now
            <3>1. \A l \in live : is_expired(record[l]) => record[l].expires_at <= now
                BY ExpiredIsPast DEF TypeOK
            <3> QED BY <1>7, <3>1, SMTT(30) DEF ReapList, LeaseInv
        <2> QED BY <1>7, <2>1 DEF ReapList, LeaseInv
    <1>8. ASSUME NEW l \in Lease, NEW e \in 0 .. MAX_UTC, ReapRemove(l, e) PROVE LeaseInv'
        <2>1. l \in used /\ e <= now
            BY <1>8 DEF ReapRemove, LeaseInv
        <2> QED BY <1>8, <2>1 DEF ReapRemove, LeaseInv
    <1>9. CASE ReapFails \/ ReapSend
        BY <1>9, SMTT(30) DEF ReapFails, ReapSend, LeaseInv
    <1>10. CASE UNCHANGED vars
        BY <1>10 DEF vars, LeaseInv
    <1> QED BY <1>1, <1>2, <1>3, <1>4, <1>5, <1>6, <1>7, <1>8, <1>9, <1>10
            DEF Next, Call, ReapOne

\* The inductive invariant holds in every reachable state.
THEOREM LeaseInvHolds == Spec => []LeaseInv
    BY InitLease, NextLease, TypeCorrect, PTL DEF Spec

\* The reaper never removes a lease before the time its holder was last told,
\* however its pass interleaves with renewals.
THEOREM PromiseKeptHolds == Spec => []PromiseKept
    <1>1. LeaseInv => PromiseKept
        BY DEF LeaseInv
    <1> QED BY <1>1, LeaseInvHolds, PTL

\* What expiry_tx announces is gone.
THEOREM AnnouncedIsGoneHolds == Spec => []AnnouncedIsGone
    <1>1. LeaseInv => AnnouncedIsGone
        BY DEF LeaseInv
    <1> QED BY <1>1, LeaseInvHolds, PTL

\* No step puts a lease back.
LEMMA NoStepBack ==
    TypeOK /\ LeaseInv /\ [Next]_vars => \A l \in used : l \notin live => l \notin live'
    <1> SUFFICES ASSUME TypeOK, LeaseInv, [Next]_vars,
                        NEW l \in used, l \notin live
                 PROVE  l \notin live'
        OBVIOUS
    <1> USE DEF store, calls, reap
    <1>1. CASE \E m \in Lease, t \in Request : Grant(m, t)
        BY <1>1 DEF Grant
    <1>2. CASE \E h \in Caller : Call(h)
        BY <1>2 DEF Call, Renew, Cancel, RenewExpiry, RenewStore, CancelRemove, CancelSend, Dropped
    <1>3. CASE Tick \/ ReapList \/ ReapOne \/ ReapFails \/ ReapSend \/ UNCHANGED vars
        BY <1>3 DEF Tick, ReapList, ReapOne, ReapRemove, ReapFails, ReapSend, vars
    <1> QED BY <1>1, <1>2, <1>3 DEF Next

\* A lease that left the store never returns.
THEOREM NoReturnHolds == Spec => NoReturn
    <1>1. TypeOK /\ LeaseInv /\ [Next]_vars =>
             [\A l \in used : l \notin live => l \notin live']_vars
        BY NoStepBack
    <1> QED BY <1>1, TypeCorrect, LeaseInvHolds, PTL DEF Spec, NoReturn
-----------------------------------------------------------------------------
(* Under a cap every lease ends within the policy.                         *)

Capped == MaxTtl # NoCap /\ PreferredTtl <= MaxTtl
HorizonInv ==
    /\ \A l \in live : record[l].expires_at <= now + MaxTtl
    /\ \A h \in Caller : pc[h] = "storing" => fresh[h].expires_at <= now + MaxTtl

\* negotiate grants no more than the cap.
LEMMA CapHolds ==
    ASSUME Capped, NEW t \in Request, NEW from \in Nat, in_range(from, negotiate(t))
    PROVE  expiry_for(from, negotiate(t)) <= from + MaxTtl
    <1>1. negotiate(t) \in Nat /\ negotiate(t) <= MaxTtl
        BY SMTT(30) DEF Capped, negotiate
    <1>2. MaxTtl \in Nat
        BY DEF Capped
    <1>3. CASE negotiate(t) = LEASE_FOREVER
        BY <1>1, <1>2, <1>3, SMTT(30) DEF expiry_for
    <1>4. CASE negotiate(t) # LEASE_FOREVER
        BY <1>1, <1>2, <1>4, SMTT(30) DEF expiry_for
    <1> QED BY <1>3, <1>4

\* Every step keeps the horizon: the clock only moves on, and what is stored
\* was computed from a clock no later than now.
LEMMA NextHorizon ==
    Capped /\ TypeOK /\ LeaseInv /\ HorizonInv /\ [Next]_vars => HorizonInv'
    <1> SUFFICES ASSUME Capped, TypeOK, LeaseInv, HorizonInv, [Next]_vars PROVE HorizonInv'
        OBVIOUS
    <1> USE DEF store, calls, reap
    <1>0. MaxTtl \in Nat /\ now \in Nat
        BY SMTT(30) DEF Capped, TypeOK
    <1>1. CASE Tick
        <2>1. now' = now + 1 /\ UNCHANGED <<live, record, pc, fresh>>
            BY <1>1 DEF Tick
        <2>2. \A l \in Lease : record[l].expires_at \in Nat
            BY DEF TypeOK, Record
        <2>3. \A h \in Caller : fresh[h].expires_at \in Nat
            BY DEF TypeOK, Record
        <2> QED BY <1>0, <2>1, <2>2, <2>3, SMTT(30) DEF HorizonInv, TypeOK
    <1>2. ASSUME NEW l \in Lease, NEW t \in Request, Grant(l, t) PROVE HorizonInv'
        <2>1. expiry_for(now, negotiate(t)) <= now + MaxTtl
            BY <1>0, <1>2, CapHolds DEF Grant
        <2> QED BY <1>2, <2>1 DEF Grant, TypeOK, HorizonInv
    <1>3. ASSUME NEW h \in Caller, NEW l \in Lease, Renew(h, l) \/ Cancel(h, l) PROVE HorizonInv'
        BY <1>3 DEF Renew, Cancel, Goto, TypeOK, HorizonInv
    <1>4. ASSUME NEW h \in Caller, NEW t \in Request, RenewExpiry(h, t) PROVE HorizonInv'
        <2>1. in_range(now, negotiate(t)) => expiry_for(now, negotiate(t)) <= now + MaxTtl
            BY <1>0, CapHolds
        <2> QED BY <1>4, <2>1, SMTT(30) DEF RenewExpiry, Goto, TypeOK, HorizonInv
    <1>5. ASSUME NEW h \in Caller, RenewStore(h) PROVE HorizonInv'
        BY <1>5 DEF RenewStore, Goto, TypeOK, HorizonInv
    <1>6. ASSUME NEW h \in Caller, CancelRemove(h) \/ CancelSend(h) \/ Dropped(h) PROVE HorizonInv'
        BY <1>6 DEF CancelRemove, CancelSend, Dropped, Goto, TypeOK, HorizonInv
    <1>7. CASE ReapList \/ ReapOne \/ ReapFails \/ ReapSend \/ UNCHANGED vars
        BY <1>7 DEF ReapList, ReapOne, ReapRemove, ReapFails, ReapSend, vars, HorizonInv
    <1> QED BY <1>1, <1>2, <1>3, <1>4, <1>5, <1>6, <1>7 DEF Next, Call

\* A capped manager never holds a lease that outlasts its policy.
THEOREM PolicyHorizonHolds == Spec => []PolicyHorizon
    <1>1. CASE Capped
        <2>1. Init => HorizonInv
            BY DEF Init, HorizonInv
        <2>2. TypeOK /\ LeaseInv /\ HorizonInv /\ [Next]_vars => HorizonInv'
            BY <1>1, NextHorizon
        <2>3. HorizonInv => PolicyHorizon
            BY DEF HorizonInv, PolicyHorizon
        <2> QED BY <2>1, <2>2, <2>3, TypeCorrect, LeaseInvHolds, PTL DEF Spec
    <1>2. CASE ~Capped
        <2>1. PolicyHorizon
            BY <1>2 DEF Capped, PolicyHorizon
        <2> QED BY <2>1, PTL
    <1> QED BY <1>1, <1>2

-----------------------------------------------------------------------------
(* The manager implements LeaseTerm.                                       *)

\* No lease is used.
LEMMA InitTerm == Init => Term!Init
    BY SMTT(30) DEF Init, Term!Init, status, until, announced

\* A step of the manager is a step of the term or changes none of it.
LEMMA NextTerm ==
    TypeOK /\ LeaseInv /\ LeaseInv' /\ [Next]_vars => [Term!Next]_(Term!vars)
    <1> SUFFICES ASSUME TypeOK, LeaseInv, LeaseInv', [Next]_vars
                 PROVE  [Term!Next]_(Term!vars)
        OBVIOUS
    <1> USE DEF store, calls, reap
    <1>s. (UNCHANGED <<now, used, live, record, asked, reclaimed>>) => UNCHANGED Term!vars
        BY DEF Term!vars, status, until, announced
    <1>1. CASE Tick
        <2>1. Term!Pass
            BY <1>1 DEF Tick, Term!Pass, status, until, announced
        <2> QED BY <2>1 DEF Term!Next
    <1>2. ASSUME NEW l \in Lease, NEW t \in Request, Grant(l, t) PROVE Term!Next
        <2> DEFINE e == expiry_for(now, negotiate(t))
        <2>1. e \in 0 .. MAX_UTC
            BY <1>2, NegotiateType, ExpiryType, SMTT(30) DEF Grant, TypeOK
        <2>2. record' = [record EXCEPT ![l] = [expires_at |-> e, ttl |-> negotiate(t)]]
            BY <1>2 DEF Grant
        <2> HIDE DEF e
        <2>3. until' = [until EXCEPT ![l] = e]
            BY <2>2 DEF until, TypeOK
        <2>4. status[l] = "unused" /\ status' = [status EXCEPT ![l] = "standing"]
            BY <1>2 DEF Grant, status, LeaseInv
        <2>5. Term!Promise(l, e)
            BY <1>2, <2>3, <2>4 DEF Grant, Term!Promise, announced
        <2> QED BY <2>1, <2>5 DEF Term!Next
    <1>3. ASSUME NEW h \in Caller, RenewStore(h) PROVE [Term!Next]_(Term!vars)
        <2>1. CASE target[h] \in live
            <3> DEFINE e == fresh[h].expires_at
            <3>1. until' = [until EXCEPT ![target[h]] = e]
                BY <1>3, <2>1 DEF RenewStore, until, TypeOK
            <3>2. status[target[h]] = "standing" /\ status' = [status EXCEPT ![target[h]] = "standing"]
                BY <1>3, <2>1, SMTT(30) DEF RenewStore, status, LeaseInv, TypeOK
            <3>3. Term!Promise(target[h], e)
                BY <1>3, <3>1, <3>2 DEF RenewStore, Term!Promise, announced
            <3>4. e \in 0 .. MAX_UTC /\ target[h] \in Lease
                BY <1>3, SMTT(30) DEF RenewStore, TypeOK, Record, LeaseInv
            <3> QED BY <3>3, <3>4 DEF Term!Next
        <2>2. CASE target[h] \notin live
            BY <1>3, <2>2, <1>s DEF RenewStore
        <2> QED BY <2>1, <2>2
    <1>4. ASSUME NEW h \in Caller, NEW l \in Lease, Cancel(h, l) PROVE Term!Next
        <2>1. Term!AskCancel(l)
            BY <1>4 DEF Cancel, Term!AskCancel, status, until, announced
        <2> QED BY <2>1 DEF Term!Next
    <1>5. ASSUME NEW l \in Lease, live' = live \ {l}, l \in live,
                 l \in asked \/ record[l].expires_at <= now,
                 UNCHANGED <<now, used, record, asked, reclaimed>>
          PROVE  Term!Next
        <2>1. status[l] = "standing" /\ status' = [status EXCEPT ![l] = "ended"]
            BY <1>5, ZenonT(30) DEF status, LeaseInv
        <2>2. Term!End(l)
            BY <1>5, <2>1 DEF Term!End, until, announced
        <2> QED BY <2>2 DEF Term!Next
    <1>6. ASSUME NEW h \in Caller, CancelRemove(h) PROVE [Term!Next]_(Term!vars)
        <2>1. target[h] \in Lease /\ target[h] \in asked
            BY <1>6 DEF CancelRemove, LeaseInv, TypeOK
        <2>2. CASE target[h] \in live
            BY <1>5, <1>6, <2>1, <2>2 DEF CancelRemove
        <2>3. CASE target[h] \notin live
            BY <1>6, <2>3, <1>s DEF CancelRemove
        <2> QED BY <2>2, <2>3
    <1>7. ASSUME NEW S \in SUBSET Lease, NEW why \in Reason,
                 S \subseteq used \ live,
                 reclaimed' = reclaimed \cup {<<l, why>> : l \in S},
                 UNCHANGED <<now, used, live, record, asked>>
          PROVE  Term!Next
        <2>1. announced' = announced \cup S
            <3>1. \A x \in {<<l, why>> : l \in S} : x[1] \in S
                BY SMTT(30)
            <3>2. \A l \in S : <<l, why>> \in reclaimed' /\ <<l, why>>[1] = l
                BY <1>7
            <3>3. announced' \subseteq announced \cup S
                BY <1>7, <3>1 DEF announced
            <3>4. announced \cup S \subseteq announced'
                BY <1>7, <3>2 DEF announced
            <3> QED BY <3>3, <3>4
        <2>2. \A l \in S : status[l] = "ended"
            BY <1>7 DEF status
        <2>3. Term!Announce(S)
            BY <1>7, <2>1, <2>2 DEF Term!Announce, status, until
        <2> QED BY <2>3 DEF Term!Next
    <1>8. ASSUME NEW h \in Caller, CancelSend(h) PROVE Term!Next
        <2>1. {target[h]} \in SUBSET Lease /\ {target[h]} \subseteq used \ live
            BY <1>8 DEF CancelSend, LeaseInv, TypeOK
        <2>2. reclaimed' = reclaimed \cup {<<l, "cancelled">> : l \in {target[h]}}
            BY <1>8 DEF CancelSend
        <2> QED BY <1>7, <1>8, <2>1, <2>2 DEF CancelSend, Reason
    <1>9. ASSUME NEW l \in Lease, NEW e \in 0 .. MAX_UTC, ReapRemove(l, e)
          PROVE  [Term!Next]_(Term!vars)
        <2>1. e <= now
            BY <1>9 DEF ReapRemove, LeaseInv
        <2>2. CASE l \in live /\ record[l].expires_at = e
            BY <1>5, <1>9, <2>1, <2>2 DEF ReapRemove
        <2>3. CASE ~(l \in live /\ record[l].expires_at = e)
            BY <1>9, <2>3, <1>s DEF ReapRemove
        <2> QED BY <2>2, <2>3
    <1>10. CASE ReapSend
        BY <1>7, <1>10 DEF ReapSend, LeaseInv, TypeOK, Reason
    <1>11. CASE ReapList \/ ReapFails \/ UNCHANGED vars
        BY <1>11, <1>s DEF ReapList, ReapFails, vars
    <1>12. CASE \E h \in Caller : Dropped(h) \/ (\E l \in Lease : Renew(h, l))
                                  \/ (\E t \in Request : RenewExpiry(h, t))
        BY <1>12, <1>s DEF Dropped, Renew, RenewExpiry
    <1> QED BY <1>1, <1>2, <1>3, <1>4, <1>6, <1>8, <1>9, <1>10, <1>11, <1>12
            DEF Next, Call, ReapOne

\* The lease manager implements the lease term.
THEOREM Refinement == Spec => ImplementsLeaseTerm
    BY InitTerm, NextTerm, TypeCorrect, LeaseInvHolds, PTL DEF Spec, ImplementsLeaseTerm

-----------------------------------------------------------------------------
(***************************************************************************)
(* The streams of changes.                                                 *)
(***************************************************************************)

HIDE LeaseAssumption DEF NoCap, LEASE_ANY

Templates == Template \cup {<<>>} \cup Item
WatchRec ==
    [pc : {"idle", "granted", "stored", "created", "open", "ended"}, tpl : Templates,
     inbox : Seq(Change), lagged : BOOLEAN, task : {"none", "run", "last", "over"},
     held : Seq(Change \cup {Loss}), slot : Seq(Change \cup {Loss}),
     got : Seq(Change), due : Seq(Change), view : SUBSET Item, snapped : BOOLEAN]
RowRec == [there : BOOLEAN, indexed : BOOLEAN, found : Nat]
ItemRec ==
    [at : {0, 1, 2}, pc : {"none", "indexed", "stored", "read", "checked", "done"},
     indexed : BOOLEAN, found : Nat, back : BOOLEAN, news : SUBSET Change]

WatchType ==
    /\ on \in {"appearance", "expiration", "registry", "lease"} /\ memory \in BOOLEAN
    /\ watch \in WatchRec /\ item \in [Item -> ItemRec]
    /\ watchRow \in RowRec /\ watchLease \in {"none", "held", "ended"}

\* In memory a stored row is indexed but for one step of the call, until a removal
\* finds it.
RowInv == WatchRowIsFindable

\* An item is stored for the first time; a change is on its way: announced, or
\* about to be.
Inserted(i) == item[i].pc \notin {"none", "indexed"}
OnItsWay(e) == e \in item[e[2]].news \/ \E n \in 1 .. Len(watch.inbox) : watch.inbox[n] = e

\* A change on its way is of an item that was stored; one that says it is gone is
\* overtaken only by an update that brings it back.
ChangeInv ==
    /\ \A i \in Item : item[i].at # 0 => Inserted(i)
    /\ \A i \in Item : \A e \in item[i].news : e[2] = i
    /\ \A e \in Change : OnItsWay(e) =>
          Inserted(e[2]) /\ (e[1] = "out" => item[e[2]].at = 0 \/ item[e[2]].back)

\* A Registry Watch has no task; once its client has the snapshot, an entry that
\* matches is in its view, or was brought back, or the change that made it match is
\* on its way.
ViewInv ==
    IsRegistry =>
       /\ watch.pc \in {"idle", "open", "ended"} /\ watch.task = "none" /\ watch.held = <<>>
       /\ watch.pc = "idle" => ~watch.snapped
       /\ (watch.pc = "open" /\ watch.snapped /\ ~watch.lagged) =>
             \A i \in lookup_all(watch.tpl) :
                i \in watch.view \/ item[i].back \/ OnItsWay(<<"in", i, item[i].at>>)

WatchInv == WatchType /\ RowInv /\ ChangeInv /\ ViewInv

\* What is on its way depends on the announcements alone.
LEMMA ChangesStay ==
    ASSUME WatchInv, watch' \in WatchRec, watch'.inbox = watch.inbox, UNCHANGED item
    PROVE  ChangeInv' /\ \A e \in Change : OnItsWay(e) => OnItsWay(e)'
    <1>1. \A e \in Change : OnItsWay(e)' <=> OnItsWay(e)
        BY DEF OnItsWay
    <1>2. ChangeInv
        BY DEF WatchInv
    <1> QED BY <1>1, <1>2 DEF ChangeInv, Inserted

\* A change that is dropped from the inbox, or read, is not on its way.
LEMMA InboxDrops ==
    ASSUME WatchInv, watch' \in WatchRec, UNCHANGED item,
           watch'.inbox \in {watch.inbox, <<>>} \/ (watch.inbox # <<>> /\ watch'.inbox = Tail(watch.inbox))
    PROVE  ChangeInv'
    <1>1. watch.inbox \in Seq(Change)
        BY DEF WatchInv, WatchType, WatchRec
    <1>2. ASSUME NEW e, OnItsWay(e)' PROVE OnItsWay(e)
        <2>1. CASE watch'.inbox = watch.inbox
            BY <1>2, <2>1 DEF OnItsWay
        <2>2. CASE watch'.inbox = <<>>
            BY <1>2, <2>2, SMTT(30) DEF OnItsWay
        <2>3. CASE watch.inbox # <<>> /\ watch'.inbox = Tail(watch.inbox)
            <3>1. \A n \in 1 .. Len(Tail(watch.inbox)) :
                     n + 1 \in 1 .. Len(watch.inbox) /\ watch.inbox[n + 1] = Tail(watch.inbox)[n]
                BY <1>1, <2>3, SMTT(30)
            <3> QED BY <1>2, <2>3, <3>1 DEF OnItsWay
        <2> QED BY <2>1, <2>2, <2>3
    <1>3. ChangeInv
        BY DEF WatchInv
    <1> QED BY <1>2, <1>3 DEF ChangeInv, Inserted

\* The opening of a stream: the lease, the row, the subscription.
LEMMA OpenSteps ==
    ASSUME WatchInv, Opens \/ put_watch \/ Watch
    PROVE  WatchInv'
    <1>1. WatchType /\ RowInv /\ ViewInv
        BY DEF WatchInv
    <1>2. UNCHANGED <<on, memory, item>>
        BY DEF Opens, Notify, create_watch, Subscribe, put_watch, Watch
    <1>3. ASSUME watch' \in WatchRec, watch'.inbox = watch.inbox, WatchType', RowInv', ViewInv'
          PROVE  WatchInv'
        BY <1>2, <1>3, ChangesStay DEF WatchInv
    <1>4. CASE Notify
        <2>1. PICK t \in Template : watch' = [watch EXCEPT !.pc = "granted", !.tpl = t]
            BY <1>4 DEF Notify
        <2>2. /\ watch' \in WatchRec /\ watch'.pc = "granted" /\ watch'.inbox = watch.inbox
              /\ ~IsRegistry /\ watch.pc = "idle" /\ watchLease' = "held" /\ UNCHANGED watchRow
            BY <1>1, <1>4, <2>1 DEF WatchType, WatchRec, Notify, Templates, Direct, IsRegistry
        <2>3. WatchType' /\ RowInv' /\ ViewInv'
            BY <1>1, <1>2, <2>2 DEF WatchType, RowInv, WatchRowIsFindable, ViewInv, IsRegistry
        <2> QED BY <1>3, <2>2, <2>3
    <1>5. CASE create_watch
        <2>1. ASSUME watch.pc = "granted", watchRow' = [watchRow EXCEPT !.there = TRUE],
                     watch' = [watch EXCEPT !.pc = "stored"]
              PROVE  WatchInv'
            <3>1. /\ watch' \in WatchRec /\ watch'.pc = "stored" /\ watch'.inbox = watch.inbox
                  /\ watchRow' \in RowRec /\ ~IsRegistry /\ UNCHANGED watchLease
                BY <1>1, <1>5, <2>1 DEF WatchType, WatchRec, RowRec, ViewInv, create_watch
            <3>2. WatchType' /\ RowInv' /\ ViewInv'
                BY <1>1, <1>2, <2>1, <3>1 DEF WatchType, RowInv, WatchRowIsFindable, ViewInv, IsRegistry
            <3> QED BY <1>3, <3>1, <3>2
        <2>2. ASSUME watch.pc = "stored", watchRow' = [watchRow EXCEPT !.indexed = TRUE],
                     watch' = [watch EXCEPT !.pc = "created"]
              PROVE  WatchInv'
            <3>1. /\ watch' \in WatchRec /\ watch'.pc = "created" /\ watch'.inbox = watch.inbox
                  /\ watchRow' \in RowRec /\ watchRow'.indexed
                  /\ ~IsRegistry /\ UNCHANGED watchLease
                BY <1>1, <1>5, <2>2 DEF WatchType, WatchRec, RowRec, ViewInv, create_watch
            <3>2. WatchType' /\ RowInv' /\ ViewInv'
                BY <1>1, <1>2, <2>2, <3>1 DEF WatchType, RowInv, WatchRowIsFindable, ViewInv, IsRegistry
            <3> QED BY <1>3, <3>1, <3>2
        <2> QED BY <1>5, <2>1, <2>2 DEF create_watch
    <1>6. CASE Subscribe
        <2>1. /\ watch' \in WatchRec /\ watch.pc = "created" /\ watch'.pc = "open" /\ watch'.inbox = watch.inbox
              /\ ~IsRegistry /\ UNCHANGED <<watchLease, watchRow>>
            BY <1>1, <1>6 DEF WatchType, WatchRec, ViewInv, Subscribe
        <2>2. WatchType' /\ RowInv' /\ ViewInv'
            BY <1>1, <1>2, <2>1 DEF WatchType, RowInv, WatchRowIsFindable, ViewInv, IsRegistry
        <2> QED BY <1>3, <2>1, <2>2
    <1>7. CASE put_watch
        <2>1. ASSUME NEW l \in {"created", "ended"}, watch' = [watch EXCEPT !.pc = l],
                     watchRow' \in RowRec
              PROVE  WatchInv'
            <3>1. /\ watch' \in WatchRec /\ watch.pc = "granted" /\ watch'.pc = l /\ watch'.inbox = watch.inbox
                  /\ ~IsRegistry /\ ~memory /\ UNCHANGED watchLease
                BY <1>1, <1>7, <2>1 DEF WatchType, WatchRec, ViewInv, put_watch
            <3>2. WatchType' /\ RowInv' /\ ViewInv'
                BY <1>1, <1>2, <2>1, <3>1 DEF WatchType, RowInv, WatchRowIsFindable, ViewInv, IsRegistry
            <3> QED BY <1>3, <3>1, <3>2
        <2>2. ASSUME NEW x \in BOOLEAN, watchRow' = [watchRow EXCEPT !.there = TRUE, !.indexed = x]
              PROVE  watchRow' \in RowRec
            BY <1>1, <2>2 DEF WatchType, RowRec
        <2>3. UNCHANGED watchRow => watchRow' \in RowRec
            BY <1>1 DEF WatchType
        <2> QED BY <1>7, <2>1, <2>2, <2>3 DEF put_watch
    <1>8. CASE Watch
        <2>1. PICK t \in Templates : watch' = [watch EXCEPT !.pc = "open", !.tpl = t]
            BY <1>8 DEF Watch, Templates
        <2>2. /\ watch' \in WatchRec /\ watch'.pc = "open" /\ watch'.inbox = watch.inbox
              /\ watch'.task = watch.task /\ watch'.held = watch.held /\ watch'.snapped = watch.snapped
              /\ watch.pc = "idle" /\ UNCHANGED <<watchRow, watchLease>>
            BY <1>1, <1>8, <2>1 DEF WatchType, WatchRec, Watch
        <2>3. WatchType' /\ RowInv' /\ ViewInv'
            BY <1>1, <1>2, <2>2 DEF WatchType, RowInv, WatchRowIsFindable, ViewInv, IsRegistry
        <2> QED BY <1>3, <2>2, <2>3
    <1> QED BY <1>4, <1>5, <1>6, <1>7, <1>8 DEF Opens

\* The end of the lease, and its cascade.
LEMMA RowSteps ==
    ASSUME WatchInv, WatchLeaseEnds \/ WatchSettle \/ on_watch_expired \/ Shutdown
    PROVE  WatchInv'
    <1>1. WatchType /\ RowInv /\ ViewInv /\ UNCHANGED <<on, memory, watch, item>>
        BY DEF WatchInv, WatchLeaseEnds, WatchSettle, on_watch_expired, Shutdown
    <1>2. ChangeInv' /\ ViewInv'
        <2>1. watch \in WatchRec
            BY <1>1 DEF WatchType
        <2>2. lookup_all(watch.tpl)' = lookup_all(watch.tpl)
            BY <1>1 DEF lookup_all
        <2>3. \A e : OnItsWay(e)' <=> OnItsWay(e)
            BY <1>1 DEF OnItsWay
        <2>4. ViewInv'
            BY <1>1, <2>2, <2>3 DEF ViewInv, IsRegistry
        <2> QED BY <1>1, <2>1, <2>4, ChangesStay
    <1>3. WatchType' /\ RowInv'
        <2>1. CASE WatchLeaseEnds \/ Shutdown
            BY <1>1, <2>1 DEF WatchType, RowInv, WatchRowIsFindable, WatchLeaseEnds, Shutdown
        <2>2. CASE WatchSettle
            BY <1>1, <2>2 DEF WatchType, RowInv, WatchRowIsFindable, RowRec, WatchSettle
        <2>3. CASE on_watch_expired
            <3>1. CASE /\ watchRow.indexed
                       /\ watchRow' = [watchRow EXCEPT !.indexed = ~memory, !.found = @ + 1]
                <4>0. watchRow.found \in Nat /\ memory \in BOOLEAN
                    BY <1>1 DEF WatchType, RowRec
                <4>1. watchRow.found + 1 \in Nat /\ watchRow.found + 1 # 0 /\ (~memory) \in BOOLEAN
                    <5>1. watchRow.found + 1 \in Nat /\ watchRow.found + 1 # 0
                        BY <4>0, SMTT(30)
                    <5> QED BY <4>0, <5>1
                <4>2. watchRow' \in RowRec /\ watchRow'.found # 0
                    BY <1>1, <3>1, <4>1 DEF WatchType, RowRec
                <4> QED BY <1>1, <2>3, <4>2 DEF WatchType, RowInv, WatchRowIsFindable, on_watch_expired
            <3>2. CASE watchRow.found # 0 /\ ~memory /\ watchRow' = [watchRow EXCEPT !.found = @ - 1]
                <4>1. watchRow.found - 1 \in Nat
                    BY <1>1, <3>2, SMTT(30) DEF WatchType, RowRec
                <4>2. watchRow' \in RowRec
                    BY <1>1, <3>2, <4>1 DEF WatchType, RowRec
                <4>3. ~memory' /\ UNCHANGED watchLease
                    <5>1. ~memory /\ UNCHANGED memory
                        BY <1>1, <3>2
                    <5>2. UNCHANGED watchLease
                        BY <2>3 DEF on_watch_expired
                    <5> QED BY <5>1, <5>2
                <4> QED BY <1>1, <4>2, <4>3 DEF WatchType, RowInv, WatchRowIsFindable
            <3>3. CASE /\ watchRow.found # 0
                       /\ watchRow' = [there |-> FALSE, indexed |-> FALSE, found |-> watchRow.found - 1]
                <4>1. watchRow.found - 1 \in Nat
                    BY <1>1, <3>3, SMTT(30) DEF WatchType, RowRec
                <4>2. watchRow' \in RowRec /\ ~watchRow'.there
                    BY <3>3, <4>1 DEF RowRec
                <4> QED BY <1>1, <2>3, <4>2 DEF WatchType, RowInv, WatchRowIsFindable, on_watch_expired
            <3> QED BY <1>1, <2>3, <3>1, <3>2, <3>3 DEF WatchType, on_watch_expired, remove_watch_by_lease
        <2> QED BY <2>1, <2>2, <2>3
    <1> QED BY <1>2, <1>3 DEF WatchInv

\* A client takes its snapshot, or goes away; Notify's task takes a change, and
\* sends it.
LEMMA ClientSteps ==
    ASSUME WatchInv, Snapshot \/ Hangup \/ TaskRecv \/ TaskSend
    PROVE  WatchInv'
    <1>1. WatchType /\ RowInv /\ ViewInv /\ ChangeInv /\ watch \in WatchRec
          /\ UNCHANGED <<on, memory, watchRow, watchLease, item>>
        BY DEF WatchInv, WatchType, Snapshot, Hangup, TaskRecv, TaskSend
    <1>0. /\ <<>> \in Seq(Change) /\ <<>> \in Seq(Change \cup {Loss}) /\ <<Loss>> \in Seq(Change \cup {Loss})
          /\ watch.inbox # <<>> => Tail(watch.inbox) \in Seq(Change)
        BY <1>1, SMTT(30) DEF WatchRec
    <1>2. ASSUME watch' \in WatchRec, watch'.pc = watch.pc \/ (watch.pc = "open" /\ watch'.pc = "ended")
          PROVE  WatchType' /\ RowInv'
        BY <1>1, <1>2 DEF WatchType, RowInv, WatchRowIsFindable
    <1>3. CASE Snapshot
        <2>1. /\ watch' \in WatchRec /\ watch'.pc = watch.pc /\ watch'.inbox = watch.inbox /\ watch.pc = "open"
              /\ watch'.view = watch.view \cup lookup_all(watch.tpl) /\ watch'.tpl = watch.tpl
              /\ watch'.task = watch.task /\ watch'.held = watch.held
            BY <1>1, <1>3 DEF WatchRec, Snapshot, lookup_all
        <2>2. ViewInv'
            <3>1. lookup_all(watch.tpl)' = lookup_all(watch.tpl)
                BY <1>1, <2>1 DEF lookup_all
            <3> QED BY <1>1, <2>1, <3>1 DEF ViewInv, IsRegistry
        <2> QED BY <1>1, <1>2, <2>1, <2>2, ChangesStay DEF WatchInv
    <1>4. CASE Hangup
        <2>1. /\ watch' \in WatchRec /\ watch'.pc = "ended" /\ watch.pc = "open"
              /\ watch'.inbox \in {watch.inbox, <<>>} /\ watch'.task = watch.task /\ watch'.held = watch.held
            <3>1. ASSUME NEW c \in {watch.inbox, <<>>}, watch' = [watch EXCEPT !.pc = "ended", !.slot = <<>>, !.inbox = c]
                  PROVE  /\ watch' \in WatchRec /\ watch'.pc = "ended" /\ watch'.inbox = c
                         /\ watch'.task = watch.task /\ watch'.held = watch.held
                <4>1. c \in Seq(Change)
                    BY <1>0, <1>1 DEF WatchRec
                <4> QED BY <1>0, <1>1, <3>1, <4>1 DEF WatchRec
            <3> QED BY <1>4, <3>1 DEF Hangup, EndStream
        <2>2. ViewInv'
            BY <1>1, <2>1 DEF ViewInv, IsRegistry
        <2> QED BY <1>1, <1>2, <2>1, <2>2, InboxDrops DEF WatchInv
    <1>5. CASE TaskRecv \/ TaskSend
        <2>1. ~IsRegistry
            BY <1>1, <1>5 DEF TaskRecv, TaskSend, ViewInv
        <2>2. /\ watch' \in WatchRec /\ watch'.pc = watch.pc
              /\ watch'.inbox \in {watch.inbox, <<>>} \/ (watch.inbox # <<>> /\ watch'.inbox = Tail(watch.inbox))
            <3>1. CASE TaskRecv
                <4>1. CASE watch' = [watch EXCEPT !.lagged = FALSE, !.held = <<Loss>>, !.task = "last"]
                    BY <1>0, <1>1, <4>1 DEF WatchRec
                <4>2. ASSUME NEW b \in Seq(Change \cup {Loss}), watch.inbox # <<>>,
                             watch' = [watch EXCEPT !.inbox = Tail(@), !.held = b]
                      PROVE  watch' \in WatchRec /\ watch'.pc = watch.pc /\ watch'.inbox = Tail(watch.inbox)
                    BY <1>0, <1>1, <4>2 DEF WatchRec
                <4>3. watch.inbox # <<>> => <<Head(watch.inbox)>> \in Seq(Change \cup {Loss})
                    BY <1>1, SMTT(30) DEF WatchRec
                <4> QED BY <1>0, <3>1, <4>1, <4>2, <4>3 DEF TaskRecv
            <3>2. CASE TaskSend
                <4>1. CASE watch' = [watch EXCEPT !.task = "over", !.held = <<>>, !.inbox = <<>>, !.lagged = FALSE]
                    BY <1>0, <1>1, <4>1 DEF WatchRec
                <4>2. CASE watch' = [watch EXCEPT !.slot = @ \o watch.held, !.held = <<>>,
                                        !.task = IF @ = "last" THEN "over" ELSE @]
                    <5>1. watch.slot \o watch.held \in Seq(Change \cup {Loss})
                        BY <1>1, SMTT(30) DEF WatchRec
                    <5> QED BY <1>0, <1>1, <4>2, <5>1 DEF WatchRec
                <4> QED BY <3>2, <4>1, <4>2 DEF TaskSend
            <3> QED BY <1>5, <3>1, <3>2
        <2>3. ViewInv'
            BY <1>1, <2>1 DEF ViewInv, IsRegistry
        <2> QED BY <1>1, <1>2, <2>2, <2>3, InboxDrops DEF WatchInv
    <1> QED BY <1>3, <1>4, <1>5

\* An item changes, and the change is still to be announced.
LEMMA ItemChanges ==
    ASSUME WatchInv, NEW i \in Item, UNCHANGED <<on, memory, watch, watchRow, watchLease>>,
           item' \in [Item -> ItemRec], \A j \in Item \ {i} : item'[j] = item[j],
           Inserted(i) \/ item'[i].at # 0 \/ item'[i].news # {} => Inserted(i)',
           item[i].back => item'[i].back,
           Inserted(i) /\ item[i].at = 0 => item'[i].at = 0 \/ item'[i].back,
           \A e \in item'[i].news : e[2] = i /\ (e \in item[i].news \/ e[1] = "in" \/ item'[i].at = 0),
           item'[i].at # 0 => \/ <<"in", i, item'[i].at>> \in item'[i].news
                              \/ item'[i].at = item[i].at /\ item'[i].news = item[i].news
    PROVE  WatchInv'
    <1>1. WatchType /\ RowInv /\ ViewInv /\ ChangeInv
        BY DEF WatchInv
    <1>2. WatchType' /\ RowInv'
        BY <1>1 DEF WatchType, RowInv, WatchRowIsFindable
    <1>3. \A e \in Change : e[2] # i => (OnItsWay(e)' <=> OnItsWay(e))
        BY DEF OnItsWay, Change
    <1>4. ASSUME NEW e \in Change, e[2] = i, OnItsWay(e)'
          PROVE  Inserted(i)' /\ (e[1] = "out" => item'[i].at = 0 \/ item'[i].back)
        <2>1. CASE OnItsWay(e)
            <3>1. Inserted(i) /\ (e[1] = "out" => item[i].at = 0 \/ item[i].back)
                BY <1>1, <1>4, <2>1 DEF ChangeInv
            <3> QED BY <3>1
        <2>2. CASE ~OnItsWay(e)
            <3>1. e \in item'[i].news /\ e \notin item[i].news
                BY <1>4, <2>2 DEF OnItsWay
            <3>2. e[1] = "in" \/ item'[i].at = 0
                BY <3>1
            <3>3. Inserted(i)'
                BY <3>1
            <3> QED BY <3>2, <3>3
        <2> QED BY <2>1, <2>2
    <1>5. ChangeInv'
        <2>0. \A j \in Item \ {i} : Inserted(j)' <=> Inserted(j)
            BY DEF Inserted
        <2>1. \A j \in Item : item'[j].at # 0 => Inserted(j)'
            BY <1>1, <2>0 DEF ChangeInv
        <2>2. \A j \in Item : \A e \in item'[j].news : e[2] = j
            BY <1>1 DEF ChangeInv
        <2>3. ASSUME NEW e \in Change, OnItsWay(e)'
              PROVE  Inserted(e[2])' /\ (e[1] = "out" => item'[e[2]].at = 0 \/ item'[e[2]].back)
            <3>0. e[2] \in Item
                BY SMTT(30) DEF Change
            <3>1. CASE e[2] = i
                BY <1>4, <2>3, <3>1 DEF Inserted
            <3>2. CASE e[2] # i
                <4>1. OnItsWay(e)
                    BY <1>3, <2>3, <3>2
                <4>2. item'[e[2]] = item[e[2]]
                    BY <3>0, <3>2
                <4> QED BY <1>1, <4>1, <4>2 DEF ChangeInv, Inserted
            <3> QED BY <3>1, <3>2
        <2> QED BY <2>1, <2>2, <2>3 DEF ChangeInv
    <1>6. ViewInv'
        <2> SUFFICES ASSUME IsRegistry, watch.pc = "open", watch.snapped, ~watch.lagged,
                            NEW j \in lookup_all(watch.tpl)'
                     PROVE  j \in watch.view \/ item'[j].back \/ OnItsWay(<<"in", j, item[j].at>>)'
            BY <1>1 DEF ViewInv, IsRegistry
        <2>1. j \in Item /\ item'[j].at # 0 /\ item'[j].at \in {0, 1, 2}
            BY DEF lookup_all, ItemRec
        <2>2. CASE j = i /\ <<"in", i, item'[i].at>> \in item'[i].news
            BY <2>1, <2>2 DEF OnItsWay
        <2>3. ASSUME item'[j].at = item[j].at, item'[j].news = item[j].news, item[j].back => item'[j].back
              PROVE  j \in watch.view \/ item'[j].back \/ OnItsWay(<<"in", j, item[j].at>>)'
            <3>1. j \in lookup_all(watch.tpl)
                BY <2>1, <2>3 DEF lookup_all
            <3>2. j \in watch.view \/ item[j].back \/ OnItsWay(<<"in", j, item[j].at>>)
                BY <1>1, <3>1 DEF ViewInv
            <3>3. OnItsWay(<<"in", j, item[j].at>>) => OnItsWay(<<"in", j, item[j].at>>)'
                BY <2>3 DEF OnItsWay
            <3> QED BY <2>3, <3>2, <3>3
        <2> QED BY <2>1, <2>2, <2>3
    <1> QED BY <1>2, <1>5, <1>6 DEF WatchInv

\* The fields of an item that has changed.
LEMMA ItemPut ==
    ASSUME item \in [Item -> ItemRec], NEW i \in Item, NEW r \in ItemRec, item' = [item EXCEPT ![i] = r]
    PROVE  item' \in [Item -> ItemRec] /\ item'[i] = r /\ \A j \in Item \ {i} : item'[j] = item[j]
    OBVIOUS

\* register or write, modify_attrs, and the end of a lease.
LEMMA ItemSteps ==
    ASSUME WatchInv, NEW i \in Item,
           \/ InsertItem(i) \/ Reclaim(i) \/ register(i) \/ ModifyReads(i) \/ update(i) \/ unregister_by_lease(i)
    PROVE  WatchInv'
    <1>1. /\ item \in [Item -> ItemRec] /\ item[i] \in ItemRec /\ ChangeInv
          /\ UNCHANGED <<on, memory, watch, watchRow, watchLease>>
        BY DEF WatchInv, WatchType, InsertItem, Reclaim, register, ModifyReads, update, unregister_by_lease
    <1>2. /\ \A v \in 1 .. 2, k \in {"in", "out"} : <<k, i, v>> \in Change
          /\ \A v : \A k \in {"in", "out"} : <<k, i, v>>[2] = i /\ <<k, i, v>>[1] = k
          /\ 1 \in 1 .. 2 /\ 2 \in 1 .. 2
        BY SMTT(30) DEF Change
    <1>3. /\ item[i].news \subseteq Change /\ \A e \in item[i].news : e[2] = i
          /\ item[i].news # {} \/ item[i].at # 0 => Inserted(i)
          /\ item[i].found \in Nat /\ item[i].found + 1 \in Nat /\ (item[i].found # 0 => item[i].found - 1 \in Nat)
          /\ item[i].at # 0 => item[i].at \in 1 .. 2
        <2>1. item[i].news \subseteq Change /\ \A e \in item[i].news : e[2] = i
            BY <1>1 DEF ItemRec, ChangeInv
        <2>2. item[i].at # 0 => Inserted(i)
            BY <1>1 DEF ChangeInv
        <2>3. ASSUME NEW e \in item[i].news PROVE Inserted(i)
            <3>1. OnItsWay(e) /\ e \in Change /\ e[2] = i
                BY <2>1 DEF OnItsWay
            <3> QED BY <1>1, <3>1 DEF ChangeInv
        <2>4. /\ item[i].found \in Nat /\ item[i].found + 1 \in Nat /\ (item[i].found # 0 => item[i].found - 1 \in Nat)
              /\ item[i].at # 0 => item[i].at \in 1 .. 2
            BY <1>1, SMTT(30) DEF ItemRec
        <2> QED BY <2>1, <2>2, <2>3, <2>4
    \* A step of the call or of a removal that stores nothing.
    <1>4. ASSUME NEW r \in ItemRec, item' = [item EXCEPT ![i] = r],
                 r.at = item[i].at, r.news = item[i].news, r.back = item[i].back,
                 Inserted(i) => r.pc \notin {"none", "indexed"}
          PROVE  WatchInv'
        <2>1. item' \in [Item -> ItemRec] /\ item'[i] = r /\ \A j \in Item \ {i} : item'[j] = item[j]
            BY <1>1, <1>4, ItemPut
        <2>2. Inserted(i) => Inserted(i)'
            BY <1>4, <2>1 DEF Inserted
        <2> QED BY <1>1, <1>3, <1>4, <2>1, <2>2, ItemChanges
    \* The item is stored, or the change announced though it was found gone.
    <1>5. ASSUME NEW r \in ItemRec, item' = [item EXCEPT ![i] = r], NEW v \in 1 .. 2,
                 r.at \in {0, v}, r.pc \notin {"none", "indexed"}, item[i].back => r.back,
                 r.news \subseteq item[i].news \cup {<<"in", i, v>>}, <<"in", i, v>> \in r.news,
                 Inserted(i) /\ item[i].at = 0 => r.at = 0 \/ r.back
          PROVE  WatchInv'
        <2>1. item' \in [Item -> ItemRec] /\ item'[i] = r /\ \A j \in Item \ {i} : item'[j] = item[j]
            BY <1>1, <1>5, ItemPut
        <2>2. Inserted(i)'
            BY <1>5, <2>1 DEF Inserted
        <2>3. \A e \in item'[i].news : e[2] = i /\ (e \in item[i].news \/ e[1] = "in")
            <3>1. \A e \in item[i].news \cup {<<"in", i, v>>} : e[2] = i /\ (e \in item[i].news \/ e[1] = "in")
                BY <1>3, SMTT(30)
            <3>2. item'[i].news \subseteq item[i].news \cup {<<"in", i, v>>}
                BY <1>5, <2>1
            <3> QED BY <3>1, <3>2
        <2>4. item'[i].at # 0 => <<"in", i, item'[i].at>> \in item'[i].news
            BY <1>5, <2>1
        <2>5. /\ item[i].back => item'[i].back
              /\ Inserted(i) /\ item[i].at = 0 => item'[i].at = 0 \/ item'[i].back
            BY <1>5, <2>1
        <2> QED BY <1>1, <2>1, <2>2, <2>3, <2>4, <2>5, ItemChanges
    \* The item goes.
    <1>6. ASSUME NEW r \in ItemRec, item' = [item EXCEPT ![i] = r],
                 r.at = 0, r.pc = item[i].pc, r.back = item[i].back,
                 r.news \in {item[i].news, item[i].news \cup {<<"out", i, item[i].at>>}},
                 r.news # item[i].news => item[i].at # 0
          PROVE  WatchInv'
        <2>1. item' \in [Item -> ItemRec] /\ item'[i] = r /\ \A j \in Item \ {i} : item'[j] = item[j]
            BY <1>1, <1>6, ItemPut
        <2>2. Inserted(i)' <=> Inserted(i)
            BY <1>6, <2>1 DEF Inserted
        <2>3. \A e \in item'[i].news : e[2] = i
            <3>1. \A e \in item[i].news \cup {<<"out", i, item[i].at>>} : e[2] = i
                BY <1>3, SMTT(30)
            <3>2. item'[i].news \subseteq item[i].news \cup {<<"out", i, item[i].at>>}
                BY <1>6, <2>1
            <3> QED BY <3>1, <3>2
        <2>4. item'[i].news # {} => Inserted(i)
            BY <1>3, <1>6, <2>1
        <2> QED BY <1>1, <1>6, <2>1, <2>2, <2>3, <2>4, ItemChanges
    <1>7. CASE InsertItem(i)
        <2> DEFINE r == [item[i] EXCEPT !.pc = "stored", !.at = 1, !.news = {<<"in", i, 1>>}]
        <2>1. item' = [item EXCEPT ![i] = r] /\ item[i].pc = "none"
            BY <1>7 DEF InsertItem
        <2>2. /\ r \in ItemRec /\ r.at = 1 /\ r.pc = "stored" /\ r.back = item[i].back /\ r.news = {<<"in", i, 1>>}
            BY <1>1, <1>2 DEF ItemRec
        <2> HIDE DEF r
        <2> QED BY <1>2, <1>5, <2>1, <2>2 DEF Inserted
    <1>8. CASE Reclaim(i)
        <2> DEFINE N == item[i].news \cup {<<"out", i, item[i].at>>}
                   r == [item[i] EXCEPT !.at = 0, !.news = N]
        <2>1. item' = [item EXCEPT ![i] = r] /\ item[i].at # 0 /\ N \subseteq Change
            BY <1>2, <1>3, <1>8 DEF Reclaim
        <2>2. r \in ItemRec /\ r.at = 0 /\ r.pc = item[i].pc /\ r.back = item[i].back /\ r.news = N
            BY <1>1, <2>1 DEF ItemRec
        <2> HIDE DEF r
        <2> QED BY <1>6, <2>1, <2>2
    <1>9. CASE register(i)
        <2>1. CASE item[i].pc = "none" /\ item' = [item EXCEPT ![i].pc = "indexed", ![i].indexed = TRUE]
            <3> DEFINE r == [item[i] EXCEPT !.pc = "indexed", !.indexed = TRUE]
            <3>1. item' = [item EXCEPT ![i] = r]
                BY <2>1
            <3>2. r \in ItemRec /\ r.at = item[i].at /\ r.back = item[i].back /\ r.news = item[i].news
                BY <1>1 DEF ItemRec
            <3> HIDE DEF r
            <3> QED BY <1>4, <2>1, <3>1, <3>2 DEF Inserted
        <2>2. CASE /\ item[i].pc = "indexed"
                   /\ item' = [item EXCEPT ![i].pc = "stored", ![i].at = 1, ![i].news = {<<"in", i, 1>>}]
            <3> DEFINE r == [item[i] EXCEPT !.pc = "stored", !.at = 1, !.news = {<<"in", i, 1>>}]
            <3>1. item' = [item EXCEPT ![i] = r]
                BY <2>2
            <3>2. r \in ItemRec /\ r.at = 1 /\ r.pc = "stored" /\ r.back = item[i].back /\ r.news = {<<"in", i, 1>>}
                BY <1>1, <1>2 DEF ItemRec
            <3> HIDE DEF r
            <3> QED BY <1>2, <1>5, <2>2, <3>1, <3>2 DEF Inserted
        <2> QED BY <1>9, <2>1, <2>2 DEF register
    <1>10. CASE ModifyReads(i)
        <2> DEFINE r == [item[i] EXCEPT !.pc = "read"]
        <2>1. item' = [item EXCEPT ![i] = r]
            BY <1>10 DEF ModifyReads
        <2>2. r \in ItemRec /\ r.at = item[i].at /\ r.pc = "read" /\ r.back = item[i].back /\ r.news = item[i].news
            BY <1>1 DEF ItemRec
        <2> HIDE DEF r
        <2> QED BY <1>4, <2>1, <2>2
    <1>11. CASE update(i)
        <2> DEFINE N == item[i].news \cup {<<"in", i, 2>>}
        <2>0. N \subseteq Change /\ <<"in", i, 2>> \in N
            BY <1>2, <1>3
        <2>1. CASE item' = [item EXCEPT ![i].pc = "checked", ![i].indexed = TRUE]
            <3> DEFINE r == [item[i] EXCEPT !.pc = "checked", !.indexed = TRUE]
            <3>1. item' = [item EXCEPT ![i] = r]
                BY <2>1
            <3>2. r \in ItemRec /\ r.at = item[i].at /\ r.pc = "checked" /\ r.back = item[i].back /\ r.news = item[i].news
                BY <1>1 DEF ItemRec
            <3> HIDE DEF r
            <3> QED BY <1>4, <3>1, <3>2
        <2>2. CASE item[i].at = 0 /\ item' = [item EXCEPT ![i].pc = "done", ![i].news = @ \cup {<<"in", i, 2>>}]
            <3> DEFINE r == [item[i] EXCEPT !.pc = "done", !.news = N]
            <3>1. item' = [item EXCEPT ![i] = r]
                BY <2>2
            <3>2. r \in ItemRec /\ r.at = 0 /\ r.pc = "done" /\ r.back = item[i].back /\ r.news = N
                BY <1>1, <2>0, <2>2 DEF ItemRec
            <3> HIDE DEF r
            <3> QED BY <1>2, <1>5, <2>0, <3>1, <3>2
        <2>3. CASE item' = [item EXCEPT ![i].pc = "done", ![i].at = 2, ![i].back = @ \/ item[i].at = 0,
                                        ![i].news = @ \cup {<<"in", i, 2>>}]
            <3> DEFINE b == item[i].back \/ item[i].at = 0
                       r == [item[i] EXCEPT !.pc = "done", !.at = 2, !.back = b, !.news = N]
            <3>1. item' = [item EXCEPT ![i] = r]
                BY <2>3
            <3>2. r \in ItemRec /\ r.at = 2 /\ r.pc = "done" /\ r.back = b /\ r.news = N
                BY <1>1, <2>0 DEF ItemRec
            <3> HIDE DEF r
            <3> QED BY <1>2, <1>5, <2>0, <3>1, <3>2
        <2> QED BY <1>11, <2>1, <2>2, <2>3 DEF update
    <1>12. CASE unregister_by_lease(i)
        <2>1. CASE item' = [item EXCEPT ![i].indexed = FALSE, ![i].found = @ + 1]
            <3> DEFINE r == [item[i] EXCEPT !.indexed = FALSE, !.found = item[i].found + 1]
            <3>1. item' = [item EXCEPT ![i] = r]
                BY <2>1
            <3>2. r \in ItemRec /\ r.at = item[i].at /\ r.pc = item[i].pc /\ r.back = item[i].back /\ r.news = item[i].news
                BY <1>1, <1>3 DEF ItemRec
            <3> HIDE DEF r
            <3> QED BY <1>4, <3>1, <3>2 DEF Inserted
        <2>2. CASE /\ item[i].found # 0
                   /\ item' = [item EXCEPT ![i].found = @ - 1, ![i].at = 0,
                         ![i].news = @ \cup IF item[i].at = 0 THEN {} ELSE {<<"out", i, item[i].at>>}]
            <3> DEFINE N == item[i].news \cup IF item[i].at = 0 THEN {} ELSE {<<"out", i, item[i].at>>}
                       r == [item[i] EXCEPT !.found = item[i].found - 1, !.at = 0, !.news = N]
            <3>1. item' = [item EXCEPT ![i] = r]
                BY <2>2
            <3>2. /\ N \subseteq Change
                  /\ N \in {item[i].news, item[i].news \cup {<<"out", i, item[i].at>>}}
                  /\ N # item[i].news => item[i].at # 0
                BY <1>2, <1>3
            <3>3. r \in ItemRec /\ r.at = 0 /\ r.pc = item[i].pc /\ r.back = item[i].back /\ r.news = N
                BY <1>1, <1>3, <2>2, <3>2 DEF ItemRec
            <3> HIDE DEF r, N
            <3> QED BY <1>6, <3>1, <3>2, <3>3
        <2> QED BY <1>12, <2>1, <2>2 DEF unregister_by_lease
    <1> QED BY <1>7, <1>8, <1>9, <1>10, <1>11, <1>12

\* A send on the broadcast: the change goes from news to the inbox, unless the
\* oldest one is overwritten and the stream has lagged.
LEMMA AnnounceStep ==
    ASSUME WatchInv, NEW i \in Item, Announce(i)
    PROVE  WatchInv'
    <1>1. /\ WatchType /\ RowInv /\ ViewInv /\ ChangeInv /\ watch \in WatchRec
          /\ item \in [Item -> ItemRec] /\ UNCHANGED <<on, memory, watchRow, watchLease>>
        BY DEF WatchInv, WatchType, Announce
    <1>2. PICK e \in item[i].news :
             LET box == IF Subscribed /\ Heard(e) THEN Append(watch.inbox, e) ELSE watch.inbox
                 full == Len(box) > Ring
             IN /\ item' = [item EXCEPT ![i].news = @ \ {e}]
                /\ watch' = [watch EXCEPT
                      !.inbox = IF full THEN Tail(box) ELSE box,
                      !.lagged = @ \/ full,
                      !.due = IF Subscribed /\ Heard(e) /\ Wanted(watch.tpl, e) THEN Append(@, e) ELSE @]
        BY DEF Announce
    <1> DEFINE box == IF Subscribed /\ Heard(e) THEN Append(watch.inbox, e) ELSE watch.inbox
               full == Len(box) > Ring
               inbox2 == IF full THEN Tail(box) ELSE box
    <1>3. /\ e \in Change /\ e[2] = i /\ watch.inbox \in Seq(Change) /\ box \in Seq(Change)
          /\ \A n \in 1 .. Len(box) : box[n] = e \/ (n \in 1 .. Len(watch.inbox) /\ box[n] = watch.inbox[n])
        <2>1. item[i] \in ItemRec /\ e \in Change /\ e[2] = i
            BY <1>1, <1>2 DEF ItemRec, ChangeInv
        <2>2. watch.inbox \in Seq(Change)
            BY <1>1 DEF WatchRec
        <2>3. /\ Append(watch.inbox, e) \in Seq(Change)
              /\ \A n \in 1 .. Len(Append(watch.inbox, e)) :
                    \/ Append(watch.inbox, e)[n] = e
                    \/ n \in 1 .. Len(watch.inbox) /\ Append(watch.inbox, e)[n] = watch.inbox[n]
            BY <2>1, <2>2, SMTT(30)
        <2> QED BY <2>1, <2>2, <2>3
    <1>4. inbox2 \in Seq(Change) /\ (full => box # <<>>)
        <2>1. full => Len(box) > 0
            BY <1>3, WatchAssumption, SMTT(30)
        <2>2. box \in Seq(Change)
            BY <1>3
        <2> HIDE DEF box, full
        <2>3. full => Tail(box) \in Seq(Change) /\ box # <<>>
            BY <2>1, <2>2, SMTT(30)
        <2> QED BY <2>2, <2>3
    <1>5. /\ watch' \in WatchRec /\ watch'.inbox = inbox2 /\ watch'.lagged = (watch.lagged \/ full)
          /\ watch'.pc = watch.pc /\ watch'.task = watch.task /\ watch'.held = watch.held
          /\ watch'.view = watch.view /\ watch'.snapped = watch.snapped /\ watch'.tpl = watch.tpl
        <2>1. ASSUME NEW b \in Seq(Change), NEW g \in BOOLEAN, NEW d \in Seq(Change),
                     watch' = [watch EXCEPT !.inbox = b, !.lagged = g, !.due = d]
              PROVE  /\ watch' \in WatchRec /\ watch'.inbox = b /\ watch'.lagged = g
                     /\ watch'.pc = watch.pc /\ watch'.task = watch.task /\ watch'.held = watch.held
                     /\ watch'.view = watch.view /\ watch'.snapped = watch.snapped /\ watch'.tpl = watch.tpl
            BY <1>1, <2>1 DEF WatchRec
        <2> DEFINE d == IF Subscribed /\ Heard(e) /\ Wanted(watch.tpl, e) THEN Append(watch.due, e) ELSE watch.due
        <2>2. d \in Seq(Change) /\ (watch.lagged \/ full) \in BOOLEAN
            <3>1. watch.due \in Seq(Change) /\ e \in Change
                BY <1>1, <1>3 DEF WatchRec
            <3>2. Append(watch.due, e) \in Seq(Change)
                BY <3>1, SMTT(30)
            <3> QED BY <3>1, <3>2
        <2>3. watch' = [watch EXCEPT !.inbox = inbox2, !.lagged = (watch.lagged \/ full), !.due = d]
            BY <1>2
        <2> HIDE DEF d, inbox2, full
        <2> QED BY <1>4, <2>1, <2>2, <2>3
    <1>6. /\ item' \in [Item -> ItemRec] /\ item'[i].news = item[i].news \ {e}
          /\ item'[i].at = item[i].at /\ item'[i].pc = item[i].pc /\ item'[i].back = item[i].back
          /\ \A j \in Item \ {i} : item'[j] = item[j]
        BY <1>1, <1>2 DEF ItemRec
    <1>7. WatchType' /\ RowInv'
        BY <1>1, <1>5, <1>6 DEF WatchType, RowInv, WatchRowIsFindable
    <1>8. ASSUME NEW f \in Change, OnItsWay(f)' PROVE OnItsWay(f)
        <2>1. OnItsWay(e)
            BY <1>2, <1>3 DEF OnItsWay
        <2>2. CASE f \in item'[f[2]].news
            <3>1. f[2] \in Item
                BY DEF Change
            <3> QED BY <1>6, <2>2, <3>1 DEF OnItsWay
        <2>3. ASSUME NEW n \in 1 .. Len(inbox2), inbox2[n] = f PROVE OnItsWay(f)
            <3>1. \E m \in 1 .. Len(box) : box[m] = f
                <4>1. CASE full
                    <5>1. n + 1 \in 1 .. Len(box) /\ box[n + 1] = Tail(box)[n]
                        BY <1>3, <1>4, <2>3, <4>1, SMTT(30)
                    <5> QED BY <2>3, <4>1, <5>1
                <4>2. CASE ~full
                    BY <2>3, <4>2
                <4> QED BY <4>1, <4>2
            <3> QED BY <1>3, <2>1, <3>1 DEF OnItsWay
        <2> QED BY <1>5, <1>8, <2>2, <2>3 DEF OnItsWay
    <1>9. ChangeInv'
        <2>1. \A j \in Item : item'[j].at = item[j].at /\ item'[j].pc = item[j].pc
                              /\ item'[j].back = item[j].back /\ item'[j].news \subseteq item[j].news
            BY <1>6
        <2>2. \A f \in Change : f[2] \in Item
            BY DEF Change
        <2> HIDE DEF box, full, inbox2
        <2> QED BY <1>1, <1>8, <2>1, <2>2 DEF ChangeInv, Inserted
    <1>10. ViewInv'
        <2>1. IsRegistry /\ watch.pc = "open" => Subscribed /\ Heard(e)
            BY DEF Subscribed, Heard, Direct, IsRegistry
        <2> SUFFICES ASSUME IsRegistry, watch.pc = "open", watch.snapped, ~watch.lagged, ~full,
                            NEW j \in lookup_all(watch.tpl)'
                     PROVE  j \in watch.view \/ item'[j].back \/ OnItsWay(<<"in", j, item[j].at>>)'
            BY <1>1, <1>5 DEF ViewInv, IsRegistry
        <2>2. j \in lookup_all(watch.tpl) /\ j \in Item /\ item'[j].at = item[j].at /\ item'[j].back = item[j].back
            BY <1>5, <1>6 DEF lookup_all
        <2>3. j \in watch.view \/ item'[j].back \/ OnItsWay(<<"in", j, item[j].at>>)
            BY <1>1, <2>2 DEF ViewInv
        <2> DEFINE f == <<"in", j, item[j].at>>
        <2>4. ASSUME OnItsWay(f) PROVE f \in item'[j].news \/ \E n \in 1 .. Len(inbox2) : inbox2[n] = f
            <3>1. inbox2 = Append(watch.inbox, e)
                BY <2>1
            <3>2. CASE f = e
                <4>1. Len(inbox2) \in 1 .. Len(inbox2) /\ inbox2[Len(inbox2)] = e
                    BY <1>3, <3>1, SMTT(30)
                <4> QED BY <3>2, <4>1
            <3>3. CASE f # e /\ f \in item[j].news
                BY <1>6, <2>2, <3>3
            <3>4. ASSUME NEW n \in 1 .. Len(watch.inbox), watch.inbox[n] = f
                  PROVE  n \in 1 .. Len(inbox2) /\ inbox2[n] = f
                BY <1>3, <3>1, <3>4, SMTT(30)
            <3> QED BY <2>4, <3>2, <3>3, <3>4 DEF OnItsWay
        <2>5. OnItsWay(f) => OnItsWay(<<"in", j, item[j].at>>)'
            BY <1>5, <2>2, <2>4 DEF OnItsWay
        <2> QED BY <2>3, <2>5
    <1> QED BY <1>7, <1>9, <1>10 DEF WatchInv

\* The transport polls the stream: what the client is given, and what the filter
\* drops, is no longer on its way.
LEMMA PollStep ==
    ASSUME WatchInv, Poll
    PROVE  WatchInv'
    <1>1. /\ WatchType /\ RowInv /\ ViewInv /\ ChangeInv /\ watch \in WatchRec /\ watch.pc = "open"
          /\ UNCHANGED <<on, memory, watchRow, watchLease, item>>
        BY DEF WatchInv, WatchType, Poll
    <1>2. ASSUME watch' \in WatchRec, watch'.pc \in {"open", "ended"} PROVE WatchType' /\ RowInv'
        BY <1>1, <1>2 DEF WatchType, RowInv, WatchRowIsFindable
    <1>3. CASE EndStream
        <2>1. ASSUME NEW c \in Seq(Change), watch' = [watch EXCEPT !.pc = "ended", !.slot = <<>>, !.inbox = c]
              PROVE  /\ watch' \in WatchRec /\ watch'.pc = "ended" /\ watch'.inbox = c
                     /\ watch'.task = watch.task /\ watch'.held = watch.held
            <3>1. <<>> \in Seq(Change \cup {Loss})
                BY SMTT(30)
            <3> QED BY <1>1, <2>1, <3>1 DEF WatchRec
        <2>2. watch.inbox \in Seq(Change) /\ <<>> \in Seq(Change)
            BY <1>1, SMTT(30) DEF WatchRec
        <2>3. /\ watch' \in WatchRec /\ watch'.pc = "ended" /\ watch'.inbox \in {watch.inbox, <<>>}
              /\ watch'.task = watch.task /\ watch'.held = watch.held
            BY <1>3, <2>1, <2>2 DEF EndStream
        <2>4. ViewInv'
            BY <1>1, <2>3 DEF ViewInv, IsRegistry
        <2> QED BY <1>1, <1>2, <2>3, <2>4, InboxDrops DEF WatchInv
    <1>4. CASE /\ ~Direct /\ watch.slot # <<>> /\ Head(watch.slot) # Loss
               /\ watch' = [watch EXCEPT !.slot = Tail(@), !.got = Append(@, Head(watch.slot))]
        <2>1. Tail(watch.slot) \in Seq(Change \cup {Loss}) /\ Append(watch.got, Head(watch.slot)) \in Seq(Change)
            BY <1>1, <1>4, SMTT(30) DEF WatchRec
        <2>2. watch' \in WatchRec /\ watch'.pc = "open" /\ watch'.inbox = watch.inbox
            BY <1>1, <1>4, <2>1 DEF WatchRec
        <2>3. ViewInv'
            BY <1>1, <1>4 DEF ViewInv, IsRegistry, Direct
        <2> QED BY <1>1, <1>2, <2>2, <2>3, InboxDrops DEF WatchInv
    <1>5. ASSUME Direct, ~watch.lagged, watch.inbox # <<>>,
                 LET e == Head(watch.inbox) IN
                 watch' = IF ~Passes(watch.tpl, e) THEN [watch EXCEPT !.inbox = Tail(@)]
                          ELSE [watch EXCEPT !.inbox = Tail(@), !.got = Append(@, e),
                                  !.view = IF e[1] = "in" THEN @ \cup {e[2]} ELSE @ \ {e[2]}]
          PROVE  WatchInv'
        <2>1. PICK e \in Change : e = Head(watch.inbox)
            BY <1>1, <1>5, SMTT(30) DEF WatchRec
        <2> DEFINE V == IF ~Passes(watch.tpl, e) THEN watch.view
                        ELSE IF e[1] = "in" THEN watch.view \cup {e[2]} ELSE watch.view \ {e[2]}
        <2>2. /\ watch.inbox \in Seq(Change) /\ Tail(watch.inbox) \in Seq(Change)
              /\ Append(watch.got, e) \in Seq(Change) /\ V \in SUBSET Item
            BY <1>1, <1>5, SMTT(30) DEF WatchRec, Change
        <2>3. /\ watch' \in WatchRec /\ watch'.inbox = Tail(watch.inbox) /\ watch'.view = V
              /\ watch'.pc = "open" /\ watch'.task = watch.task /\ watch'.held = watch.held
              /\ watch'.tpl = watch.tpl /\ watch'.snapped = watch.snapped /\ watch'.lagged = watch.lagged
            <3>1. CASE ~Passes(watch.tpl, e)
                <4>1. watch' = [watch EXCEPT !.inbox = Tail(watch.inbox)]
                    BY <1>5, <2>1, <3>1
                <4> QED BY <1>1, <2>2, <3>1, <4>1 DEF WatchRec
            <3>2. CASE Passes(watch.tpl, e)
                <4>1. watch' = [watch EXCEPT !.inbox = Tail(watch.inbox), !.got = Append(watch.got, e), !.view = V]
                    BY <1>5, <2>1, <3>2
                <4> HIDE DEF V
                <4> QED BY <1>1, <2>2, <4>1 DEF WatchRec
            <3> QED BY <3>1, <3>2
        <2>4. ViewInv'
            <3> SUFFICES ASSUME IsRegistry, watch.snapped, NEW j \in lookup_all(watch.tpl)
                         PROVE  j \in V \/ item[j].back \/ OnItsWay(<<"in", j, item[j].at>>)'
                <4>1. lookup_all(watch.tpl)' = lookup_all(watch.tpl)
                    BY <1>1, <2>3 DEF lookup_all
                <4> QED BY <1>1, <2>3, <4>1 DEF ViewInv, IsRegistry
            <3> DEFINE f == <<"in", j, item[j].at>>
            <3>1. j \in Item /\ item[j].at # 0 /\ (j \in watch.view \/ item[j].back \/ OnItsWay(f))
                  /\ matches(parse_template(watch.tpl), Combined(j, item[j].at))
                BY <1>1, <1>5 DEF ViewInv, lookup_all
            <3>2. CASE j \in watch.view
                <4>1. CASE j \in V
                    BY <4>1
                <4>2. CASE j \notin V
                    <5>1. e[1] # "in" /\ e[2] = j
                        BY <3>2, <4>2
                    <5>2. e[1] = "out"
                        BY <5>1 DEF Change
                    <5>3. OnItsWay(e)
                        <6>1. 1 \in 1 .. Len(watch.inbox) /\ watch.inbox[1] = e
                            BY <1>5, <2>1, <2>2, SMTT(30)
                        <6> QED BY <6>1 DEF OnItsWay
                    <5> QED BY <1>1, <3>1, <5>1, <5>2, <5>3 DEF ChangeInv
                <4> QED BY <4>1, <4>2
            <3>3. CASE f = e
                <4>1. f[2] = j /\ f[3] = item[j].at /\ f[1] = "in"
                    OBVIOUS
                <4>2. Passes(watch.tpl, e)
                    BY <3>1, <3>3, <4>1 DEF Passes, Fields, IsRegistry
                <4> QED BY <3>3, <4>1, <4>2
            <3>4. CASE f # e /\ OnItsWay(f)
                <4>1. ASSUME NEW n \in 1 .. Len(watch.inbox), watch.inbox[n] = f
                      PROVE  n - 1 \in 1 .. Len(Tail(watch.inbox)) /\ Tail(watch.inbox)[n - 1] = f
                    BY <1>5, <2>1, <2>2, <3>4, <4>1, SMTT(30)
                <4>2. f \in item[j].news \/ \E m \in 1 .. Len(Tail(watch.inbox)) : Tail(watch.inbox)[m] = f
                    BY <3>4, <4>1 DEF OnItsWay
                <4> QED BY <1>1, <2>3, <4>2 DEF OnItsWay
            <3> QED BY <3>1, <3>2, <3>3, <3>4
        <2> QED BY <1>1, <1>2, <1>5, <2>3, <2>4, InboxDrops DEF WatchInv
    <1> QED BY <1>3, <1>4, <1>5 DEF Poll

\* Every step of a stream or of its row keeps the invariant.
LEMMA WatchStep ==
    ASSUME WatchInv, StreamNext \/ RowNext
    PROVE  WatchInv'
    BY OpenSteps, RowSteps, ClientSteps, ItemSteps, AnnounceStep, PollStep DEF StreamNext, RowNext

\* It holds before any stream is opened.
LEMMA WatchBoot == WatchInit => WatchInv
    <1> SUFFICES ASSUME WatchInit PROVE WatchInv
        OBVIOUS
    <1>1. <<>> \in Seq(Change) /\ <<>> \in Seq(Change \cup {Loss})
        BY SMTT(30)
    <1>2. watch \in WatchRec /\ watch.pc = "idle" /\ watch.task = "none" /\ watch.held = <<>>
          /\ watch.snapped = FALSE /\ watch.inbox = <<>>
        BY <1>1 DEF WatchInit, WatchRec, Templates
    <1>3. item \in [Item -> ItemRec] /\ \A i \in Item : item[i].at = 0 /\ item[i].news = {}
        <2>1. [at |-> 0, pc |-> "none", indexed |-> FALSE, found |-> 0, back |-> FALSE, news |-> {}] \in ItemRec
            BY SMTT(30) DEF ItemRec
        <2> QED BY <2>1 DEF WatchInit
    <1>6. watchRow \in RowRec /\ ~watchRow.there
        <2>1. 0 \in Nat
            BY SMTT(30)
        <2> QED BY <2>1 DEF WatchInit, RowRec
    <1>4. WatchType /\ RowInv
        BY <1>2, <1>3, <1>6 DEF WatchInit, WatchType, RowInv, WatchRowIsFindable
    <1>5. ChangeInv /\ ViewInv
        BY <1>2, <1>3, SMTT(30) DEF ChangeInv, ViewInv, OnItsWay, Change
    <1> QED BY <1>4, <1>5 DEF WatchInv

\* The invariant of the streams holds in every behaviour.
THEOREM WatchSafety == WatchSpec => []WatchInv
    <1>1. WatchInv /\ [StreamNext \/ RowNext]_watchVars => WatchInv'
        <2> SUFFICES ASSUME WatchInv, [StreamNext \/ RowNext]_watchVars PROVE WatchInv'
            OBVIOUS
        <2>1. CASE UNCHANGED watchVars
            <3>1. UNCHANGED <<on, memory, watch, watchRow, watchLease, item, stopping>>
                BY <2>1 DEF watchVars
            <3>2. \A e : OnItsWay(e)' <=> OnItsWay(e)
                BY <3>1 DEF OnItsWay
            <3>3. lookup_all(watch.tpl)' = lookup_all(watch.tpl)
                BY <3>1 DEF lookup_all
            <3>4. WatchType' /\ RowInv'
                BY <3>1 DEF WatchInv, WatchType, RowInv, WatchRowIsFindable
            <3>5. ChangeInv'
                BY <3>1, <3>2 DEF WatchInv, ChangeInv, Inserted
            <3>6. ViewInv'
                BY <3>1, <3>2, <3>3 DEF WatchInv, ViewInv, IsRegistry
            <3> QED BY <3>4, <3>5, <3>6 DEF WatchInv
        <2> QED BY <2>1, WatchStep
    <1> QED BY <1>1, WatchBoot, PTL DEF WatchSpec

\* A client that opened a Registry Watch and then took its snapshot has every
\* entry that matches once the announcements have reached it, unless an update
\* brought the entry back after its removal, for any number of entries, any
\* templates and any capacity of the broadcast.
THEOREM ViewIsCompleteHolds == WatchSpec => []ViewIsComplete
    <1>1. WatchInv => ViewIsComplete
        <2> SUFFICES ASSUME WatchInv, IsRegistry, watch.pc = "open", watch.snapped, ~watch.lagged,
                            watch.inbox = <<>>, \A i \in Item : item[i].news = {},
                            NEW i \in lookup_all(watch.tpl)
                     PROVE  i \in watch.view \/ item[i].back
            BY DEF ViewIsComplete
        <2>1. ~OnItsWay(<<"in", i, item[i].at>>)
            <3>1. i \in Item /\ <<"in", i, item[i].at>>[2] = i
                BY DEF lookup_all
            <3>2. item[i].news = {} /\ 1 .. Len(watch.inbox) = {}
                <4>1. Len(watch.inbox) = 0
                    BY SMTT(30)
                <4>2. 1 .. Len(watch.inbox) = {}
                    BY <4>1, SMTT(30)
                <4> QED BY <3>1, <4>2
            <3> QED BY <3>1, <3>2 DEF OnItsWay
        <2> QED BY <2>1 DEF WatchInv, ViewInv
    <1> QED BY <1>1, WatchSafety, PTL

\* In memory a stored row of Notify can be reached from its lease until a removal
\* has found it, whatever the creation, the cascade and the sweep do meanwhile.
THEOREM WatchRowIsFindableHolds == WatchSpec => []WatchRowIsFindable
    <1>1. WatchInv => WatchRowIsFindable
        BY DEF WatchInv, RowInv
    <1> QED BY <1>1, WatchSafety, PTL

-----------------------------------------------------------------------------
(***************************************************************************)
(* What a stream still has to read, and the matcher it reads with.         *)
(***************************************************************************)

\* An empty inbox has nothing to come.
LEMMA ComesNothing ==
    ASSUME NEW S, NEW due \in Seq(S), NEW inbox
    PROVE  StillToCome(due, Len(due), inbox, {})
    <1>1. (Len(due) + 1)..Len(due) = {} /\ Len(due) <= Len(due)
        BY SMTT(30)
    <1>2. [x \in {} |-> 0] \in [{} -> {}]
        OBVIOUS
    <1> QED BY <1>1, <1>2 DEF StillToCome

\* A change arrives: it is asked for, and due, or neither.
LEMMA ComesAppend ==
    ASSUME NEW S, NEW due \in Seq(S), NEW inbox \in Seq(S), NEW n \in Nat, NEW e \in S,
           NEW P \in SUBSET (1..Len(inbox)), StillToCome(due, n, inbox, P)
    PROVE  /\ StillToCome(due, n, Append(inbox, e), P)
           /\ StillToCome(Append(due, e), n, Append(inbox, e), P \cup {Len(inbox) + 1})
    <1> DEFINE D == (n + 1)..Len(due)
    <1>1. PICK at \in [D -> P] :
             /\ \A k \in D : due[k] = inbox[at[k]]
             /\ \A j, k \in D : j < k => at[j] < at[k]
             /\ \A p \in P : \E k \in D : at[k] = p
        BY DEF StillToCome
    <1>2. n <= Len(due) /\ Len(due) \in Nat /\ Len(inbox) \in Nat
        BY SMTT(30) DEF StillToCome
    <1>3. \A k \in D : at[k] \in 1..Len(inbox) /\ at[k] \in P
        OBVIOUS
    <1>4. \A p \in 1..Len(inbox) : Append(inbox, e)[p] = inbox[p]
        BY SMTT(30)
    <1>5. StillToCome(due, n, Append(inbox, e), P)
        <2>1. \A k \in D : due[k] = Append(inbox, e)[at[k]]
            BY <1>1, <1>3, <1>4
        <2> QED BY <1>1, <1>2, <2>1 DEF StillToCome
    <1>6. StillToCome(Append(due, e), n, Append(inbox, e), P \cup {Len(inbox) + 1})
        <2> DEFINE l == Len(due) + 1
                   m == Len(inbox) + 1
                   E == (n + 1)..Len(Append(due, e))
                   new == [k \in E |-> IF k = l THEN m ELSE at[k]]
        <2>1. Len(Append(due, e)) = l /\ n <= l /\ l \in E /\ l \notin D /\ \A k \in E : k = l \/ k \in D
            BY <1>2, SMTT(30)
        <2>2. D \subseteq E
            BY <1>2, SMTT(30)
        <2>3. new[l] = m /\ \A k \in D : new[k] = at[k]
            BY <2>1, <2>2
        <2>4. new \in [E -> P \cup {m}]
            BY <1>3, <2>1
        <2> HIDE DEF new
        <2>5. \A k \in D : Append(due, e)[k] = due[k]
            BY <1>2, SMTT(30)
        <2>6. Append(due, e)[l] = e /\ Append(inbox, e)[m] = e
            BY <1>2, SMTT(30)
        <2>7. \A k \in E : Append(due, e)[k] = Append(inbox, e)[new[k]]
            <3>1. \A k \in D : Append(due, e)[k] = Append(inbox, e)[new[k]]
                <4> SUFFICES ASSUME NEW k \in D PROVE Append(due, e)[k] = Append(inbox, e)[new[k]]
                    OBVIOUS
                <4>1. new[k] = at[k] /\ at[k] \in 1..Len(inbox) /\ Append(due, e)[k] = due[k] /\ due[k] = inbox[at[k]]
                    BY <1>1, <1>3, <2>3, <2>5, ZenonT(30)
                <4>2. Append(inbox, e)[at[k]] = inbox[at[k]]
                    BY <1>4, <4>1, ZenonT(30)
                <4> QED BY <4>1, <4>2, ZenonT(30)
            <3> QED BY <2>1, <2>3, <2>6, <3>1, ZenonT(30)
        <2>8. \A j, k \in E : j < k => new[j] < new[k]
            <3> SUFFICES ASSUME NEW j \in E, NEW k \in E, j < k PROVE new[j] < new[k]
                OBVIOUS
            <3>1. j \in D
                BY <1>2, SMTT(30)
            <3>2. CASE k = l
                <4>1. new[j] \in 1..Len(inbox) /\ new[k] = m
                    BY <1>3, <2>3, <3>1, <3>2
                <4> QED BY <1>2, <4>1, SMTT(30)
            <3>3. CASE k \in D
                BY <1>1, <2>3, <3>1, <3>3, ZenonT(30)
            <3> QED BY <2>1, <3>2, <3>3, ZenonT(30)
        <2>9. \A p \in P \cup {m} : \E k \in E : new[k] = p
            BY <1>1, <2>1, <2>2, <2>3, ZenonT(30)
        <2>10. n <= Len(Append(due, e))
            BY <2>1
        <2> QED BY <2>4, <2>7, <2>8, <2>9, <2>10 DEF StillToCome
    <1> QED BY <1>5, <1>6

\* The positions P, once the first member is gone.
Behind(P) == {q \in Nat \ {0} : q + 1 \in P}

\* The first change is read: it is the next one due when its position is among P.
LEMMA ComesTail ==
    ASSUME NEW S, NEW due \in Seq(S), NEW inbox \in Seq(S), inbox # <<>>, NEW n \in Nat,
           NEW P \in SUBSET (1..Len(inbox)), StillToCome(due, n, inbox, P)
    PROVE  /\ 1 \in P => /\ n < Len(due) /\ due[n + 1] = Head(inbox)
                         /\ StillToCome(due, n + 1, Tail(inbox), Behind(P))
           /\ 1 \notin P => StillToCome(due, n, Tail(inbox), Behind(P))
    <1> DEFINE D == (n + 1)..Len(due)
               L == Len(inbox)
               Q == {q \in 1..(L - 1) : q + 1 \in P}
    <1>1. PICK at \in [D -> P] :
             /\ \A k \in D : due[k] = inbox[at[k]]
             /\ \A j, k \in D : j < k => at[j] < at[k]
             /\ \A p \in P : \E k \in D : at[k] = p
        BY DEF StillToCome
    <1>2. /\ n <= Len(due) /\ Len(due) \in Nat /\ L \in Nat /\ L > 0 /\ Len(Tail(inbox)) = L - 1
          /\ inbox[1] = Head(inbox) /\ \A q \in 1..(L - 1) : Tail(inbox)[q] = inbox[q + 1]
        BY SMTT(30) DEF StillToCome
    <1>3. \A k \in D : at[k] \in 1..L /\ at[k] \in P /\ at[k] \in Nat
        <2>1. \A p \in 1..L : p \in Nat
            BY <1>2, SMTT(30)
        <2> QED BY <1>1, <2>1, ZenonT(30)
    <1>0. Behind(P) = Q
        BY <1>2, SMTT(30) DEF Behind
    <1>4. ASSUME NEW m \in Nat, n <= m, m <= Len(due), \A k \in (m + 1)..Len(due) : at[k] # 1,
                 \A k \in D : at[k] # 1 => k \in (m + 1)..Len(due)
          PROVE  StillToCome(due, m, Tail(inbox), Q)
        <2> DEFINE E == (m + 1)..Len(due)
                   new == [k \in E |-> at[k] - 1]
        <2>1. E \subseteq D
            BY <1>2, <1>4, SMTT(30)
        <2>2. \A k \in E : at[k] - 1 \in 1..(L - 1) /\ (at[k] - 1) + 1 = at[k]
            BY <1>2, <1>3, <1>4, <2>1, SMTT(30)
        <2>3. new \in [E -> Q] /\ \A k \in E : new[k] = at[k] - 1
            BY <1>3, <2>1, <2>2
        <2> HIDE DEF new
        <2>4. \A k \in E : due[k] = Tail(inbox)[new[k]]
            <3> SUFFICES ASSUME NEW k \in E PROVE due[k] = Tail(inbox)[new[k]]
                OBVIOUS
            <3>1. due[k] = inbox[at[k]] /\ new[k] \in 1..(L - 1) /\ new[k] + 1 = at[k]
                BY <1>1, <2>1, <2>2, <2>3, ZenonT(30)
            <3>2. Tail(inbox)[new[k]] = inbox[new[k] + 1]
                BY <1>2, <3>1, ZenonT(30)
            <3> QED BY <3>1, <3>2, ZenonT(30)
        <2>5. \A j, k \in E : j < k => new[j] < new[k]
            <3> SUFFICES ASSUME NEW j \in E, NEW k \in E, j < k PROVE new[j] < new[k]
                OBVIOUS
            <3>1. at[j] < at[k] /\ at[j] \in Nat /\ at[k] \in Nat
                BY <1>1, <1>3, <2>1
            <3>2. new[j] = at[j] - 1 /\ new[k] = at[k] - 1
                BY <2>3
            <3> QED BY <3>1, <3>2, SMTT(30)
        <2>6. \A q \in Q : \E k \in E : new[k] = q
            <3> SUFFICES ASSUME NEW q \in Q PROVE \E k \in E : new[k] = q
                OBVIOUS
            <3>1. q + 1 \in P /\ q \in Nat /\ q > 0
                BY SMTT(30)
            <3>2. PICK k \in D : at[k] = q + 1
                BY <1>1, <3>1
            <3>3. at[k] # 1 /\ at[k] - 1 = q
                BY <3>1, <3>2, SMTT(30)
            <3> QED BY <1>4, <2>3, <3>3
        <2> QED BY <1>4, <2>3, <2>4, <2>5, <2>6 DEF StillToCome
    <1>5. CASE 1 \in P
        <2>1. PICK k \in D : at[k] = 1
            BY <1>1, <1>5
        <2>2. k = n + 1
            <3> SUFFICES ASSUME k # n + 1 PROVE FALSE
                OBVIOUS
            <3>1. n + 1 \in D /\ n + 1 < k
                BY SMTT(30)
            <3>2. at[n + 1] < 1 /\ at[n + 1] \in 1..L
                BY <1>1, <1>3, <2>1, <3>1
            <3> QED BY <1>2, <3>2, SMTT(30)
        <2>3. n + 1 \in Nat /\ n <= n + 1 /\ n + 1 <= Len(due) /\ n < Len(due)
            BY <1>2, <2>2, SMTT(30)
        <2>4. due[n + 1] = Head(inbox)
            BY <1>1, <1>2, <2>1, <2>2
        <2>5. \A j \in ((n + 1) + 1)..Len(due) : at[j] # 1
            <3> SUFFICES ASSUME NEW j \in ((n + 1) + 1)..Len(due), at[j] = 1 PROVE FALSE
                OBVIOUS
            <3>1. j \in D /\ n + 1 < j
                BY SMTT(30)
            <3>2. 1 < 1
                BY <1>1, <2>1, <2>2, <3>1
            <3> QED BY <3>2, SMTT(30)
        <2>6. \A j \in D : at[j] # 1 => j \in ((n + 1) + 1)..Len(due)
            <3> SUFFICES ASSUME NEW j \in D, at[j] # 1 PROVE j \in ((n + 1) + 1)..Len(due)
                OBVIOUS
            <3>1. j # n + 1
                BY <2>1, <2>2
            <3> QED BY <1>2, <3>1, SMTT(30)
        <2>7. StillToCome(due, n + 1, Tail(inbox), Q)
            BY <1>4, <2>3, <2>5, <2>6
        <2> QED BY <1>0, <1>5, <2>3, <2>4, <2>7
    <1>6. CASE 1 \notin P
        <2>1. \A k \in D : at[k] # 1
            BY <1>3, <1>6
        <2>2. n \in Nat /\ n <= n
            BY SMTT(30)
        <2>3. StillToCome(due, n, Tail(inbox), Q)
            BY <1>2, <1>4, <2>1, <2>2
        <2> QED BY <1>0, <1>6, <2>3
    <1> QED BY <1>5, <1>6

\* starts_with: a prefix is what some text follows.
LEMMA PrefixSplits ==
    ASSUME NEW value \in Text, NEW arg \in Seq(STRING)
    PROVE  starts_with(value, arg) <=> \E q \in Text : value = arg \o q
    <1>1. value \in Seq(STRING) /\ Len(value) \in Nat /\ Len(arg) \in Nat
        BY TextAssumption, SMTT(30)
    <1>2. ASSUME NEW q \in Text, value = arg \o q PROVE starts_with(value, arg)
        <2>1. q \in Seq(STRING)
            BY TextAssumption
        <2>2. Len(arg) <= Len(value)
            BY <1>1, <1>2, <2>1, SMTT(30)
        <2>3. SubSeq(value, 1, Len(arg)) = arg
            BY <1>1, <1>2, <2>1, <2>2, SMTT(30)
        <2> QED BY <2>2, <2>3 DEF starts_with
    <1>3. ASSUME starts_with(value, arg) PROVE \E q \in Text : value = arg \o q
        <2> DEFINE q == SubSeq(value, Len(arg) + 1, Len(value))
        <2>1. Len(arg) <= Len(value) /\ SubSeq(value, 1, Len(arg)) = arg
            BY <1>3 DEF starts_with
        <2>2. Len(arg) \in 0..Len(value) /\ Len(value) \in 0..Len(value)
            BY <1>1, <2>1, SMTT(30)
        <2>3. q \in Text
            BY <2>2, TextAssumption
        <2>4. value = arg \o q
            BY <1>1, <2>1, SMTT(30)
        <2> QED BY <2>3, <2>4
    <1> QED BY <1>2, <1>3

\* Two sequences with the same members are the same.
LEMMA SameSeq ==
    ASSUME NEW S, NEW s \in Seq(S), NEW t \in Seq(S), Len(s) = Len(t), \A n \in 1..Len(s) : s[n] = t[n]
    PROVE  s = t
    BY SMTT(30)

\* A sequence is its two parts.
LEMMA SplitAt ==
    ASSUME NEW S, NEW s \in Seq(S), NEW i \in 1..(Len(s) + 1)
    PROVE  s = SubSeq(s, 1, i - 1) \o SubSeq(s, i, Len(s))
    <1> DEFINE a == SubSeq(s, 1, i - 1)
               b == SubSeq(s, i, Len(s))
    <1>1. a \in Seq(S) /\ Len(a) = i - 1 /\ \A n \in 1..(i - 1) : a[n] = s[n]
        BY SMTT(30)
    <1>2. b \in Seq(S) /\ Len(b) = Len(s) + 1 - i /\ \A n \in 1..(Len(s) + 1 - i) : b[n] = s[n + i - 1]
        BY SMTT(30)
    <1>3. i \in Nat /\ Len(s) \in Nat /\ 1 <= i /\ i <= Len(s) + 1
        BY SMTT(30)
    <1> HIDE DEF a, b
    <1>4. a \o b \in Seq(S) /\ Len(a \o b) = Len(s)
        BY <1>1, <1>2, <1>3, SMTT(30)
    <1>5. ASSUME NEW n \in 1..Len(s) PROVE (a \o b)[n] = s[n]
        <2>1. CASE n <= i - 1
            BY <1>1, <1>2, <1>3, <2>1, SMTT(30)
        <2>2. CASE n > i - 1
            <3>1. (a \o b)[n] = b[n - (i - 1)]
                BY <1>1, <1>2, <1>3, <2>2, SMTT(30)
            <3>2. n - (i - 1) \in 1..(Len(s) + 1 - i) /\ (n - (i - 1)) + i - 1 = n
                BY <1>3, <2>2, SMTT(30)
            <3>3. b[n - (i - 1)] = s[(n - (i - 1)) + i - 1]
                BY <1>2, <3>2, ZenonT(30)
            <3> QED BY <3>1, <3>2, <3>3, ZenonT(30)
        <2>3. n <= i - 1 \/ n > i - 1
            BY <1>3, SMTT(30)
        <2> QED BY <2>1, <2>2, <2>3
    <1>6. s = a \o b
        BY <1>4, <1>5, SameSeq, ZenonT(30)
    <1> QED BY <1>6 DEF a, b

\* contains: a part is what some text precedes and some text follows.
LEMMA PartSplits ==
    ASSUME NEW value \in Text, NEW arg \in Seq(STRING)
    PROVE  (\E i \in 1..(Len(value) + 1) : starts_with(SubSeq(value, i, Len(value)), arg))
             <=> \E p, q \in Text : value = p \o arg \o q
    <1>1. value \in Seq(STRING) /\ Len(value) \in Nat /\ Len(arg) \in Nat
        BY TextAssumption, SMTT(30)
    <1>2. ASSUME NEW p \in Text, NEW q \in Text, value = p \o arg \o q
          PROVE  \E i \in 1..(Len(value) + 1) : starts_with(SubSeq(value, i, Len(value)), arg)
        <2>1. p \in Seq(STRING) /\ q \in Seq(STRING)
            BY TextAssumption
        <2>2. Len(p) + 1 \in 1..(Len(value) + 1)
            BY <1>1, <1>2, <2>1, SMTT(30)
        <2>3. SubSeq(value, Len(p) + 1, Len(value)) = arg \o q
            BY <1>1, <1>2, <2>1, SMTT(30)
        <2>4. SubSeq(value, Len(p) + 1, Len(value)) \in Text
            BY <1>1, <2>1, <2>2, TextAssumption, SMTT(30)
        <2> QED BY <2>2, <2>3, <2>4, PrefixSplits
    <1>3. ASSUME NEW i \in 1..(Len(value) + 1), starts_with(SubSeq(value, i, Len(value)), arg)
          PROVE  \E p, q \in Text : value = p \o arg \o q
        <2>1. i - 1 \in 0..Len(value) /\ 0 \in 0..Len(value) /\ Len(value) \in 0..Len(value) /\ (i - 1) + 1 = i /\ 0 + 1 = 1
            BY <1>1, SMTT(30)
        <2>2. SubSeq(value, 1, i - 1) \in Text /\ SubSeq(value, i, Len(value)) \in Text
            BY <2>1, TextAssumption, ZenonT(30)
        <2>3. PICK q \in Text : SubSeq(value, i, Len(value)) = arg \o q
            BY <1>3, <2>2, PrefixSplits
        <2>4. q \in Seq(STRING)
            BY TextAssumption
        <2>5. value = SubSeq(value, 1, i - 1) \o arg \o q
            <3>1. value = SubSeq(value, 1, i - 1) \o SubSeq(value, i, Len(value))
                BY <1>1, SplitAt, ZenonT(30)
            <3>2. \A a, b, c \in Seq(STRING) : a \o (b \o c) = (a \o b) \o c
                BY SMTT(30)
            <3>3. SubSeq(value, 1, i - 1) \in Seq(STRING)
                BY <2>2, TextAssumption
            <3>4. value = SubSeq(value, 1, i - 1) \o (arg \o q)
                BY <2>3, <3>1, ZenonT(30)
            <3>5. PICK a \in Seq(STRING) : a = SubSeq(value, 1, i - 1)
                BY <3>3, ZenonT(30)
            <3>6. a \o (arg \o q) = (a \o arg) \o q
                BY <2>4, <3>2, ZenonT(30)
            <3>7. value = (a \o arg) \o q
                BY <3>4, <3>5, <3>6, ZenonT(30)
            <3> QED BY <3>5, <3>7, ZenonT(30)
        <2> QED BY <2>2, <2>5
    <1> QED BY <1>2, <1>3

\* One field: the operation parse_template makes of it, and what it admits.
LEMMA AdmitsIsMatch ==
    ASSUME NEW tpl, NEW k \in DOMAIN tpl, tpl[k] \in Asked, NEW value \in Text
    PROVE  OpMatches(parse_template(tpl)[k], value) <=> Admits(tpl[k], value)
    <1> DEFINE v == tpl[k]
               o == parse_template(tpl)[k]
    <1>0. v \in Asked /\ v.rest \in Seq(STRING)
        BY DEF Asked
    <1>1. CASE v.op = "" /\ v.rest \in {<<>>, <<Star>>}
        <2>1. o.op = "any"
            BY <1>1 DEF parse_template, AnyOp
        <2> QED BY <1>1, <2>1 DEF OpMatches, Admits
    <1>2. CASE v.op = "contains:"
        <2>1. o.op = "contains" /\ o.arg = v.rest
            BY <1>2 DEF parse_template
        <2>2. OpMatches(o, value) <=> \E i \in 1..(Len(value) + 1) : starts_with(SubSeq(value, i, Len(value)), v.rest)
            BY <2>1 DEF OpMatches
        <2>3. Admits(v, value) <=> \E p, q \in Text : value = p \o v.rest \o q
            BY <1>2 DEF Admits
        <2> QED BY <1>0, <2>2, <2>3, PartSplits
    <1>3. CASE v.op = "starts_with:"
        <2>1. o.op = "startswith" /\ o.arg = v.rest
            BY <1>3 DEF parse_template
        <2>2. OpMatches(o, value) <=> starts_with(value, v.rest)
            BY <2>1 DEF OpMatches
        <2>3. Admits(v, value) <=> \E q \in Text : value = v.rest \o q
            BY <1>3 DEF Admits
        <2> QED BY <1>0, <2>2, <2>3, PrefixSplits
    <1>4. CASE v.op = "" /\ v.rest \notin {<<>>, <<Star>>}
        <2>1. o.op = "eq" /\ o.arg = v.rest
            BY <1>4 DEF parse_template
        <2> QED BY <1>4, <2>1 DEF OpMatches, Admits
    <1> QED BY <1>0, <1>1, <1>2, <1>3, <1>4 DEF Asked

\* Any: what a field the attributes lack can match.
LEMMA AnyIsAny ==
    ASSUME NEW tpl, NEW k \in DOMAIN tpl, tpl[k] \in Asked
    PROVE  parse_template(tpl)[k].op = "any" <=> tpl[k].op = "" /\ tpl[k].rest \in {<<>>, <<Star>>}
    BY DEF parse_template, AnyOp

\* What the Registry matches against: the attributes, and the interface before an
\* attribute of that name.
LEMMA CombinedFields ==
    ASSUME NEW i \in Item, NEW v \in 1..2
    PROVE  /\ DOMAIN Combined(i, v) = {"interface"} \cup DOMAIN Attrs[i][v]
           /\ Combined(i, v)["interface"] = Interface[i]
           /\ \A k \in DOMAIN Attrs[i][v] : k # "interface" => Combined(i, v)[k] = Attrs[i][v][k]
    BY DEF Combined

\* The matcher (parse_template, matches) is right, for any fields and any template:
\* a change passes exactly when every field of the template admits its text, by the
\* definition of equality, prefix and part.
THEOREM PassesIsWanted ==
    ASSUME NEW e \in Change, NEW tpl, on # "lease" => tpl \in Template
    PROVE  Passes(tpl, e) <=> Wanted(tpl, e)
    <1>1. CASE on = "lease"
        BY <1>1 DEF Passes, Wanted
    <1>2. CASE on # "lease"
        <2>0. PICK i \in Item, v \in 1..2 : i = e[2] /\ v = e[3]
            BY DEF Change
        <2> DEFINE
                   ops == parse_template(tpl)
                   attrs == Attrs[i][v]
                   fields == Fields(i, v)
                   Field(k) == IF k \in DOMAIN fields THEN OpMatches(ops[k], fields[k]) ELSE ops[k].op = "any"
                   isAny(k) == tpl[k].op = "" /\ tpl[k].rest \in {<<>>, <<Star>>}
                   Needs(k) == \/ isAny(k)
                               \/ IsRegistry /\ k = "interface" /\ Admits(tpl[k], Interface[i])
                               \/ /\ ~(IsRegistry /\ k = "interface")
                                  /\ k \in DOMAIN attrs /\ Admits(tpl[k], attrs[k])
        <2>1. /\ DOMAIN Combined(i, v) = {"interface"} \cup DOMAIN attrs
              /\ Combined(i, v)["interface"] = Interface[i]
              /\ \A k \in DOMAIN attrs : k # "interface" => Combined(i, v)[k] = attrs[k]
            BY CombinedFields
        <2>2. DOMAIN ops = DOMAIN tpl
            BY DEF parse_template
        <2>3. Passes(tpl, e) <=> \A k \in DOMAIN tpl : Field(k)
            BY <1>2, <2>0, <2>2 DEF Passes, matches
        <2>4. Wanted(tpl, e) <=> \A k \in DOMAIN tpl : Needs(k)
            BY <1>2, <2>0 DEF Wanted
        <2>5. ASSUME NEW k \in DOMAIN tpl PROVE Field(k) <=> Needs(k)
            <3>1. tpl[k] \in Asked
                BY <1>2, TextAssumption
            <3>2. ops[k].op = "any" <=> isAny(k)
                BY <3>1, AnyIsAny
            <3>3. \A value \in Text : OpMatches(ops[k], value) <=> Admits(tpl[k], value)
                BY <3>1, AdmitsIsMatch
            <3>4. isAny(k) => \A value \in Text : Admits(tpl[k], value)
                BY DEF Admits
            <3>5. Interface[i] \in Text /\ (k \in DOMAIN attrs => attrs[k] \in Text)
                BY TextAssumption
            <3>6. CASE IsRegistry /\ k = "interface"
                <4>1. k \in DOMAIN fields /\ fields[k] = Interface[i]
                    BY <2>1, <3>6 DEF Fields
                <4> QED BY <3>3, <3>4, <3>5, <3>6, <4>1
            <3>7. CASE ~(IsRegistry /\ k = "interface")
                <4>1. /\ k \in DOMAIN fields <=> k \in DOMAIN attrs
                      /\ k \in DOMAIN attrs => fields[k] = attrs[k]
                    BY <2>1, <3>7 DEF Fields
                <4> QED BY <3>2, <3>3, <3>4, <3>5, <3>7, <4>1
            <3> QED BY <3>6, <3>7
        <2> HIDE DEF Field, Needs
        <2> QED BY <2>3, <2>4, <2>5
    <1> QED BY <1>1, <1>2

-----------------------------------------------------------------------------
(***************************************************************************)
(* No stream has a silent gap.                                             *)
(***************************************************************************)

\* A stream's template; what is in the channel and in the task's hand; a stream that
\* is not open yet has nothing.  Only the task's last value is a Loss.
HandInv ==
    /\ watch.pc # "idle" => on = "lease" \/ watch.tpl \in Template
    /\ Direct => watch.task = "none" /\ watch.pc \in {"idle", "open", "ended"}
    /\ watch.task = "none" => watch.slot = <<>> /\ watch.held = <<>>
    /\ watch.pc \notin {"open", "ended"} =>
          /\ watch.inbox = <<>> /\ watch.got = <<>> /\ watch.due = <<>>
          /\ ~watch.lagged /\ watch.task = "none"
    /\ Len(watch.held) <= 1
    /\ watch.task = "last" => watch.held = <<Loss>>
    /\ watch.task = "over" => watch.held = <<>>
    /\ \A n \in 1..Len(watch.held) : watch.held[n] = Loss => watch.task = "last"
    /\ \A n \in 1..Len(watch.slot) : watch.slot[n] = Loss => watch.task = "over" /\ n = Len(watch.slot)

Received == Len(watch.got)
Pending == Received + Len(watch.slot)

\* What the client has, what is in the channel and what the task holds are the
\* beginning of what the template asks for; while no Loss is on its way, the inbox
\* has the rest.
OrderInv ==
    /\ Received <= Len(watch.due) /\ \A n \in 1..Received : watch.due[n] = watch.got[n]
    /\ watch.pc = "open" =>
          /\ \A n \in 1..Len(watch.slot) : watch.slot[n] # Loss =>
                Received + n <= Len(watch.due) /\ watch.due[Received + n] = watch.slot[n]
          /\ \A n \in 1..Len(watch.held) : watch.held[n] # Loss =>
                Pending + n <= Len(watch.due) /\ watch.due[Pending + n] = watch.held[n]
          /\ ~watch.lagged /\ watch.task \in {"none", "run"} =>
                StillToCome(watch.due, Pending + Len(watch.held), watch.inbox, AskedIn(watch.tpl, watch.inbox))

GapInv == HandInv /\ OrderInv

\* A prefix, member by member.
LEMMA PrefixByItems ==
    ASSUME NEW S, NEW s \in Seq(S), NEW t, t \in Seq(S), Len(t) <= Len(s), \A n \in 1..Len(t) : s[n] = t[n]
    PROVE  starts_with(s, t)
    <1>1. SubSeq(s, 1, Len(t)) \in Seq(S) /\ Len(SubSeq(s, 1, Len(t))) = Len(t)
          /\ \A n \in 1..Len(t) : SubSeq(s, 1, Len(t))[n] = s[n]
        BY SMTT(30)
    <1>2. SubSeq(s, 1, Len(t)) = t
        BY <1>1, SameSeq
    <1> QED BY <1>2 DEF starts_with

\* The members of two sequences put together.
LEMMA ConcatItems ==
    ASSUME NEW S, NEW a \in Seq(S), NEW b \in Seq(S)
    PROVE  /\ Len(a \o b) = Len(a) + Len(b)
           /\ \A n \in 1..Len(a) : (a \o b)[n] = a[n] /\ n \in 1..Len(a \o b)
           /\ \A n \in 1..Len(b) : (a \o b)[Len(a) + n] = b[n] /\ Len(a) + n \in 1..Len(a \o b)
    <1>1. Len(a \o b) = Len(a) + Len(b) /\ Len(a) \in Nat /\ Len(b) \in Nat
        BY SMTT(30)
    <1>2. ASSUME NEW n \in 1..Len(a) PROVE (a \o b)[n] = a[n] /\ n \in 1..Len(a \o b)
        BY <1>1, SMTT(30)
    <1>3. ASSUME NEW n \in 1..Len(b) PROVE (a \o b)[Len(a) + n] = b[n] /\ Len(a) + n \in 1..Len(a \o b)
        BY <1>1, SMTT(30)
    <1> QED BY <1>1, <1>2, <1>3

\* What a Loss is not.
LEMMA LossIsNoChange == Loss \notin Change
    BY SMTT(30) DEF Loss, Change

\* A step that leaves the stream's state alone keeps the invariant.
LEMMA GapStays ==
    ASSUME GapInv, UNCHANGED on,
           watch'.pc = watch.pc, watch'.tpl = watch.tpl, watch'.inbox = watch.inbox,
           watch'.lagged = watch.lagged, watch'.task = watch.task, watch'.held = watch.held,
           watch'.slot = watch.slot, watch'.got = watch.got, watch'.due = watch.due
    PROVE  GapInv'
    <1>1. AskedIn(watch.tpl, watch.inbox)' = AskedIn(watch.tpl, watch.inbox)
        BY DEF AskedIn, Wanted, IsRegistry
    <1>2. Received' = Received /\ Pending' = Pending
        BY DEF Received, Pending
    <1>3. HandInv'
        BY DEF GapInv, HandInv, Direct
    <1>4. OrderInv'
        BY <1>1, <1>2 DEF GapInv, OrderInv
    <1> QED BY <1>3, <1>4 DEF GapInv

\* The steps that open a stream.
LEMMA GapOpens ==
    ASSUME WatchInv, GapInv, Opens \/ put_watch \/ Watch
    PROVE  GapInv'
    <1>1. watch \in WatchRec /\ UNCHANGED on /\ HandInv
        BY DEF WatchInv, WatchType, GapInv, Opens, Notify, create_watch, Subscribe, put_watch, Watch
    <1>2. PICK l \in {"granted", "stored", "created", "open", "ended"}, k \in {"none", "run"}, t \in Templates :
             /\ watch' = [watch EXCEPT !.pc = l, !.tpl = t, !.task = k]
             /\ on = "lease" \/ t \in Template
             /\ Direct => k = "none" /\ l \in {"open", "ended"}
             /\ l = "ended" \/ k = "run" \/ Direct \/ l # "open"
             /\ watch.pc \notin {"open", "ended"}
             /\ k = "run" => l = "open"
        <2>1. watch.tpl \in Templates /\ watch = [watch EXCEPT !.tpl = watch.tpl]
              /\ (watch.pc \notin {"open", "ended"} => watch.task = "none")
            BY <1>1 DEF WatchRec, HandInv
        <2>2. CASE Notify
            <3>1. PICK t \in Template : watch' = [watch EXCEPT !.pc = "granted", !.tpl = t]
                BY <2>2 DEF Notify
            <3>2. watch' = [watch EXCEPT !.pc = "granted", !.tpl = t, !.task = "none"]
                BY <1>1, <2>1, <2>2, <3>1 DEF Notify, WatchRec
            <3> QED BY <2>2, <3>2 DEF Notify, Templates, Direct
        <2>3. CASE create_watch \/ put_watch
            <3>1. PICK l \in {"stored", "created", "ended"} : watch' = [watch EXCEPT !.pc = l] /\ watch.pc \in {"granted", "stored"}
                BY <2>3 DEF create_watch, put_watch
            <3>2. watch' = [watch EXCEPT !.pc = l, !.tpl = watch.tpl, !.task = "none"]
                BY <1>1, <2>1, <3>1 DEF WatchRec
            <3>3. on = "lease" \/ watch.tpl \in Template
                BY <1>1, <3>1 DEF HandInv
            <3>4. ~Direct
                BY <1>1, <3>1 DEF HandInv
            <3> QED BY <2>1, <3>1, <3>2, <3>3, <3>4
        <2>4. CASE Subscribe
            <3>1. watch' = [watch EXCEPT !.pc = "open", !.task = "run"] /\ watch.pc = "created"
                BY <2>4 DEF Subscribe
            <3>2. watch' = [watch EXCEPT !.pc = "open", !.tpl = watch.tpl, !.task = "run"]
                BY <1>1, <2>1, <3>1 DEF WatchRec
            <3>3. on = "lease" \/ watch.tpl \in Template
                BY <1>1, <3>1 DEF HandInv
            <3>4. ~Direct
                BY <1>1, <3>1 DEF HandInv
            <3> QED BY <2>1, <3>1, <3>2, <3>3, <3>4
        <2>5. CASE Watch
            <3>1. PICK t \in IF IsRegistry THEN Template ELSE {<<>>} \cup Item : watch' = [watch EXCEPT !.pc = "open", !.tpl = t]
                BY <2>5 DEF Watch
            <3>2. watch' = [watch EXCEPT !.pc = "open", !.tpl = t, !.task = "none"]
                BY <1>1, <2>1, <2>5, <3>1 DEF Watch, WatchRec
            <3> QED BY <2>5, <3>1, <3>2 DEF Watch, Templates, Direct, IsRegistry
        <2> QED BY <2>2, <2>3, <2>4, <2>5 DEF Opens
    <1>3. /\ watch'.pc = l /\ watch'.tpl = t /\ watch'.task = k /\ watch'.inbox = <<>> /\ watch'.got = <<>>
          /\ watch'.due = <<>> /\ watch'.slot = <<>> /\ watch'.held = <<>> /\ ~watch'.lagged
        <2>1. /\ watch'.pc = l /\ watch'.tpl = t /\ watch'.task = k /\ watch'.inbox = watch.inbox
              /\ watch'.got = watch.got /\ watch'.due = watch.due /\ watch'.slot = watch.slot
              /\ watch'.held = watch.held /\ watch'.lagged = watch.lagged
            BY <1>1, <1>2 DEF WatchRec
        <2> QED BY <1>1, <1>2, <2>1 DEF HandInv
    <1>4. Len(<<>>) = 0 /\ 0 + 0 = 0 /\ 0 <= 1 /\ 0 <= 0 /\ 1..0 = {} /\ <<>> \in Seq({})
        BY SMTT(30)
    <1>5. HandInv'
        BY <1>1, <1>2, <1>3, <1>4 DEF HandInv, Direct
    <1>6. OrderInv'
        <2>1. StillToCome(<<>>, 0, <<>>, {})
            BY <1>4, ComesNothing
        <2>2. AskedIn(watch.tpl, watch.inbox)' = {}
            BY <1>3, <1>4 DEF AskedIn
        <2>3. Received' = 0 /\ Pending' = 0
            BY <1>3, <1>4 DEF Received, Pending
        <2> QED BY <1>3, <1>4, <2>1, <2>2, <2>3 DEF OrderInv
    <1> QED BY <1>5, <1>6 DEF GapInv

\* The positions of an inbox that are asked for, when a change arrives or is read.
LEMMA AskedAppend ==
    ASSUME NEW tpl, NEW inbox \in Seq(Change), NEW e \in Change
    PROVE  AskedIn(tpl, Append(inbox, e)) = AskedIn(tpl, inbox) \cup (IF Wanted(tpl, e) THEN {Len(inbox) + 1} ELSE {})
    <1>1. /\ Len(Append(inbox, e)) = Len(inbox) + 1 /\ Append(inbox, e)[Len(inbox) + 1] = e
          /\ \A n \in 1..Len(inbox) : Append(inbox, e)[n] = inbox[n]
        BY SMTT(30)
    <1>2. \A n : n \in 1..(Len(inbox) + 1) <=> n \in 1..Len(inbox) \/ n = Len(inbox) + 1
        BY SMTT(30)
    <1> QED BY <1>1, <1>2 DEF AskedIn

\* ... and when one is read, those behind it move up ...
LEMMA AskedTail ==
    ASSUME NEW tpl, NEW inbox \in Seq(Change), inbox # <<>>
    PROVE  /\ AskedIn(tpl, Tail(inbox)) = Behind(AskedIn(tpl, inbox))
           /\ 1 \in AskedIn(tpl, inbox) <=> Wanted(tpl, Head(inbox))
    <1>1. /\ 1 \in 1..Len(inbox) /\ inbox[1] = Head(inbox)
          /\ \A q \in 1..Len(Tail(inbox)) : Tail(inbox)[q] = inbox[q + 1]
        BY SMTT(30)
    <1>2. \A q : q \in 1..Len(Tail(inbox)) <=> q \in Nat \ {0} /\ q + 1 \in 1..Len(inbox)
        BY SMTT(30)
    <1> QED BY <1>1, <1>2 DEF AskedIn, Behind

\* ... with the same changes at them.
LEMMA AskedSame ==
    ASSUME UNCHANGED on PROVE AskedIn(watch.tpl, watch.inbox)' = AskedIn(watch'.tpl, watch'.inbox)
    BY DEF AskedIn, Wanted, IsRegistry

\* The stream reads a change: it passes the change on when that is the next one the
\* template asks for, and only then.
LEMMA InboxRead ==
    ASSUME WatchInv, GapInv, watch.pc = "open", ~watch.lagged, watch.task \in {"none", "run"},
           watch.held = <<>>, watch.inbox # <<>>
    PROVE  LET A == AskedIn(watch.tpl, Tail(watch.inbox)) IN
           IF Passes(watch.tpl, Head(watch.inbox))
           THEN /\ Pending < Len(watch.due) /\ watch.due[Pending + 1] = Head(watch.inbox)
                /\ StillToCome(watch.due, Pending + 1, Tail(watch.inbox), A)
           ELSE StillToCome(watch.due, Pending, Tail(watch.inbox), A)
    <1>1. /\ watch.inbox \in Seq(Change) /\ watch.due \in Seq(Change) /\ watch.got \in Seq(Change)
          /\ watch.slot \in Seq(Change \cup {Loss})
        BY DEF WatchInv, WatchType, WatchRec
    <1>2. Pending \in Nat /\ Pending + Len(watch.held) = Pending
        <2>1. Len(watch.got) \in Nat /\ Len(watch.slot) \in Nat /\ Len(watch.held) = 0
            BY <1>1, SMTT(30)
        <2>2. \A a, b \in Nat : a + b \in Nat /\ (a + b) + 0 = a + b
            BY SMTT(30)
        <2> QED BY <2>1, <2>2 DEF Pending, Received
    <1>3. StillToCome(watch.due, Pending, watch.inbox, AskedIn(watch.tpl, watch.inbox))
        BY <1>2 DEF GapInv, OrderInv
    <1>4. Head(watch.inbox) \in Change
        BY <1>1, SMTT(30)
    <1>5. Passes(watch.tpl, Head(watch.inbox)) <=> Wanted(watch.tpl, Head(watch.inbox))
        BY <1>4, PassesIsWanted DEF GapInv, HandInv
    <1>6. AskedIn(watch.tpl, watch.inbox) \in SUBSET (1..Len(watch.inbox))
        BY DEF AskedIn
    <1>7. /\ AskedIn(watch.tpl, Tail(watch.inbox)) = Behind(AskedIn(watch.tpl, watch.inbox))
          /\ 1 \in AskedIn(watch.tpl, watch.inbox) <=> Wanted(watch.tpl, Head(watch.inbox))
        BY <1>1, AskedTail
    <1>8. LET Q == Behind(AskedIn(watch.tpl, watch.inbox)) IN
          /\ 1 \in AskedIn(watch.tpl, watch.inbox) =>
                /\ Pending < Len(watch.due) /\ watch.due[Pending + 1] = Head(watch.inbox)
                /\ StillToCome(watch.due, Pending + 1, Tail(watch.inbox), Q)
          /\ 1 \notin AskedIn(watch.tpl, watch.inbox) => StillToCome(watch.due, Pending, Tail(watch.inbox), Q)
        <2>1. PICK P \in SUBSET (1..Len(watch.inbox)), n \in Nat : P = AskedIn(watch.tpl, watch.inbox) /\ n = Pending
            BY <1>2, <1>6
        <2>2. StillToCome(watch.due, n, watch.inbox, P)
            BY <1>3, <2>1
        <2>3. /\ 1 \in P => /\ n < Len(watch.due) /\ watch.due[n + 1] = Head(watch.inbox)
                            /\ StillToCome(watch.due, n + 1, Tail(watch.inbox), Behind(P))
              /\ 1 \notin P => StillToCome(watch.due, n, Tail(watch.inbox), Behind(P))
            BY <1>1, <2>2, ComesTail
        <2> QED BY <2>1, <2>3
    <1> QED BY <1>5, <1>7, <1>8

\* A stream that ends is sent nothing more.
LEMMA GapEnds ==
    ASSUME WatchInv, GapInv, watch.pc = "open", EndStream, UNCHANGED on
    PROVE  GapInv'
    <1>1. watch \in WatchRec /\ HandInv /\ OrderInv
        BY DEF WatchInv, WatchType, GapInv
    <1>2. /\ watch'.pc = "ended" /\ watch'.tpl = watch.tpl /\ watch'.task = watch.task /\ watch'.slot = <<>>
          /\ watch'.got = watch.got /\ watch'.due = watch.due /\ watch'.held = watch.held
        BY <1>1 DEF EndStream, WatchRec
    <1>3. Len(<<>>) = 0 /\ 1..0 = {}
        BY SMTT(30)
    <1>4. HandInv'
        BY <1>1, <1>2, <1>3 DEF HandInv, Direct
    <1>5. OrderInv'
        BY <1>1, <1>2 DEF OrderInv, Received
    <1> QED BY <1>4, <1>5 DEF GapInv

\* What a stream is in, in numbers.
LEMMA GapSizes ==
    ASSUME WatchInv
    PROVE  /\ watch \in WatchRec
           /\ watch.inbox \in Seq(Change) /\ watch.due \in Seq(Change) /\ watch.got \in Seq(Change)
           /\ watch.slot \in Seq(Change \cup {Loss}) /\ watch.held \in Seq(Change \cup {Loss})
           /\ Len(watch.due) \in Nat /\ Len(watch.held) \in Nat /\ Len(watch.slot) \in Nat
           /\ Received \in Nat /\ Pending \in Nat /\ Pending = Received + Len(watch.slot)
    <1>1. /\ watch \in WatchRec
          /\ watch.inbox \in Seq(Change) /\ watch.due \in Seq(Change) /\ watch.got \in Seq(Change)
          /\ watch.slot \in Seq(Change \cup {Loss}) /\ watch.held \in Seq(Change \cup {Loss})
        BY DEF WatchInv, WatchType, WatchRec
    <1>2. /\ Len(watch.got) \in Nat /\ Len(watch.slot) \in Nat /\ Len(watch.due) \in Nat /\ Len(watch.held) \in Nat
        BY <1>1, SMTT(30)
    <1>3. \A a, b \in Nat : a + b \in Nat
        BY SMTT(30)
    <1> QED BY <1>1, <1>2, <1>3 DEF Received, Pending

\* Notify's task reads from the broadcast.
LEMMA GapTaskRecv ==
    ASSUME WatchInv, GapInv, TaskRecv
    PROVE  GapInv'
    <1>1. /\ UNCHANGED on /\ HandInv /\ OrderInv /\ watch.task = "run" /\ watch.held = <<>>
        BY DEF GapInv, TaskRecv
    <1>2. /\ watch \in WatchRec /\ watch.inbox \in Seq(Change) /\ watch.slot \in Seq(Change \cup {Loss})
          /\ Received \in Nat /\ Pending \in Nat /\ Len(watch.due) \in Nat
        BY GapSizes
    <1>3. /\ Len(<<>>) = 0 /\ 1..0 = {} /\ 1..1 = {1} /\ 0 <= 1 /\ 1 <= 1
          /\ \A x : Len(<<x>>) = 1 /\ <<x>>[1] = x
          /\ \A n \in Nat : n + 0 = n /\ \A m \in Nat : n < m => n + 1 <= m
        BY SMTT(30)
    <1>4. \A n \in 1..Len(watch.slot) : watch.slot[n] # Loss
        BY <1>1 DEF HandInv
    <1>5. CASE watch' = [watch EXCEPT !.lagged = FALSE, !.held = <<Loss>>, !.task = "last"]
        <2>1. /\ watch'.pc = watch.pc /\ watch'.tpl = watch.tpl /\ watch'.inbox = watch.inbox
              /\ watch'.task = "last" /\ watch'.held = <<Loss>> /\ watch'.slot = watch.slot
              /\ watch'.got = watch.got /\ watch'.due = watch.due
            BY <1>2, <1>5 DEF WatchRec
        <2>2. HandInv'
            BY <1>1, <1>3, <1>4, <2>1 DEF HandInv, Direct
        <2>3. OrderInv'
            <3>1. 1..Len(watch'.held) = {1} /\ watch'.held[1] = Loss
                BY <1>3, <2>1
            <3>2. Received' = Received
                BY <2>1 DEF Received
            <3> QED BY <1>1, <2>1, <3>1, <3>2 DEF OrderInv
        <2> QED BY <2>2, <2>3 DEF GapInv
    <1>6. ASSUME ~watch.lagged, watch.inbox # <<>>,
                 watch' = [watch EXCEPT !.inbox = Tail(@),
                    !.held = IF Passes(watch.tpl, Head(watch.inbox)) THEN <<Head(watch.inbox)>> ELSE <<>>]
          PROVE  GapInv'
        <2>1. PICK h \in {<<>>, <<Head(watch.inbox)>>} :
                 h = IF Passes(watch.tpl, Head(watch.inbox)) THEN <<Head(watch.inbox)>> ELSE <<>>
            OBVIOUS
        <2>2. /\ watch'.pc = watch.pc /\ watch'.tpl = watch.tpl /\ watch'.inbox = Tail(watch.inbox)
              /\ watch'.task = "run" /\ watch'.held = h /\ watch'.slot = watch.slot
              /\ watch'.got = watch.got /\ watch'.due = watch.due /\ watch'.lagged = watch.lagged
            BY <1>1, <1>2, <1>6, <2>1 DEF WatchRec
        <2>3. Head(watch.inbox) # Loss
            <3>1. Head(watch.inbox) \in Change
                BY <1>2, <1>6, SMTT(30)
            <3> QED BY <3>1, LossIsNoChange
        <2>4. watch.pc \in {"open", "ended"}
            BY <1>1 DEF HandInv
        <2>5. HandInv'
            <3>1. Len(h) <= 1 /\ \A n \in 1..Len(h) : h[n] # Loss
                BY <1>3, <2>1, <2>3
            <3> QED BY <1>1, <1>4, <2>2, <2>4, <3>1 DEF HandInv, Direct
        <2>6. Received' = Received /\ Pending' = Pending
            BY <2>2 DEF Received, Pending
        <2>7. ASSUME watch.pc = "open"
              PROVE  /\ \A n \in 1..Len(h) : Pending + n <= Len(watch.due) /\ watch.due[Pending + n] = h[n]
                     /\ StillToCome(watch.due, Pending + Len(h), Tail(watch.inbox), AskedIn(watch.tpl, Tail(watch.inbox)))
            <3>1. CASE Passes(watch.tpl, Head(watch.inbox))
                <4>1. /\ Pending < Len(watch.due) /\ watch.due[Pending + 1] = Head(watch.inbox)
                      /\ StillToCome(watch.due, Pending + 1, Tail(watch.inbox), AskedIn(watch.tpl, Tail(watch.inbox)))
                    BY <1>1, <1>6, <2>7, <3>1, InboxRead
                <4>2. Len(h) = 1 /\ 1..Len(h) = {1} /\ h[1] = Head(watch.inbox) /\ Pending + 1 <= Len(watch.due)
                    BY <1>2, <1>3, <2>1, <3>1, <4>1
                <4> QED BY <4>1, <4>2
            <3>2. CASE ~Passes(watch.tpl, Head(watch.inbox))
                <4>1. StillToCome(watch.due, Pending, Tail(watch.inbox), AskedIn(watch.tpl, Tail(watch.inbox)))
                    BY <1>1, <1>6, <2>7, <3>2, InboxRead
                <4>2. 1..Len(h) = {} /\ Pending + Len(h) = Pending
                    BY <1>2, <1>3, <2>1, <3>2
                <4> QED BY <4>1, <4>2
            <3> QED BY <3>1, <3>2
        <2>8. AskedIn(watch.tpl, watch.inbox)' = AskedIn(watch.tpl, Tail(watch.inbox))
            BY <1>1, <2>2, AskedSame
        <2>9. OrderInv'
            <3>1. /\ Received <= Len(watch.due) /\ \A n \in 1..Received : watch.due[n] = watch.got[n]
                  /\ watch.pc = "open" => \A n \in 1..Len(watch.slot) : watch.slot[n] # Loss =>
                        Received + n <= Len(watch.due) /\ watch.due[Received + n] = watch.slot[n]
                BY <1>1 DEF OrderInv
            <3> QED BY <2>2, <2>6, <2>7, <2>8, <3>1 DEF OrderInv
        <2> QED BY <2>5, <2>9 DEF GapInv
    <1> QED BY <1>5, <1>6 DEF TaskRecv

\* It sends what it holds, or finds that its client has gone.
LEMMA GapTaskSend ==
    ASSUME WatchInv, GapInv, TaskSend
    PROVE  GapInv'
    <1>1. /\ UNCHANGED on /\ HandInv /\ OrderInv /\ watch.held # <<>>
        BY DEF GapInv, TaskSend
    <1>2. /\ watch \in WatchRec /\ watch.slot \in Seq(Change \cup {Loss}) /\ watch.held \in Seq(Change \cup {Loss})
          /\ Received \in Nat /\ Pending \in Nat /\ Len(watch.due) \in Nat /\ Len(watch.slot) \in Nat
          /\ Pending = Received + Len(watch.slot)
        BY GapSizes
    <1>3. watch.pc \in {"open", "ended"} /\ watch.task \notin {"none", "over"} /\ Len(watch.held) <= 1
        BY <1>1 DEF HandInv
    <1>0. Len(<<>>) = 0 /\ 1..0 = {} /\ 0 <= 1
        BY SMTT(30)
    <1>4. CASE /\ watch.pc = "ended"
               /\ watch' = [watch EXCEPT !.task = "over", !.held = <<>>, !.inbox = <<>>, !.lagged = FALSE]
        <2>1. /\ watch'.pc = "ended" /\ watch'.tpl = watch.tpl /\ watch'.task = "over" /\ watch'.held = <<>>
              /\ watch'.slot = watch.slot /\ watch'.got = watch.got /\ watch'.due = watch.due
            BY <1>2, <1>4 DEF WatchRec
        <2>2. ~Direct
            BY <1>1, <1>3 DEF HandInv
        <2>3. HandInv'
            BY <1>0, <1>1, <1>3, <1>4, <2>1, <2>2 DEF HandInv, Direct
        <2>4. OrderInv'
            BY <1>1, <2>1 DEF OrderInv, Received
        <2> QED BY <2>3, <2>4 DEF GapInv
    <1>5. CASE /\ watch.pc = "open"
               /\ watch' = [watch EXCEPT !.slot = @ \o watch.held, !.held = <<>>,
                               !.task = IF @ = "last" THEN "over" ELSE @]
        <2>1. PICK x \in Change \cup {Loss} : watch.held = <<x>>
            <3>1. watch.held[1] \in Change \cup {Loss} /\ watch.held = <<watch.held[1]>>
                BY <1>1, <1>2, <1>3, SMTT(30)
            <3> QED BY <3>1
        <2>2. /\ Len(watch.held) = 1 /\ watch.held[1] = x /\ 1 \in 1..Len(watch.held)
            BY <2>1, SMTT(30)
        <2>3. PICK l \in Nat : l = Len(watch.slot)
            BY <1>2
        <2>4. /\ Len(watch.slot \o watch.held) = l + 1 /\ (watch.slot \o watch.held)[l + 1] = x
              /\ \A n \in 1..l : (watch.slot \o watch.held)[n] = watch.slot[n]
            BY <1>2, <2>1, <2>3, SMTT(30)
        <2>5. /\ watch'.pc = "open" /\ watch'.tpl = watch.tpl /\ watch'.held = <<>>
              /\ watch'.slot = watch.slot \o watch.held /\ watch'.got = watch.got /\ watch'.due = watch.due
              /\ watch'.inbox = watch.inbox /\ watch'.lagged = watch.lagged
              /\ watch'.task = IF watch.task = "last" THEN "over" ELSE watch.task
            BY <1>2, <1>5 DEF WatchRec
        <2>6. ~Direct /\ (x = Loss <=> watch.task = "last") /\ watch.task \in {"run", "last"}
              /\ \A n \in 1..l : watch.slot[n] # Loss
            <3>1. ~Direct /\ (x = Loss => watch.task = "last") /\ watch.task \in {"run", "last"}
                  /\ \A n \in 1..l : watch.slot[n] # Loss
                BY <1>1, <1>2, <1>3, <2>2, <2>3 DEF HandInv, WatchRec
            <3>2. watch.task = "last" => watch.held = <<Loss>>
                BY <1>1 DEF HandInv
            <3>3. <<Loss>>[1] = Loss
                BY SMTT(30)
            <3> QED BY <2>2, <3>1, <3>2, <3>3
        <2>7. \A n \in 1..(l + 1) : n \in 1..l \/ n = l + 1
            BY SMTT(30)
        <2>8. HandInv'
            <3>1. \A n \in 1..(l + 1) : watch'.slot[n] = Loss => watch'.task = "over" /\ n = l + 1
                BY <2>4, <2>5, <2>6, <2>7
            <3>2. watch'.task # "none" /\ watch'.task # "last" /\ Len(watch'.slot) = l + 1 /\ ~Direct'
                BY <1>1, <2>4, <2>5, <2>6 DEF Direct
            <3>3. watch'.pc # "idle" => on' = "lease" \/ watch'.tpl \in Template
                BY <1>1, <1>3, <2>5 DEF HandInv
            <3> QED BY <1>0, <2>5, <3>1, <3>2, <3>3 DEF HandInv
        <2>9. Received' = Received /\ Pending' = Pending + 1 /\ Pending' + 0 = Pending + 1
            <3>1. Received' = Received /\ Pending' = Received + (l + 1)
                BY <2>4, <2>5 DEF Received, Pending
            <3>2. Received + (l + 1) = (Received + l) + 1 /\ ((Received + l) + 1) + 0 = (Received + l) + 1
                BY <1>2, SMTT(30)
            <3> QED BY <1>2, <2>3, <3>1, <3>2
        <2>10. OrderInv'
            <3>1. \A n \in 1..l : Received + n <= Len(watch.due) /\ watch.due[Received + n] = watch.slot[n]
                BY <1>1, <1>5, <2>3, <2>6 DEF OrderInv
            <3>2. x # Loss => Received + (l + 1) <= Len(watch.due) /\ watch.due[Received + (l + 1)] = x
                <4>1. x # Loss => Pending + 1 <= Len(watch.due) /\ watch.due[Pending + 1] = x
                    BY <1>1, <1>5, <2>2 DEF OrderInv
                <4>2. Pending + 1 = Received + (l + 1)
                    BY <1>2, <2>3, SMTT(30)
                <4> QED BY <4>1, <4>2
            <3>3. \A n \in 1..Len(watch'.slot) : watch'.slot[n] # Loss =>
                      Received + n <= Len(watch.due) /\ watch.due[Received + n] = watch'.slot[n]
                <4>1. Len(watch'.slot) = l + 1 /\ watch'.slot[l + 1] = x /\ \A n \in 1..l : watch'.slot[n] = watch.slot[n]
                    BY <2>4, <2>5
                <4> QED BY <2>7, <3>1, <3>2, <4>1
            <3>4. ~watch'.lagged /\ watch'.task \in {"none", "run"} =>
                      StillToCome(watch.due, Pending + 1, watch.inbox, AskedIn(watch.tpl, watch.inbox))
                <4>1. watch'.task \in {"none", "run"} => watch.task = "run"
                    BY <2>5, <2>6
                <4> QED BY <1>1, <1>5, <2>2, <2>5, <4>1 DEF OrderInv
            <3>5. AskedIn(watch.tpl, watch.inbox)' = AskedIn(watch.tpl, watch.inbox)
                BY <1>1, <2>5, AskedSame
            <3> QED BY <1>0, <1>1, <2>5, <2>9, <3>3, <3>4, <3>5 DEF OrderInv
        <2> QED BY <2>8, <2>10 DEF GapInv
    <1> QED BY <1>4, <1>5 DEF TaskSend

\* The transport polls the stream.
LEMMA GapPoll ==
    ASSUME WatchInv, GapInv, Poll
    PROVE  GapInv'
    <1>1. /\ UNCHANGED on /\ HandInv /\ OrderInv /\ watch.pc = "open"
        BY DEF GapInv, Poll
    <1>2. /\ watch \in WatchRec /\ watch.slot \in Seq(Change \cup {Loss}) /\ watch.held \in Seq(Change \cup {Loss})
          /\ watch.inbox \in Seq(Change) /\ watch.got \in Seq(Change)
          /\ Received \in Nat /\ Pending \in Nat /\ Len(watch.due) \in Nat /\ Len(watch.slot) \in Nat
          /\ Pending = Received + Len(watch.slot)
        BY GapSizes
    <1>3. CASE EndStream
        BY <1>1, <1>3, GapEnds
    <1>0. \A n \in 1..(Received + 1) : n \in 1..Received \/ n = Received + 1
        BY <1>2, SMTT(30)
    <1>4. CASE /\ ~Direct /\ watch.slot # <<>> /\ Head(watch.slot) # Loss
               /\ watch' = [watch EXCEPT !.slot = Tail(@), !.got = Append(@, Head(watch.slot))]
        <2>1. /\ watch'.pc = "open" /\ watch'.tpl = watch.tpl /\ watch'.held = watch.held
              /\ watch'.slot = Tail(watch.slot) /\ watch'.got = Append(watch.got, Head(watch.slot))
              /\ watch'.due = watch.due /\ watch'.inbox = watch.inbox /\ watch'.lagged = watch.lagged
              /\ watch'.task = watch.task
            BY <1>1, <1>2, <1>4 DEF WatchRec
        <2>2. PICK l \in Nat : l + 1 = Len(watch.slot) /\ Len(Tail(watch.slot)) = l
            <3>1. Len(Tail(watch.slot)) \in Nat /\ Len(Tail(watch.slot)) + 1 = Len(watch.slot)
                BY <1>2, <1>4, SMTT(30)
            <3> QED BY <3>1
        <2>3. /\ watch.slot[1] = Head(watch.slot) /\ 1 \in 1..Len(watch.slot)
              /\ \A n \in 1..l : Tail(watch.slot)[n] = watch.slot[n + 1] /\ n + 1 \in 1..Len(watch.slot)
            <3>1. \A s \in Seq(Change \cup {Loss}) : s # <<>> =>
                     /\ s[1] = Head(s) /\ 1 \in 1..Len(s)
                     /\ \A n \in 1..Len(Tail(s)) : Tail(s)[n] = s[n + 1] /\ n + 1 \in 1..Len(s)
                BY SMTT(30)
            <3> QED BY <1>2, <1>4, <2>2, <3>1
        <2>4. /\ Len(Append(watch.got, Head(watch.slot))) = Received + 1
              /\ Append(watch.got, Head(watch.slot))[Received + 1] = Head(watch.slot)
              /\ \A n \in 1..Received : Append(watch.got, Head(watch.slot))[n] = watch.got[n]
            BY <1>2, SMTT(30) DEF Received
        <2>5. Received' = Received + 1 /\ Pending' = Pending
            <3>1. Received' = Received + 1 /\ Pending' = (Received + 1) + l
                BY <2>1, <2>2, <2>4 DEF Received, Pending
            <3>2. (Received + 1) + l = Received + (l + 1)
                BY <1>2, SMTT(30)
            <3> QED BY <1>2, <2>2, <3>1, <3>2
        <2>6. Received + 1 <= Len(watch.due) /\ watch.due[Received + 1] = Head(watch.slot)
            BY <1>1, <1>4, <2>3 DEF OrderInv
        <2>7. HandInv'
            <3>1. \A n \in 1..l : Tail(watch.slot)[n] = Loss => watch.task = "over" /\ n = l
                <4> SUFFICES ASSUME NEW n \in 1..l, Tail(watch.slot)[n] = Loss PROVE watch.task = "over" /\ n = l
                    OBVIOUS
                <4>1. watch.task = "over" /\ n + 1 = l + 1
                    BY <1>1, <2>2, <2>3 DEF HandInv
                <4>2. n = l
                    BY <4>1, SMTT(30)
                <4> QED BY <4>1, <4>2
            <3>2. watch.task # "none"
                BY <1>1, <1>4 DEF HandInv
            <3> QED BY <1>1, <2>1, <2>2, <3>1, <3>2 DEF HandInv, Direct
        <2>8. OrderInv'
            <3>1. \A n \in 1..(Received + 1) : watch.due[n] = watch'.got[n]
                BY <1>0, <1>1, <2>1, <2>4, <2>6 DEF OrderInv
            <3>2. \A n \in 1..l : watch'.slot[n] # Loss =>
                      (Received + 1) + n <= Len(watch.due) /\ watch.due[(Received + 1) + n] = watch'.slot[n]
                <4> SUFFICES ASSUME NEW n \in 1..l, watch'.slot[n] # Loss
                             PROVE  (Received + 1) + n <= Len(watch.due) /\ watch.due[(Received + 1) + n] = watch'.slot[n]
                    OBVIOUS
                <4>1. watch'.slot[n] = watch.slot[n + 1] /\ n + 1 \in 1..Len(watch.slot)
                    BY <2>1, <2>3
                <4>2. Received + (n + 1) <= Len(watch.due) /\ watch.due[Received + (n + 1)] = watch.slot[n + 1]
                    BY <1>1, <4>1 DEF OrderInv
                <4>3. Received + (n + 1) = (Received + 1) + n
                    BY <1>2, SMTT(30)
                <4> QED BY <4>1, <4>2, <4>3
            <3>3. AskedIn(watch.tpl, watch.inbox)' = AskedIn(watch.tpl, watch.inbox)
                BY <1>1, <2>1, AskedSame
            <3> QED BY <1>1, <2>1, <2>2, <2>5, <2>6, <3>1, <3>2, <3>3 DEF OrderInv
        <2> QED BY <2>7, <2>8 DEF GapInv
    <1>5. ASSUME Direct, ~watch.lagged, watch.inbox # <<>>,
                 LET e == Head(watch.inbox) IN
                 watch' = IF ~Passes(watch.tpl, e) THEN [watch EXCEPT !.inbox = Tail(@)]
                          ELSE [watch EXCEPT !.inbox = Tail(@), !.got = Append(@, e),
                                  !.view = IF e[1] = "in" THEN @ \cup {e[2]} ELSE @ \ {e[2]}]
          PROVE  GapInv'
        <2>1. watch.task = "none" /\ watch.held = <<>> /\ watch.slot = <<>>
            BY <1>1, <1>5 DEF HandInv
        <2>2. Len(<<>>) = 0 /\ 1..0 = {} /\ Received + 0 = Received /\ (Received + 1) + 0 = Received + 1
            BY <1>2, SMTT(30)
        <2>3. Pending = Received
            BY <1>2, <2>1, <2>2
        <2>4. /\ watch'.pc = "open" /\ watch'.tpl = watch.tpl /\ watch'.held = watch.held
              /\ watch'.slot = watch.slot /\ watch'.due = watch.due /\ watch'.inbox = Tail(watch.inbox)
              /\ watch'.lagged = watch.lagged /\ watch'.task = watch.task
              /\ watch'.got = IF Passes(watch.tpl, Head(watch.inbox)) THEN Append(watch.got, Head(watch.inbox)) ELSE watch.got
            BY <1>1, <1>2, <1>5 DEF WatchRec
        <2>5. HandInv'
            BY <1>1, <2>1, <2>4 DEF HandInv, Direct
        <2>6. AskedIn(watch.tpl, watch.inbox)' = AskedIn(watch.tpl, Tail(watch.inbox))
            BY <1>1, <2>4, AskedSame
        <2>7. CASE Passes(watch.tpl, Head(watch.inbox))
            <3>1. /\ Received < Len(watch.due) /\ watch.due[Received + 1] = Head(watch.inbox)
                  /\ StillToCome(watch.due, Received + 1, Tail(watch.inbox), AskedIn(watch.tpl, Tail(watch.inbox)))
                BY <1>1, <1>5, <2>1, <2>3, <2>7, InboxRead
            <3>2. /\ Len(Append(watch.got, Head(watch.inbox))) = Received + 1
                  /\ Append(watch.got, Head(watch.inbox))[Received + 1] = Head(watch.inbox)
                  /\ \A n \in 1..Received : Append(watch.got, Head(watch.inbox))[n] = watch.got[n]
                BY <1>2, SMTT(30) DEF Received
            <3>3. Received' = Received + 1 /\ Pending' = Received + 1 /\ Pending' + Len(watch'.held) = Received + 1
                BY <2>1, <2>2, <2>4, <2>7, <3>2 DEF Received, Pending
            <3>4. Received + 1 <= Len(watch.due)
                BY <1>2, <3>1, SMTT(30)
            <3>5. \A n \in 1..(Received + 1) : watch.due[n] = watch'.got[n]
                BY <1>0, <1>1, <2>4, <2>7, <3>1, <3>2 DEF OrderInv
            <3>6. 1..Len(watch'.slot) = {} /\ 1..Len(watch'.held) = {}
                BY <2>1, <2>2, <2>4
            <3>7. OrderInv'
                BY <2>4, <2>6, <3>1, <3>3, <3>4, <3>5, <3>6 DEF OrderInv
            <3> QED BY <2>5, <3>7 DEF GapInv
        <2>8. CASE ~Passes(watch.tpl, Head(watch.inbox))
            <3>1. StillToCome(watch.due, Received, Tail(watch.inbox), AskedIn(watch.tpl, Tail(watch.inbox)))
                BY <1>1, <1>5, <2>1, <2>3, <2>8, InboxRead
            <3>2. Received' = Received /\ Pending' = Received /\ Pending' + Len(watch'.held) = Received
                BY <2>1, <2>2, <2>4, <2>8 DEF Received, Pending
            <3>3. 1..Len(watch'.slot) = {} /\ 1..Len(watch'.held) = {} /\ watch'.got = watch.got
                BY <2>1, <2>2, <2>4, <2>8
            <3>4. OrderInv'
                BY <1>1, <2>4, <2>6, <3>1, <3>2, <3>3 DEF OrderInv
            <3> QED BY <2>5, <3>4 DEF GapInv
        <2> QED BY <2>7, <2>8
    <1> QED BY <1>3, <1>4, <1>5 DEF Poll

\* A change is announced.
LEMMA GapAnnounce ==
    ASSUME WatchInv, GapInv, NEW i \in Item, Announce(i)
    PROVE  GapInv'
    <1> DEFINE Box(e) == IF Subscribed /\ Heard(e) THEN Append(watch.inbox, e) ELSE watch.inbox
               Full(e) == Len(Box(e)) > Ring
    <1>1. PICK e \in item[i].news :
             watch' = [watch EXCEPT
                !.inbox = IF Full(e) THEN Tail(Box(e)) ELSE Box(e),
                !.lagged = @ \/ Full(e),
                !.due = IF Subscribed /\ Heard(e) /\ Wanted(watch.tpl, e) THEN Append(@, e) ELSE @]
        BY DEF Announce
    <1>2. /\ UNCHANGED on /\ HandInv /\ OrderInv
        BY DEF GapInv, Announce
    <1>3. /\ watch \in WatchRec /\ watch.slot \in Seq(Change \cup {Loss}) /\ watch.held \in Seq(Change \cup {Loss})
          /\ watch.inbox \in Seq(Change) /\ watch.due \in Seq(Change) /\ Len(watch.slot) \in Nat /\ Len(watch.held) \in Nat
          /\ Received \in Nat /\ Pending \in Nat /\ Len(watch.due) \in Nat /\ Pending = Received + Len(watch.slot)
        BY GapSizes
    <1>4. e \in Change
        BY DEF WatchInv, WatchType, ItemRec
    <1>5. PICK D : D = IF Subscribed /\ Heard(e) /\ Wanted(watch.tpl, e) THEN Append(watch.due, e) ELSE watch.due
        OBVIOUS
    <1>6. /\ watch'.pc = watch.pc /\ watch'.tpl = watch.tpl /\ watch'.held = watch.held /\ watch'.slot = watch.slot
          /\ watch'.got = watch.got /\ watch'.task = watch.task /\ watch'.due = D
          /\ watch'.lagged = (watch.lagged \/ Full(e))
          /\ watch'.inbox = IF Full(e) THEN Tail(Box(e)) ELSE Box(e)
        BY <1>1, <1>3, <1>5 DEF WatchRec
    <1>7. Len(watch.due) <= Len(D) /\ Len(D) \in Nat /\ \A n \in 1..Len(watch.due) : D[n] = watch.due[n]
        <2>1. /\ Len(Append(watch.due, e)) \in Nat /\ Len(watch.due) <= Len(watch.due)
              /\ Len(watch.due) <= Len(Append(watch.due, e))
              /\ \A n \in 1..Len(watch.due) : Append(watch.due, e)[n] = watch.due[n]
            BY <1>3, <1>4, SMTT(30)
        <2> QED BY <1>3, <1>5, <2>1
    <1>8. CASE ~(Subscribed /\ Heard(e))
        <2>1. watch'.due = watch.due /\ Box(e) = watch.inbox
            BY <1>5, <1>6, <1>8
        <2>2. CASE Full(e)
            <3>1. watch'.lagged /\ watch.inbox # <<>>
                <4>1. Len(<<>>) = 0 /\ ~(0 > Ring)
                    BY WatchAssumption, SMTT(30)
                <4> QED BY <1>6, <2>1, <2>2, <4>1
            <3>2. HandInv'
                BY <1>2, <1>6, <2>1, <3>1 DEF HandInv, Direct
            <3>3. OrderInv'
                <4>1. Received' = Received /\ Pending' = Pending
                    BY <1>6 DEF Received, Pending
                <4>2. watch'.pc = watch.pc /\ watch'.slot = watch.slot /\ watch'.held = watch.held /\ watch'.got = watch.got
                    BY <1>6
                <4>3. Received' <= Len(watch'.due) /\ \A n \in 1..Received' : watch'.due[n] = watch'.got[n]
                    BY <1>2, <2>1, <4>1, <4>2 DEF OrderInv
                <4>4. watch'.pc = "open" => \A n \in 1..Len(watch'.slot) : watch'.slot[n] # Loss =>
                         Received' + n <= Len(watch'.due) /\ watch'.due[Received' + n] = watch'.slot[n]
                    BY <1>2, <2>1, <4>1, <4>2 DEF OrderInv
                <4>5. watch'.pc = "open" => \A n \in 1..Len(watch'.held) : watch'.held[n] # Loss =>
                         Pending' + n <= Len(watch'.due) /\ watch'.due[Pending' + n] = watch'.held[n]
                    BY <1>2, <2>1, <4>1, <4>2 DEF OrderInv
                <4> QED BY <3>1, <4>3, <4>4, <4>5 DEF OrderInv
            <3> QED BY <3>2, <3>3 DEF GapInv
        <2>3. CASE ~Full(e)
            <3>1. watch'.inbox = watch.inbox /\ watch'.lagged = watch.lagged
                <4>1. watch.lagged \in BOOLEAN
                    BY <1>3 DEF WatchRec
                <4> QED BY <1>6, <2>1, <2>3, <4>1
            <3> QED BY <1>2, <1>6, <2>1, <3>1, GapStays
        <2> QED BY <2>2, <2>3
    <1>9. CASE Subscribed /\ Heard(e)
        <2>1. watch.pc \in {"open", "ended"}
            BY <1>2, <1>9 DEF Subscribed, HandInv
        <2>2. HandInv'
            BY <1>2, <1>6, <2>1 DEF HandInv, Direct
        <2>3. Received' = Received /\ Pending' = Pending
            BY <1>6 DEF Received, Pending
        <2>4. \A n \in Nat : n \in 1..Len(watch.due) <=> 1 <= n /\ n <= Len(watch.due)
            BY <1>3, SMTT(30)
        <2>5. Received <= Len(D) /\ \A n \in 1..Received : D[n] = watch.got[n]
            <3>1. Received <= Len(watch.due) /\ \A n \in 1..Received : watch.due[n] = watch.got[n]
                BY <1>2 DEF OrderInv
            <3>2. Received <= Len(D) /\ \A n \in 1..Received : n \in 1..Len(watch.due)
                BY <1>3, <1>7, <3>1, SMTT(30)
            <3> QED BY <1>7, <3>1, <3>2
        <2>6. ASSUME NEW k \in {Received, Pending}, NEW s \in {watch.slot, watch.held},
                     \A n \in 1..Len(s) : s[n] # Loss => k + n <= Len(watch.due) /\ watch.due[k + n] = s[n]
              PROVE  \A n \in 1..Len(s) : s[n] # Loss => k + n <= Len(D) /\ D[k + n] = s[n]
            <3> SUFFICES ASSUME NEW n \in 1..Len(s), s[n] # Loss PROVE k + n <= Len(D) /\ D[k + n] = s[n]
                OBVIOUS
            <3>1. k + n <= Len(watch.due) /\ watch.due[k + n] = s[n] /\ k \in Nat
                BY <1>3, <2>6
            <3>2. k + n <= Len(D) /\ k + n \in 1..Len(watch.due)
                <4>1. n \in Nat /\ 1 <= n
                    BY <1>3, SMTT(30)
                <4> QED BY <1>3, <1>7, <3>1, <4>1, SMTT(30)
            <3> QED BY <1>7, <3>1, <3>2
        <2>7. ASSUME watch.pc = "open", ~watch'.lagged, watch.task \in {"none", "run"}
              PROVE  StillToCome(D, Pending + Len(watch.held), Append(watch.inbox, e), AskedIn(watch.tpl, Append(watch.inbox, e)))
            <3>1. PICK n \in Nat, P \in SUBSET (1..Len(watch.inbox)) :
                     n = Pending + Len(watch.held) /\ P = AskedIn(watch.tpl, watch.inbox)
                <4>1. \A a, b \in Nat : a + b \in Nat
                    BY SMTT(30)
                <4> QED BY <1>3, <4>1 DEF AskedIn
            <3>2. StillToCome(watch.due, n, watch.inbox, P)
                BY <1>2, <1>6, <2>7, <3>1 DEF OrderInv
            <3>3. /\ StillToCome(watch.due, n, Append(watch.inbox, e), P)
                  /\ StillToCome(Append(watch.due, e), n, Append(watch.inbox, e), P \cup {Len(watch.inbox) + 1})
                BY <1>3, <1>4, <3>2, ComesAppend
            <3>4. AskedIn(watch.tpl, Append(watch.inbox, e)) =
                     P \cup (IF Wanted(watch.tpl, e) THEN {Len(watch.inbox) + 1} ELSE {})
                BY <1>3, <1>4, <3>1, AskedAppend
            <3>5. CASE Wanted(watch.tpl, e)
                BY <1>5, <1>9, <3>1, <3>3, <3>4, <3>5
            <3>6. CASE ~Wanted(watch.tpl, e)
                <4>1. AskedIn(watch.tpl, Append(watch.inbox, e)) = P /\ D = watch.due
                    BY <1>5, <3>4, <3>6
                <4> QED BY <3>1, <3>3, <4>1
            <3> QED BY <3>5, <3>6
        <2>8. ~watch'.lagged => watch'.inbox = Append(watch.inbox, e)
            BY <1>6, <1>9
        <2>9. AskedIn(watch.tpl, watch.inbox)' = AskedIn(watch'.tpl, watch'.inbox)
            BY <1>2, AskedSame
        <2>10. OrderInv'
            <3>1. watch.pc = "open" =>
                     /\ \A n \in 1..Len(watch.slot) : watch.slot[n] # Loss => Received + n <= Len(D) /\ D[Received + n] = watch.slot[n]
                     /\ \A n \in 1..Len(watch.held) : watch.held[n] # Loss => Pending + n <= Len(D) /\ D[Pending + n] = watch.held[n]
                BY <1>2, <2>6 DEF OrderInv
            <3>2. watch'.pc = "open" /\ ~watch'.lagged /\ watch'.task \in {"none", "run"} =>
                     StillToCome(D, Pending + Len(watch.held), watch'.inbox, AskedIn(watch'.tpl, watch'.inbox))
                BY <1>6, <2>7, <2>8
            <3> QED BY <1>6, <2>3, <2>5, <2>9, <3>1, <3>2 DEF OrderInv
        <2> QED BY <2>2, <2>10 DEF GapInv
    <1> QED BY <1>8, <1>9

\* Every step of a stream keeps the invariant.
LEMMA GapStep ==
    ASSUME WatchInv, GapInv, [StreamNext \/ RowNext]_watchVars
    PROVE  GapInv'
    <1>1. CASE \/ UNCHANGED watchVars \/ Snapshot \/ Shutdown \/ WatchLeaseEnds \/ WatchSettle \/ on_watch_expired
               \/ \E i \in Item : \/ InsertItem(i) \/ Reclaim(i) \/ register(i) \/ ModifyReads(i)
                                    \/ update(i) \/ unregister_by_lease(i)
        <2>1. /\ UNCHANGED on
              /\ watch'.pc = watch.pc /\ watch'.tpl = watch.tpl /\ watch'.inbox = watch.inbox
              /\ watch'.lagged = watch.lagged /\ watch'.task = watch.task /\ watch'.held = watch.held
              /\ watch'.slot = watch.slot /\ watch'.got = watch.got /\ watch'.due = watch.due
            <3>1. CASE Snapshot
                <4>1. watch \in WatchRec
                    BY GapSizes
                <4> QED BY <3>1, <4>1 DEF Snapshot, WatchRec
            <3>2. CASE ~Snapshot
                <4>1. UNCHANGED <<on, watch>>
                    BY <1>1, <3>2 DEF watchVars, Shutdown, WatchLeaseEnds, WatchSettle, on_watch_expired,
                             InsertItem, Reclaim, register, ModifyReads, update, unregister_by_lease
                <4> QED BY <4>1
            <3> QED BY <3>1, <3>2
        <2> QED BY <2>1, GapStays
    <1>2. CASE Hangup
        BY <1>2, GapEnds DEF Hangup
    <1> QED BY <1>1, <1>2, GapOpens, GapTaskRecv, GapTaskSend, GapPoll, GapAnnounce DEF StreamNext, RowNext

\* It holds before any stream is opened.
LEMMA GapBoot == WatchInit => GapInv
    <1> SUFFICES ASSUME WatchInit PROVE GapInv
        OBVIOUS
    <1>1. /\ watch.pc = "idle" /\ watch.task = "none" /\ watch.held = <<>> /\ watch.slot = <<>>
          /\ watch.inbox = <<>> /\ watch.got = <<>> /\ watch.due = <<>> /\ watch.lagged = FALSE
        BY DEF WatchInit
    <1>2. Len(<<>>) = 0 /\ 1..0 = {} /\ 0 <= 0 /\ 0 <= 1
        BY SMTT(30)
    <1> QED BY <1>1, <1>2 DEF GapInv, HandInv, OrderInv, Received

\* A stream has no silent gap, for any number of items, any fields and templates and
\* any capacities: until a DATA_LOSS is on its way, what the client has received and
\* what is on its way are exactly what the template asks for, in order, whatever
\* announcements overtake each other (TaskRecv, TaskSend, Poll).
THEOREM NoSilentGapHolds == WatchSpec => []NoSilentGap
    <1>1. WatchInv /\ GapInv => NoSilentGap
        <2> SUFFICES ASSUME WatchInv, GapInv PROVE NoSilentGap
            OBVIOUS
        <2>1. /\ watch.slot \in Seq(Change \cup {Loss}) /\ watch.held \in Seq(Change \cup {Loss})
              /\ watch.due \in Seq(Change) /\ watch.got \in Seq(Change)
              /\ Len(watch.slot) \in Nat /\ Len(watch.held) \in Nat /\ Len(watch.due) \in Nat
              /\ Received \in Nat /\ Pending = Received + Len(watch.slot)
            BY GapSizes
        <2>2. HandInv /\ OrderInv
            BY DEF GapInv
        <2>3. starts_with(watch.due, watch.got)
            <3>1. /\ Len(watch.got) <= Len(watch.due)
                  /\ \A n \in 1..Len(watch.got) : watch.due[n] = watch.got[n]
                BY <2>2 DEF OrderInv, Received
            <3> QED BY <2>1, <3>1, PrefixByItems
        <2>4. PICK way \in Seq(Change \cup {Loss}) : way = watch.slot \o watch.held
            <3>1. watch.slot \o watch.held \in Seq(Change \cup {Loss})
                BY <2>1, SMTT(30)
            <3> QED BY <3>1
        <2>5. ASSUME watch.pc = "open", ~watch.lagged, \A n \in 1..Len(way) : way[n] # Loss, watch.task # "over"
              PROVE  /\ starts_with(watch.due, watch.got \o way)
                     /\ StillToCome(watch.due, Len(watch.got \o way), watch.inbox, AskedIn(watch.tpl, watch.inbox))
            <3>0. /\ Len(watch.got \o way) = Len(watch.got) + Len(way)
                  /\ \A n \in 1..Len(watch.got) : (watch.got \o way)[n] = watch.got[n]
                  /\ \A n \in 1..Len(way) : (watch.got \o way)[Len(watch.got) + n] = way[n]
                <4>1. watch.got \in Seq(Change \cup {Loss})
                    BY <2>1, SMTT(30)
                <4>2. /\ Len(watch.got \o way) = Len(watch.got) + Len(way)
                      /\ \A n \in 1..Len(watch.got) : (watch.got \o way)[n] = watch.got[n] /\ n \in 1..Len(watch.got \o way)
                      /\ \A n \in 1..Len(way) :
                            (watch.got \o way)[Len(watch.got) + n] = way[n] /\ Len(watch.got) + n \in 1..Len(watch.got \o way)
                    BY <4>1, ConcatItems
                <4> QED BY <4>2
            <3>1. /\ Len(way) = Len(watch.slot) + Len(watch.held)
                  /\ \A n \in 1..Len(watch.slot) : way[n] = watch.slot[n] /\ n \in 1..Len(way)
                  /\ \A n \in 1..Len(watch.held) : way[Len(watch.slot) + n] = watch.held[n] /\ Len(watch.slot) + n \in 1..Len(way)
                <4>1. PICK a \in Seq(Change \cup {Loss}), b \in Seq(Change \cup {Loss}) : a = watch.slot /\ b = watch.held
                    BY <2>1
                <4>2. /\ Len(a \o b) = Len(a) + Len(b)
                      /\ \A n \in 1..Len(a) : (a \o b)[n] = a[n] /\ n \in 1..Len(a \o b)
                      /\ \A n \in 1..Len(b) : (a \o b)[Len(a) + n] = b[n] /\ Len(a) + n \in 1..Len(a \o b)
                    BY ConcatItems
                <4> QED BY <2>4, <4>1, <4>2
            <3>2. watch.task \in {"none", "run"}
                <4>1. ASSUME watch.task = "last"
                      PROVE  FALSE
                    <5>1. Len(<<Loss>>) = 1 /\ <<Loss>>[1] = Loss /\ 1 \in 1..1
                        BY SMTT(30)
                    <5>2. watch.held = <<Loss>>
                        BY <2>2, <4>1 DEF HandInv
                    <5>3. 1 \in 1..Len(watch.held) /\ watch.held[1] = Loss
                        BY <5>1, <5>2
                    <5>4. way[Len(watch.slot) + 1] = watch.held[1] /\ Len(watch.slot) + 1 \in 1..Len(way)
                        BY <3>1, <5>3
                    <5> QED BY <2>5, <5>3, <5>4
                <4>2. watch.task \in {"none", "run", "last", "over"}
                    BY DEF WatchInv, WatchType, WatchRec
                <4> QED BY <2>5, <4>1, <4>2
            <3>3. StillToCome(watch.due, Pending + Len(watch.held), watch.inbox, AskedIn(watch.tpl, watch.inbox))
                BY <2>2, <2>5, <3>2 DEF OrderInv
            <3>4. Len(watch.got \o way) = Pending + Len(watch.held)
                <4>1. Len(watch.got \o way) = Received + (Len(watch.slot) + Len(watch.held))
                    BY <3>0, <3>1 DEF Received
                <4>2. \A a, b, c \in Nat : a + (b + c) = (a + b) + c
                    BY SMTT(30)
                <4> QED BY <2>1, <4>1, <4>2
            <3>5. Len(watch.got \o way) <= Len(watch.due)
                BY <3>3, <3>4 DEF StillToCome
            <3>6. \A n \in 1..Len(watch.got \o way) : watch.due[n] = (watch.got \o way)[n]
                <4> SUFFICES ASSUME NEW n \in 1..Len(watch.got \o way) PROVE watch.due[n] = (watch.got \o way)[n]
                    OBVIOUS
                <4>1. PICK g \in Nat, s \in Nat, h \in Nat : g = Len(watch.got) /\ s = Len(watch.slot) /\ h = Len(watch.held)
                    BY <2>1 DEF Received
                <4>2. Received = g /\ Pending = g + s /\ Len(way) = s + h /\ Len(watch.got \o way) = (g + s) + h
                    BY <2>1, <3>1, <3>4, <4>1 DEF Received
                <4>3. CASE n <= g
                    <5>1. n \in 1..g
                        BY <4>2, <4>3, SMTT(30)
                    <5>2. (watch.got \o way)[n] = watch.got[n]
                        BY <3>0, <4>1, <5>1
                    <5> QED BY <2>2, <4>2, <5>1, <5>2 DEF OrderInv
                <4>4. CASE g < n /\ n <= g + s
                    <5>1. n - g \in 1..s /\ g + (n - g) = n
                        BY <4>2, <4>4, SMTT(30)
                    <5>2. (watch.got \o way)[n] = way[n - g]
                        BY <3>0, <3>1, <4>1, <5>1
                    <5>3. way[n - g] = watch.slot[n - g] /\ watch.slot[n - g] # Loss
                        BY <2>5, <3>1, <4>1, <5>1
                    <5>4. watch.due[Received + (n - g)] = watch.slot[n - g]
                        BY <2>2, <2>5, <4>1, <5>1, <5>3 DEF OrderInv
                    <5> QED BY <4>2, <5>1, <5>2, <5>3, <5>4
                <4>5. CASE g + s < n
                    <5>1. n - (g + s) \in 1..h /\ (g + s) + (n - (g + s)) = n /\ s + (n - (g + s)) = n - g
                          /\ n - g \in 1..(s + h) /\ g + (n - g) = n
                        BY <4>2, <4>5, SMTT(30)
                    <5>2. (watch.got \o way)[n] = way[n - g]
                        BY <3>0, <4>1, <4>2, <5>1
                    <5>3. way[n - g] = watch.held[n - (g + s)] /\ watch.held[n - (g + s)] # Loss
                        BY <2>5, <3>1, <4>1, <5>1
                    <5>4. watch.due[Pending + (n - (g + s))] = watch.held[n - (g + s)]
                        BY <2>2, <2>5, <4>1, <5>1, <5>3 DEF OrderInv
                    <5> QED BY <4>2, <5>1, <5>2, <5>3, <5>4
                <4>6. n <= g \/ (g < n /\ n <= g + s) \/ g + s < n
                    BY <4>2, SMTT(30)
                <4> QED BY <4>3, <4>4, <4>5, <4>6
            <3>7. watch.got \o way \in Seq(Change \cup {Loss}) /\ watch.due \in Seq(Change \cup {Loss})
                BY <2>1, SMTT(30)
            <3> QED BY <3>3, <3>4, <3>5, <3>6, <3>7, PrefixByItems
        <2> QED BY <2>3, <2>4, <2>5 DEF NoSilentGap
    <1>2. WatchInv /\ GapInv /\ [StreamNext \/ RowNext]_watchVars => GapInv'
        BY GapStep
    <1> QED BY <1>1, <1>2, GapBoot, WatchSafety, PTL DEF WatchSpec
=============================================================================
