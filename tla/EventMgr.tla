------------------------------ MODULE EventMgr ------------------------------
(***************************************************************************)
(* The event service (coordin8-event): leased subscriptions, durable       *)
(* mailboxes and live broadcast, over the in-memory store or DynamoDB.     *)
(*                                                                         *)
(* A step is one operation on one map or table.  In memory an emit does    *)
(* not yield between its steps, so it is never dropped half-way; over      *)
(* DynamoDB each step is a request that may fail, and a client that goes   *)
(* away drops its emit.  DynamoDB reads here are eventually consistent:    *)
(* a row whose last write is in `lag` may be read as it was before.        *)
(***************************************************************************)
EXTENDS InOrder, FiniteSets

CONSTANTS
    Sub,         \* registrations
    Event,       \* emit calls, one event each
    Stream,      \* Receive calls
    Nobody,      \* no registration
    Durable,     \* the registrations with durable delivery
    SourceOf,    \* the events of each registration's source
    Matches,     \* ... and those its template matches
    Providers,   \* COORDIN8_PROVIDER
    Capacity,    \* of the event_tx broadcast
    Batch,       \* MAILBOX_BATCH
    MaxSubscribe,  \* bound: Subscribe calls
    MaxLag,      \* bound: rows whose last write lags at one time
    MaxFault     \* bound: restarts, failing requests, dropped emits

ASSUME EventAssumption ==
    /\ Nobody \notin Sub /\ Durable \subseteq Sub
    /\ SourceOf \in [Sub -> SUBSET Event] /\ Matches \in [Sub -> SUBSET Event]
    /\ \A s \in Sub : Matches[s] \subseteq SourceOf[s]
    /\ Providers \subseteq {"local", "dynamo"}
    /\ Capacity \in Nat \ {0} /\ Batch \in Nat \ {0}
    /\ MaxSubscribe \in Nat /\ MaxLag \in Nat /\ MaxFault \in Nat

VARIABLES
    provider,
    subs,        \* the subscription rows
    mailbox,     \* of each registration: is it there (in memory), the last
                 \* sequence number, the entries, the deleted entries that
                 \* lagging reads may still return
    lag,         \* rows whose last write is not everywhere: <<sub, seq>>, and
                 \* <<sub, 0>> for the subscription's own row
    lease,       \* of each registration: "none", "held" or "ended"
    subscriber,  \* each registration's Subscribe call
    remover,     \* each registration's removal: "idle", "reclaim" or "cancel"
    counter,     \* seq_counters: one source::event_type key
    emit,        \* each emit call
    stream,      \* each Receive call: loop, broadcast receiver, channel slot
    handed,      \* history: <<sub, seq, event>> the transport has pulled
    faults       \* what is used of MaxFault

rows   == <<subs, mailbox, lag>>
calls  == <<subscriber, remover>>
vars   == <<provider, rows, lease, calls, counter, emit, stream, handed, faults>>

Entry == [seq : Nat, ev : Event]
NoBox == [there |-> FALSE, last |-> 0, entries |-> {}, ghosts |-> {}]
IdleEmit == [pc |-> "idle", num |-> 0, todo |-> {}, owed |-> {}, at |-> Nobody, seq |-> 0,
             failed |-> FALSE]
Closed == [pc |-> "closed", sub |-> Nobody, inbox |-> <<>>, lagged |-> FALSE,
           cursor |-> 0, batch |-> {}, slot |-> {}, seen |-> <<>>, due |-> <<>>]

Init ==
    /\ provider \in Providers
    /\ subs = {} /\ mailbox = [s \in Sub |-> NoBox] /\ lag = {}
    /\ lease = [s \in Sub |-> "none"]
    /\ subscriber = [s \in Sub |-> "idle"] /\ remover = [s \in Sub |-> "idle"]
    /\ counter = 0
    /\ emit = [e \in Event |-> IdleEmit]
    /\ stream = [r \in Stream |-> Closed]
    /\ handed = {}
    /\ faults = 0

Local  == provider = "local"
Dynamo == provider = "dynamo"

Fail == faults < MaxFault /\ faults' = faults + 1

\* A write to DynamoDB is everywhere at once, or only after some time.
Written(K) ==
    \/ lag' = lag \ K
    \/ Dynamo /\ Cardinality(lag \cup K) <= MaxLag /\ lag' = lag \cup K

\* What a scan or get may see of the subscription rows.
SubsSeen == {S \in SUBSET Sub : \A s \in Sub : (s \in S) = (s \in subs) \/ <<s, 0>> \in lag}

\* What a query may see of a mailbox: an entry whose put or delete still
\* lags may be missing, or still there.
BoxSeen(s) ==
    LET late == mailbox[s].ghosts \cup {x \in mailbox[s].entries : <<s, x.seq>> \in lag}
    IN {(mailbox[s].entries \ late) \cup X : X \in SUBSET late}

\* Entries are deleted: at once in memory, and some time later for the
\* readers of DynamoDB.
Delete(s, X, there) ==
    /\ Written({<<s, x.seq>> : x \in X})
    /\ mailbox' = [mailbox EXCEPT ![s].there = there, ![s].entries = @ \ X,
                                  ![s].ghosts = {x \in @ \cup X : <<s, x.seq>> \in lag'}]

-----------------------------------------------------------------------------
\* EventManager.subscribe: the lease, then the row ...
Subscribe(s) ==
    /\ subscriber[s] = "idle"
    /\ Cardinality({t \in Sub : subscriber[t] # "idle"}) < MaxSubscribe
    /\ lease' = [lease EXCEPT ![s] = "held"]
    /\ subscriber' = [subscriber EXCEPT ![s] = "create"]
    /\ UNCHANGED <<provider, rows, remover, counter, emit, stream, handed, faults>>

CreateSubscription(s) ==
    /\ subscriber[s] = "create"
    /\ subs' = subs \cup {s}
    /\ Written({<<s, 0>>})
    /\ subscriber' = [subscriber EXCEPT ![s] = IF Local THEN "mailbox" ELSE "done"]
    /\ UNCHANGED <<provider, mailbox, lease, remover, counter, emit, stream, handed, faults>>

\* (a row that cannot be written leaves its lease to run out)
CreateFails(s) ==
    /\ subscriber[s] = "create" /\ Dynamo /\ Fail
    /\ subscriber' = [subscriber EXCEPT ![s] = "done"]
    /\ UNCHANGED <<provider, rows, lease, remover, counter, emit, stream, handed>>

\* ... and in memory the mailbox, a second map.
CreateMailbox(s) ==
    /\ subscriber[s] = "mailbox"
    /\ mailbox' = [mailbox EXCEPT ![s] = [NoBox EXCEPT !.there = TRUE]]
    /\ subscriber' = [subscriber EXCEPT ![s] = "done"]
    /\ UNCHANGED <<provider, subs, lag, lease, remover, counter, emit, stream, handed, faults>>

\* The lease runs out, or is cancelled through the lease service.
LeaseEnds(s) ==
    /\ lease[s] = "held"
    /\ lease' = [lease EXCEPT ![s] = "ended"]
    /\ UNCHANGED <<provider, rows, calls, counter, emit, stream, handed, faults>>

\* The row goes first ...
RemoveRow(s, why) ==
    /\ remover[s] = "idle"
    /\ subs' = subs \ {s}
    /\ Written({<<s, 0>>})
    /\ remover' = [remover EXCEPT ![s] = why]
    /\ UNCHANGED <<provider, mailbox, lease, subscriber, counter, emit, stream, handed, faults>>

\* unsubscribe_by_lease looks the row up by its lease.
RemoveByLease(s) == (\E S \in SubsSeen : s \in S) /\ RemoveRow(s, "reclaim")

\* The cascade gets the reclaim; when that is lost, or came before the row
\* was visible, the sweep finds the row and no lease.
Cascade(s) == lease[s] = "ended" /\ RemoveByLease(s)
Sweep(s) == s \in subs /\ lease[s] = "ended" /\ RemoveByLease(s)

CancelSubscription(s) ==
    /\ subscriber[s] = "done"
    /\ \E S \in SubsSeen : s \in S
    /\ RemoveRow(s, "cancel")

\* ... then what a query finds of the mailbox, and on a cancel the lease.
DrainMailbox(s) ==
    /\ remover[s] # "idle"
    /\ \E B \in BoxSeen(s) : Delete(s, B, FALSE)
    /\ lease' = [lease EXCEPT ![s] = IF remover[s] = "cancel" THEN "ended" ELSE @]
    /\ remover' = [remover EXCEPT ![s] = "idle"]
    /\ UNCHANGED <<provider, subs, subscriber, counter, emit, stream, handed, faults>>

\* batch_delete gives up: entries stay behind, and so does the lease.
DrainFails(s) ==
    /\ remover[s] # "idle" /\ Dynamo /\ Fail
    /\ \E X \in SUBSET mailbox[s].entries : Delete(s, X, FALSE)
    /\ remover' = [remover EXCEPT ![s] = "idle"]
    /\ UNCHANGED <<provider, subs, lease, subscriber, counter, emit, stream, handed>>

-----------------------------------------------------------------------------
EGoto(e, l) == emit' = [emit EXCEPT ![e].pc = l]

\* EventManager.emit: number the event and list the subscriptions (one step:
\* nothing else reads the counter in between) ...
EmitStart(e) ==
    /\ emit[e].pc = "idle"
    /\ counter' = counter + 1
    /\ \E S \in SubsSeen :
          LET due == {s \in S \cap Durable : e \in Matches[s]} IN
          emit' = [emit EXCEPT ![e] = [IdleEmit EXCEPT
                      !.pc = "enqueue", !.num = counter + 1, !.todo = due,
                      !.owed = {s \in due : subscriber[s] = "done"}]]
    /\ UNCHANGED <<provider, rows, lease, calls, stream, handed, faults>>

Put(s, n, e) == [mailbox EXCEPT ![s].last = n, ![s].entries = @ \cup {[seq |-> n, ev |-> e]}]

\* Mutant: the number is the size of the mailbox, not a counter of its own.
EnqueueBySize(e, s) ==
    /\ emit[e].pc = "enqueue" /\ s \in emit[e].todo /\ Local
    /\ emit' = [emit EXCEPT ![e].todo = @ \ {s}]
    /\ mailbox' = IF mailbox[s].there THEN Put(s, Cardinality(mailbox[s].entries) + 1, e) ELSE mailbox
    /\ UNCHANGED <<provider, subs, lag, lease, calls, counter, stream, handed, faults>>

\* ... put it into the durable mailboxes, one by one: in memory in one step,
\* unless the mailbox is gone ...
Enqueue(e, s) ==
    /\ emit[e].pc = "enqueue" /\ s \in emit[e].todo /\ Local
    /\ emit' = [emit EXCEPT ![e].todo = @ \ {s}]
    /\ mailbox' = IF mailbox[s].there THEN Put(s, mailbox[s].last + 1, e) ELSE mailbox
    /\ UNCHANGED <<provider, subs, lag, lease, calls, counter, stream, handed, faults>>

\* ... in DynamoDB by allocating a number on the subscription's row, if that
\* row is there, and writing the entry afterwards ...
EnqueueAllocate(e, s) ==
    /\ emit[e].pc = "enqueue" /\ s \in emit[e].todo /\ Dynamo
    /\ IF s \in subs
       THEN /\ mailbox' = [mailbox EXCEPT ![s].last = @ + 1]
            /\ emit' = [emit EXCEPT ![e].todo = @ \ {s}, ![e].pc = "put", ![e].at = s,
                                    ![e].seq = mailbox[s].last + 1]
       ELSE /\ emit' = [emit EXCEPT ![e].todo = @ \ {s}]
            /\ UNCHANGED mailbox
    /\ UNCHANGED <<provider, subs, lag, lease, calls, counter, stream, handed, faults>>

EnqueuePut(e) ==
    LET s == emit[e].at IN
    /\ emit[e].pc = "put"
    /\ mailbox' = [mailbox EXCEPT ![s].entries = @ \cup {[seq |-> emit[e].seq, ev |-> e]}]
    /\ Written({<<s, emit[e].seq>>})
    /\ emit' = [emit EXCEPT ![e].pc = "enqueue", ![e].at = Nobody, ![e].seq = 0]
    /\ UNCHANGED <<provider, subs, lease, calls, counter, stream, handed, faults>>

\* (a mailbox that cannot be written does not stop the others) ...
EnqueueFails(e) ==
    /\ Dynamo /\ Fail
    /\ \/ /\ emit[e].pc = "put"
          /\ emit' = [emit EXCEPT ![e].pc = "enqueue", ![e].at = Nobody, ![e].seq = 0,
                                  ![e].failed = TRUE]
       \/ /\ emit[e].pc = "enqueue"
          /\ \E s \in emit[e].todo :
                emit' = [emit EXCEPT ![e].todo = @ \ {s}, ![e].failed = TRUE]
    /\ UNCHANGED <<provider, rows, lease, calls, counter, stream, handed>>

\* ... and wake the streams.  A receiver that is Capacity behind loses its
\* oldest value and is told so.
Hear(k, e) ==
    IF k.pc = "closed" THEN k
    ELSE [k EXCEPT !.inbox = IF Len(@) < Capacity THEN Append(@, e) ELSE Append(Tail(@), e),
                   !.lagged = @ \/ Len(k.inbox) = Capacity,
                   !.due = IF k.sub \notin Durable /\ e \in Matches[k.sub] THEN Append(@, e) ELSE @]

EmitBroadcast(e) ==
    /\ emit[e].pc = "enqueue" /\ emit[e].todo = {}
    /\ stream' = [r \in Stream |-> Hear(stream[r], e)]
    /\ EGoto(e, IF emit[e].failed THEN "err" ELSE "ok")
    /\ UNCHANGED <<provider, rows, lease, calls, counter, handed, faults>>

\* The client goes away and the call is dropped.
EmitEnds(e) ==
    /\ emit[e].pc \in {"enqueue", "put"} /\ Dynamo /\ Fail
    /\ emit' = [emit EXCEPT ![e] = [IdleEmit EXCEPT !.pc = "err", !.num = emit[e].num]]
    /\ UNCHANGED <<provider, rows, lease, calls, counter, stream, handed>>

-----------------------------------------------------------------------------
IsDurable(r) == stream[r].sub \in Durable

\* EventService.receive: the subscription is there; subscribe to the
\* broadcast, and read the mailbox only then.
Receive(r, s) ==
    /\ stream[r].pc = "closed"
    /\ \E S \in SubsSeen : s \in S
    /\ stream' = [stream EXCEPT ![r] =
          [Closed EXCEPT !.sub = s, !.pc = IF s \in Durable THEN "peek" ELSE "wait"]]
    /\ UNCHANGED <<provider, rows, lease, calls, counter, emit, handed, faults>>

\* The first entries, in order of their numbers.
Page(X) == {x \in X : Cardinality({y \in X : y.seq < x.seq}) < Batch}

\* peek_mailbox, after the cursor.
Peek(r) ==
    LET k == stream[r] IN
    /\ k.pc = "peek"
    /\ \E B \in BoxSeen(k.sub) :
          LET page == Page({x \in B : x.seq > k.cursor}) IN
          stream' = [stream EXCEPT ![r].batch = page,
                                   ![r].pc = IF page = {} THEN "wait" ELSE "send"]
    /\ UNCHANGED <<provider, rows, lease, calls, counter, emit, handed, faults>>

\* The next event goes into the channel, which holds one.
Send(r) ==
    LET k == stream[r] IN
    /\ k.pc = "send" /\ k.slot = {}
    /\ \E x \in k.batch :
          /\ \A y \in k.batch : x.seq <= y.seq
          /\ stream' = [stream EXCEPT ![r].slot = {x}, ![r].batch = @ \ {x},
                                      ![r].pc = IF IsDurable(r) THEN "ack" ELSE "wait",
                                      ![r].cursor = IF IsDurable(r) THEN x.seq ELSE @]
    /\ UNCHANGED <<provider, rows, lease, calls, counter, emit, handed, faults>>

\* The transport pulls it.
Pull(r) ==
    LET k == stream[r] IN
    /\ k.slot # {}
    /\ \E x \in k.slot :
          /\ stream' = [stream EXCEPT ![r].slot = {}, ![r].seen = Append(@, x)]
          /\ handed' = IF IsDurable(r) THEN handed \cup {<<k.sub, x.seq, x.ev>>} ELSE handed
    /\ UNCHANGED <<provider, rows, lease, calls, counter, emit, faults>>

Acked(r) ==
    LET k == stream[r] IN
    /\ Delete(k.sub, {x \in mailbox[k.sub].entries : x.seq = k.cursor}, mailbox[k.sub].there)
    /\ stream' = [stream EXCEPT ![r].pc = IF k.batch = {} THEN "peek" ELSE "send"]
    /\ UNCHANGED <<provider, subs, lease, calls, counter, emit, handed, faults>>

\* Mutant: acknowledge as soon as the event is in the channel.
AckEarly(r) == stream[r].pc = "ack" /\ Acked(r)

\* Room in the channel again: the event was consumed, remove it.
Ack(r) == stream[r].pc = "ack" /\ stream[r].slot = {} /\ Acked(r)

\* Mutant: a receiver that lagged resubscribes and goes on.
LagIgnored(r) ==
    /\ stream[r].pc = "wait" /\ stream[r].lagged
    /\ stream' = [stream EXCEPT ![r].lagged = FALSE, ![r].inbox = <<>>]
    /\ UNCHANGED <<provider, rows, lease, calls, counter, emit, handed, faults>>

\* Lagged: a durable stream reads its mailbox again, a best-effort one ends
\* with DATA_LOSS.
Lagged(r) ==
    LET k == stream[r] IN
    /\ k.pc = "wait" /\ k.lagged
    /\ stream' = [stream EXCEPT ![r] = IF IsDurable(r) THEN [k EXCEPT !.lagged = FALSE, !.pc = "peek"]
                                       ELSE Closed]
    /\ UNCHANGED <<provider, rows, lease, calls, counter, emit, handed, faults>>

\* A broadcast: of another source, a reason to look, or the event itself.
Wake(r) ==
    LET k == stream[r]
        e == Head(k.inbox)
        live == [seq |-> emit[e].num, ev |-> e]
    IN
    /\ k.pc = "wait" /\ ~k.lagged /\ k.inbox # <<>>
    /\ stream' = [stream EXCEPT ![r] =
          IF IsDurable(r)
          THEN [k EXCEPT !.inbox = Tail(@), !.pc = IF e \in SourceOf[k.sub] THEN "peek" ELSE @]
          ELSE IF e \in Matches[k.sub]
               THEN [k EXCEPT !.inbox = Tail(@), !.batch = {live}, !.pc = "send"]
               ELSE [k EXCEPT !.inbox = Tail(@)]]
    /\ UNCHANGED <<provider, rows, lease, calls, counter, emit, handed, faults>>

\* The client disconnects, a read or an acknowledgement fails, or the server
\* ends its streams to shut down.
Close(r) ==
    /\ stream[r].pc # "closed"
    /\ stream' = [stream EXCEPT ![r] = Closed]
    /\ UNCHANGED <<provider, rows, lease, calls, counter, emit, handed, faults>>

-----------------------------------------------------------------------------
\* A write has reached every replica.
Settle(k) ==
    /\ k \in lag /\ lag' = lag \ {k}
    /\ mailbox' = [mailbox EXCEPT ![k[1]].ghosts = {x \in @ : x.seq # k[2]}]
    /\ UNCHANGED <<provider, subs, lease, calls, counter, emit, stream, handed, faults>>

\* A restart ends every call and stream; what was in memory is gone.
Restart ==
    /\ Fail
    /\ emit' = [e \in Event |-> IF emit[e].pc \in {"idle", "ok", "err"} THEN emit[e]
                                ELSE [IdleEmit EXCEPT !.pc = "err"]]
    /\ stream' = [r \in Stream |-> Closed]
    /\ subscriber' = [s \in Sub |-> IF subscriber[s] = "idle" THEN "idle" ELSE "done"]
    /\ remover' = [s \in Sub |-> "idle"]
    /\ counter' = 0
    /\ IF Local
       THEN subs' = {} /\ mailbox' = [s \in Sub |-> NoBox]
            /\ lease' = [s \in Sub |-> IF lease[s] = "none" THEN "none" ELSE "ended"]
       ELSE UNCHANGED <<subs, mailbox, lease>>
    /\ UNCHANGED <<provider, lag, handed>>

SubNext(s) ==
    \/ Subscribe(s) \/ CreateSubscription(s) \/ CreateFails(s) \/ CreateMailbox(s)
    \/ LeaseEnds(s) \/ Cascade(s) \/ Sweep(s) \/ CancelSubscription(s) \/ DrainMailbox(s) \/ DrainFails(s)

EmitStep(e) ==
    \/ EmitStart(e) \/ EnqueuePut(e) \/ EmitBroadcast(e)
    \/ \E s \in Sub : Enqueue(e, s) \/ EnqueueAllocate(e, s)

\* The server's loop for one stream, and a client that reads.
StreamStep(r) == Peek(r) \/ Send(r) \/ Pull(r) \/ Ack(r) \/ Lagged(r) \/ Wake(r)

Next ==
    \/ \E s \in Sub : SubNext(s)
    \/ \E e \in Event : EmitStep(e) \/ EnqueueFails(e) \/ EmitEnds(e)
    \/ \E r \in Stream : StreamStep(r) \/ Close(r) \/ \E s \in Sub : Receive(r, s)
    \/ \E k \in lag : Settle(k)
    \/ Restart

Spec == Init /\ [][Next]_vars

\* In memory, tasks that can run do: an emit that has begun, and a stream's
\* loop with a client that keeps reading.
Fairness ==
    /\ \A e \in Event : WF_vars(Local /\ emit[e].pc # "idle" /\ EmitStep(e))
    /\ \A r \in Stream : WF_vars(Local /\ StreamStep(r))

LiveSpec == Spec /\ Fairness

-----------------------------------------------------------------------------
TypeOK ==
    /\ provider \in Providers
    /\ subs \subseteq Sub
    /\ mailbox \in [Sub -> [there : BOOLEAN, last : Nat, entries : SUBSET Entry,
                        ghosts : SUBSET Entry]]
    /\ lag \subseteq Sub \X Nat
    /\ lease \in [Sub -> {"none", "held", "ended"}]
    /\ subscriber \in [Sub -> {"idle", "create", "mailbox", "done"}]
    /\ remover \in [Sub -> {"idle", "reclaim", "cancel"}]
    /\ counter \in Nat
    /\ \A e \in Event : emit[e].pc \in {"idle", "enqueue", "put", "ok", "err"}
    /\ \A r \in Stream :
          /\ stream[r].pc \in {"closed", "peek", "send", "ack", "wait"}
          /\ stream[r].batch \subseteq Entry /\ Cardinality(stream[r].slot) <= 1
          /\ Len(stream[r].inbox) <= Capacity
    /\ handed \subseteq Sub \X Nat \X Event

\* The delivery contract of EventManager: an event whose emit answered Ok is
\* still in the mailbox of every durable registration the emit listed after
\* its Subscribe had answered, or was handed to a gRPC stream, for as long as
\* the registration stands (emit, durable_loop: disconnects, restarts,
\* competing streams, failing mailboxes).
AtLeastOnce ==
    \A e \in Event : emit[e].pc = "ok" =>
        \A s \in emit[e].owed \cap subs :
            \/ \E x \in mailbox[s].entries : x.ev = e
            \/ \E n \in 1..mailbox[s].last : <<s, n, e>> \in handed

\* "Clients de-duplicate on the per-registration seq_num": a number never
\* stands for two events of one registration, not even after acknowledged
\* entries are gone or the service restarted.
NumberNamesEvent ==
    \A s \in Sub :
        LET all == {<<s, x.seq, x.ev>> : x \in mailbox[s].entries}
                   \cup {h \in handed : h[1] = s}
        IN \A x, y \in all : x[2] = y[2] => x[3] = y[3]

\* A best-effort stream that is open and was not told it lagged has every
\* matching event broadcast since it subscribed: seen, in the channel, with the
\* loop or in its receiver, in broadcast order (best_effort_loop).
Sent(k) == Len(k.seen) + Cardinality(k.slot) + Cardinality(k.batch)
Matching(inbox, S) == {n \in 1..Len(inbox) : inbox[n] \in S}
Complete(k) ==
    /\ \A i \in 1..Len(k.seen) : k.seen[i].ev = k.due[i]
    /\ \A x \in k.slot : x.ev = k.due[Len(k.seen) + 1]
    /\ \A x \in k.batch : x.ev = k.due[Sent(k)]
    /\ StillToCome(k.due, Sent(k), k.inbox, Matching(k.inbox, Matches[k.sub]))
BestEffortComplete ==
    \A r \in Stream : stream[r].pc # "closed" /\ ~IsDurable(r) /\ ~stream[r].lagged => Complete(stream[r])

\* In memory, an event in the mailbox of a registration with an open stream is
\* handed over: no wake-up is missed between subscribing to the broadcast,
\* reading the mailbox and waiting (receive, durable_loop, emit).
Unread(r, e) ==
    /\ Local /\ IsDurable(r) /\ stream[r].sub \in subs
    /\ \E x \in mailbox[stream[r].sub].entries : x.ev = e
    /\ \A h \in handed : h[1] = stream[r].sub => h[3] # e
DurableDelivered == \A r \in Stream, e \in Event : Unread(r, e) ~> ~Unread(r, e)
=============================================================================
