----------------------------- MODULE EventProofs -----------------------------
(***************************************************************************)
(* The delivery contract of the event service, for every number of         *)
(* registrations, events and streams, any templates, capacity and batch    *)
(* size, and both providers.                                               *)
(***************************************************************************)
EXTENDS EventMgr, FiniteSetTheorems, TLAPS

\* Most steps are first-order; those that count or update records cite SMT.  In a
\* module of this size a prover is slow to start, so each leaf is given 30 seconds.
USE ZenonT(30)

-----------------------------------------------------------------------------
(***************************************************************************)
(* The inductive invariant.                                                *)
(***************************************************************************)

Boxes == [there : BOOLEAN, last : Nat, entries : SUBSET Entry, ghosts : SUBSET Entry]
Emits == [pc : {"idle", "enqueue", "put", "ok", "err"}, num : Nat, todo : SUBSET Sub, owed : SUBSET Sub,
          at : Sub \cup {Nobody}, seq : Nat, failed : BOOLEAN]
Streams == [pc : {"closed", "peek", "send", "ack", "wait"}, sub : Sub \cup {Nobody}, inbox : Seq(Event),
            lagged : BOOLEAN, cursor : Nat, batch : SUBSET Entry, slot : SUBSET Entry,
            seen : Seq(Entry), due : Seq(Event)]

EventType ==
    /\ provider \in {"local", "dynamo"} /\ subs \subseteq Sub /\ mailbox \in [Sub -> Boxes]
    /\ subscriber \in [Sub -> {"idle", "create", "mailbox", "done"}]
    /\ remover \in [Sub -> {"idle", "reclaim", "cancel"}]
    /\ counter \in Nat /\ emit \in [Event -> Emits] /\ stream \in [Stream -> Streams]
    /\ handed \subseteq Sub \X Nat \X Event

\* The number n stands for the event e in the registration s: in its mailbox,
\* in a read that lags, with a stream, handed over, or about to be put.
Uses(s, n, e) ==
    \/ \E x \in mailbox[s].entries \cup mailbox[s].ghosts : x.seq = n /\ x.ev = e
    \/ <<s, n, e>> \in handed
    \/ s \in Durable /\ \E r \in Stream : /\ stream[r].sub = s
                                          /\ \E x \in stream[r].batch \cup stream[r].slot : x.seq = n /\ x.ev = e
    \/ emit[e].pc = "put" /\ emit[e].at = s /\ emit[e].seq = n

\* Numbers are allocated in this mailbox; in memory one that is gone stays so.
Live(s) == Dynamo \/ mailbox[s].there

\* Numbers in use were allocated, and each stands for one event.
NumInv(s) ==
    /\ \A n \in Nat, e \in Event : Uses(s, n, e) => n >= 1 /\ (Live(s) => n <= mailbox[s].last)
    /\ \A n \in Nat : \A e, f \in Event : Uses(s, n, e) /\ Uses(s, n, f) => e = f

\* A row is written once: one that was removed stays away.  In memory a
\* subscription that stands has its mailbox once Subscribe has answered.
RowInv(s) ==
    /\ subscriber[s] \in {"idle", "create"} => s \notin subs /\ <<s, 0>> \notin lag /\ remover[s] = "idle"
    /\ remover[s] # "idle" => s \notin subs
    /\ Local /\ subscriber[s] # "done" => ~mailbox[s].there /\ \A n \in Nat, e \in Event : ~Uses(s, n, e)
    /\ Local /\ s \in subs /\ subscriber[s] = "done" => mailbox[s].there
    /\ subscriber[s] = "mailbox" => Local

\* What AtLeastOnce asks for.
Delivered(s, e) ==
    \/ \E x \in mailbox[s].entries : x.ev = e
    \/ \E n \in 1..mailbox[s].last : <<s, n, e>> \in handed

\* An emit that has not failed still has the mailbox to do, or has done it.
OweInv(e) ==
    /\ \A s \in emit[e].owed : subscriber[s] = "done"
    /\ emit[e].pc = "put" => Dynamo /\ emit[e].at \in Sub
    /\ emit[e].pc = "ok" => emit[e].todo = {} /\ ~emit[e].failed
    /\ emit[e].pc \in {"enqueue", "put", "ok"} /\ ~emit[e].failed =>
          \A s \in emit[e].owed \cap subs :
              s \in emit[e].todo \/ (emit[e].pc = "put" /\ emit[e].at = s) \/ Delivered(s, e)

\* What a stream is about to acknowledge is in the channel or was handed over.
AckInv(r) ==
    /\ stream[r].pc # "closed" => stream[r].sub \in Sub
    /\ stream[r].pc = "ack" =>
          /\ stream[r].sub \in Durable /\ \A x \in stream[r].slot : x.seq = stream[r].cursor
          /\ stream[r].slot # {} \/ \E e \in Event : <<stream[r].sub, stream[r].cursor, e>> \in handed

EventInv ==
    /\ EventType
    /\ \A s \in Sub : NumInv(s) /\ RowInv(s)
    /\ \A e \in Event : OweInv(e)
    /\ \A r \in Stream : AckInv(r)

-----------------------------------------------------------------------------
(***************************************************************************)
(* What steps leave alone.                                                 *)
(***************************************************************************)

\* No number is used anew, and the mailbox goes on counting.
LEMMA NumStays ==
    ASSUME EventType, NEW s \in Sub, NumInv(s), mailbox' \in [Sub -> Boxes],
           \A n \in Nat, e \in Event : Uses(s, n, e)' => Uses(s, n, e),
           Live(s)' => Live(s) /\ mailbox[s].last <= mailbox'[s].last
    PROVE  NumInv(s)'
    <1>1. mailbox[s].last \in Nat /\ mailbox'[s].last \in Nat
        BY DEF EventType, Boxes
    <1>2. ASSUME NEW n \in Nat, NEW e \in Event, Uses(s, n, e)'
          PROVE  n >= 1 /\ (Live(s)' => n <= mailbox'[s].last)
        <2>1. n >= 1 /\ (Live(s) => n <= mailbox[s].last)
            BY <1>2 DEF NumInv
        <2>2. ASSUME Live(s)'
              PROVE  n <= mailbox'[s].last
            <3>1. n <= mailbox[s].last /\ mailbox[s].last <= mailbox'[s].last
                BY <2>1, <2>2
            <3> QED BY <1>1, <3>1, SMTT(30)
        <2> QED BY <2>1, <2>2
    <1>3. \A n \in Nat : \A e, f \in Event : Uses(s, n, e)' /\ Uses(s, n, f)' => e = f
        BY DEF NumInv
    <1> QED BY <1>2, <1>3 DEF NumInv

\* A step that adds no row and uses no number of s leaves its row as it was.
LEMMA RowStays ==
    ASSUME NEW s \in Sub, RowInv(s), UNCHANGED provider, subscriber'[s] = subscriber[s], remover'[s] = remover[s],
           s \in subs' => s \in subs, <<s, 0>> \in lag' => <<s, 0>> \in lag, mailbox'[s].there = mailbox[s].there,
           \A n \in Nat, e \in Event : Uses(s, n, e)' => Uses(s, n, e)
    PROVE  RowInv(s)'
    BY DEF RowInv, Local

\* A step that takes no delivery back leaves what an emit owes as it was.
LEMMA OweStays ==
    ASSUME NEW e \in Event, OweInv(e), emit'[e] = emit[e], UNCHANGED provider,
           \A s \in emit[e].owed : /\ subscriber[s] = "done" => subscriber'[s] = "done"
                                   /\ s \in subs' => s \in subs /\ (Delivered(s, e) => Delivered(s, e)')
    PROVE  OweInv(e)'
    BY DEF OweInv, Dynamo

\* A step that leaves the stream's cursor alone leaves what it has acknowledged handed out.
LEMMA AckStays ==
    ASSUME NEW r \in Stream, AckInv(r), stream'[r].pc = stream[r].pc, stream'[r].sub = stream[r].sub,
           stream'[r].slot = stream[r].slot, stream'[r].cursor = stream[r].cursor, handed \subseteq handed'
    PROVE  AckInv(r)'
    BY DEF AckInv

\* A step that leaves the mailboxes, the rows and the emits alone and uses no
\* number anew.
LEMMA QuietStep ==
    ASSUME EventInv, UNCHANGED <<provider, rows, calls, emit>>, counter' \in Nat,
           stream' \in [Stream -> Streams], handed' \subseteq Sub \X Nat \X Event, handed \subseteq handed',
           \A s \in Sub, n \in Nat, e \in Event : Uses(s, n, e)' => Uses(s, n, e),
           \A r \in Stream : AckInv(r)'
    PROVE  EventInv'
    <1>1. UNCHANGED <<subs, mailbox, lag, subscriber, remover>>
        BY DEF rows, calls
    <1>2. EventType'
        BY <1>1 DEF EventInv, EventType
    <1>3. ASSUME NEW s \in Sub
          PROVE  NumInv(s)' /\ RowInv(s)'
        <2>1. NumInv(s) /\ RowInv(s) /\ EventType /\ mailbox' \in [Sub -> Boxes] /\ mailbox[s].last \in Nat
            BY <1>1 DEF EventInv, EventType, Boxes
        <2>2. Live(s)' => Live(s) /\ mailbox[s].last <= mailbox'[s].last
            <3>1. mailbox[s].last <= mailbox[s].last
                BY <2>1, SMTT(30)
            <3> QED BY <1>1, <3>1 DEF Live, Dynamo
        <2>3. NumInv(s)'
            BY <2>1, <2>2, NumStays
        <2>4. RowInv(s)'
            BY <1>1, <2>1, RowStays
        <2> QED BY <2>3, <2>4
    <1>4. ASSUME NEW e \in Event
          PROVE  OweInv(e)'
        <2>1. \A s : Delivered(s, e) => Delivered(s, e)'
            BY <1>1 DEF Delivered
        <2> QED BY <1>1, <2>1, OweStays DEF EventInv
    <1> QED BY <1>2, <1>3, <1>4 DEF EventInv

-----------------------------------------------------------------------------
(***************************************************************************)
(* Streams.                                                                *)
(***************************************************************************)

\* A stream moves on, with entries whose numbers are in use.
LEMMA StreamMove ==
    ASSUME EventInv, NEW r \in Stream, NEW k \in Streams, stream' = [stream EXCEPT ![r] = k],
           UNCHANGED <<provider, rows, calls, emit, counter, handed>>,
           k.sub \in Durable => \A x \in k.batch \cup k.slot : Uses(k.sub, x.seq, x.ev),
           k.pc # "closed" => k.sub \in Sub,
           k.pc = "ack" => /\ k.sub \in Durable /\ \A x \in k.slot : x.seq = k.cursor
                           /\ k.slot # {} \/ \E e \in Event : <<k.sub, k.cursor, e>> \in handed
    PROVE  EventInv'
    <1>1. /\ stream' \in [Stream -> Streams] /\ stream'[r] = k /\ \A q \in Stream \ {r} : stream'[q] = stream[q]
          /\ handed' \subseteq Sub \X Nat \X Event /\ counter' \in Nat
        BY DEF EventInv, EventType
    <1>2. UNCHANGED <<mailbox, emit, handed>>
        BY DEF rows
    <1>3. ASSUME NEW s \in Sub, NEW n \in Nat, NEW e \in Event, Uses(s, n, e)'
          PROVE  Uses(s, n, e)
        <2>1. CASE s \in Durable /\ \E q \in Stream : /\ stream'[q].sub = s
                          /\ \E x \in stream'[q].batch \cup stream'[q].slot : x.seq = n /\ x.ev = e
            <3>1. PICK q \in Stream : stream'[q].sub = s /\ \E x \in stream'[q].batch \cup stream'[q].slot : x.seq = n /\ x.ev = e
                BY <2>1
            <3>2. CASE q = r
                BY <1>1, <2>1, <3>1, <3>2
            <3>3. CASE q # r
                <4>1. stream'[q] = stream[q]
                    BY <1>1, <3>3
                <4> QED BY <2>1, <3>1, <4>1 DEF Uses
            <3> QED BY <3>2, <3>3
        <2> QED BY <1>2, <1>3, <2>1 DEF Uses
    <1>4. ASSUME NEW q \in Stream
          PROVE  AckInv(q)'
        <2>1. CASE q = r
            BY <1>1, <1>2, <2>1 DEF AckInv
        <2>2. CASE q # r
            BY <1>1, <1>2, <2>2, AckStays DEF EventInv
        <2> QED BY <2>1, <2>2
    <1> QED BY <1>1, <1>2, <1>3, <1>4, QuietStep

\* A stream without a client.
LEMMA ClosedFacts ==
    /\ Closed \in Streams /\ Closed.pc = "closed" /\ Closed.sub = Nobody
    /\ Closed.batch = {} /\ Closed.slot = {}
    BY SMTT(30) DEF Closed, Streams, Entry

\* What a query can see of a mailbox is in it, or was.
LEMMA BoxSeenParts ==
    ASSUME NEW s, NEW B \in BoxSeen(s)
    PROVE  B \subseteq mailbox[s].entries \cup mailbox[s].ghosts
    BY DEF BoxSeen

\* The streams' steps that read: receive, peek, wake, lag and close.
LEMMA ReadSteps ==
    ASSUME EventInv, NEW r \in Stream,
           (\E s \in Sub : Receive(r, s)) \/ Peek(r) \/ Lagged(r) \/ Wake(r) \/ Close(r)
    PROVE  EventInv'
    <1>1. EventType /\ AckInv(r) /\ stream[r] \in Streams
        BY DEF EventInv, EventType
    <1>2. UNCHANGED <<provider, rows, calls, emit, counter, handed>>
        BY DEF Receive, Peek, Lagged, Wake, Close
    <1>3. \A s \in Durable : stream[r].sub = s => \A x \in stream[r].batch \cup stream[r].slot : Uses(s, x.seq, x.ev)
        BY DEF Uses
    <1>4. ASSUME NEW s \in Sub, Receive(r, s)
          PROVE  EventInv'
        <2> DEFINE l == IF s \in Durable THEN "peek" ELSE "wait"
                   k == [Closed EXCEPT !.sub = s, !.pc = l]
        <2>1. l \in {"peek", "wait"}
            OBVIOUS
        <2>2. k \in Streams /\ k.sub = s /\ k.pc = l /\ k.batch = {} /\ k.slot = {}
            <3> HIDE DEF l
            <3> QED BY <2>1, ClosedFacts DEF Streams
        <2>3. stream' = [stream EXCEPT ![r] = k]
            BY <1>4 DEF Receive
        <2> HIDE DEF l, k
        <2> QED BY <1>2, <2>1, <2>2, <2>3, StreamMove
    <1>5. CASE Close(r)
        BY <1>2, <1>5, ClosedFacts, StreamMove DEF Close
    <1>6. CASE Peek(r)
        <2>0. PICK B \in BoxSeen(stream[r].sub) :
                  LET page == Page({x \in B : x.seq > stream[r].cursor}) IN
                  stream' = [stream EXCEPT ![r].batch = page, ![r].pc = IF page = {} THEN "wait" ELSE "send"]
            BY <1>6 DEF Peek
        <2>1. PICK page \in SUBSET B, l \in {"wait", "send"} :
                  stream' = [stream EXCEPT ![r].batch = page, ![r].pc = l] /\ stream[r].pc = "peek"
            <3> DEFINE page == Page({x \in B : x.seq > stream[r].cursor})
            <3>1. page \in SUBSET B
                BY DEF Page
            <3> HIDE DEF page
            <3> QED BY <1>6, <2>0, <3>1 DEF Peek, page
        <2> DEFINE k == [stream[r] EXCEPT !.batch = page, !.pc = l]
        <2>2. stream[r].sub \in Sub /\ page \subseteq mailbox[stream[r].sub].entries \cup mailbox[stream[r].sub].ghosts
            BY <1>1, <2>1, BoxSeenParts DEF AckInv
        <2>3. page \subseteq Entry
            BY <1>1, <2>2 DEF EventType, Boxes
        <2>4. k \in Streams /\ k.sub = stream[r].sub /\ k.pc = l /\ k.batch = page /\ k.slot = stream[r].slot
            BY <1>1, <2>3 DEF Streams
        <2>5. stream' = [stream EXCEPT ![r] = k]
            BY <2>1
        <2> HIDE DEF k
        <2>6. \A x \in page : Uses(stream[r].sub, x.seq, x.ev)
            BY <2>2 DEF Uses
        <2> QED BY <1>2, <1>3, <2>1, <2>2, <2>4, <2>5, <2>6, StreamMove
    <1>7. ASSUME NEW k \in Streams, stream' = [stream EXCEPT ![r] = k], k.sub = stream[r].sub,
                 k.batch = stream[r].batch, k.slot = stream[r].slot, k.pc # "ack", stream[r].pc # "closed"
          PROVE  EventInv'
        BY <1>1, <1>2, <1>3, <1>7, StreamMove DEF AckInv
    <1>8. CASE Lagged(r)
        <2>1. CASE IsDurable(r)
            <3> DEFINE k == [stream[r] EXCEPT !.lagged = FALSE, !.pc = "peek"]
            <3>1. /\ k \in Streams /\ k.sub = stream[r].sub /\ k.batch = stream[r].batch
                  /\ k.slot = stream[r].slot /\ k.pc = "peek"
                BY <1>1 DEF Streams
            <3>2. stream' = [stream EXCEPT ![r] = k] /\ stream[r].pc = "wait"
                BY <1>8, <2>1 DEF Lagged
            <3> HIDE DEF k
            <3> QED BY <1>7, <3>1, <3>2
        <2>2. CASE ~IsDurable(r)
            <3>1. stream' = [stream EXCEPT ![r] = Closed]
                BY <1>8, <2>2 DEF Lagged
            <3> QED BY <1>2, <3>1, ClosedFacts, StreamMove
        <2> QED BY <2>1, <2>2
    <1>9. CASE Wake(r)
        <2>1. stream[r].pc = "wait" /\ stream[r].inbox # <<>> /\ stream[r].inbox \in Seq(Event)
            BY <1>1, <1>9 DEF Wake, Streams
        <2>2. Head(stream[r].inbox) \in Event /\ Tail(stream[r].inbox) \in Seq(Event)
            BY <2>1, SMTT(30)
        <2>3. PICK e \in Event, q \in Seq(Event) : e = Head(stream[r].inbox) /\ q = Tail(stream[r].inbox)
            BY <2>2
        <2>4. ASSUME NEW l \in {"peek", "wait"}, stream' = [stream EXCEPT ![r] = [stream[r] EXCEPT !.inbox = q, !.pc = l]]
              PROVE  EventInv'
            <3> DEFINE k == [stream[r] EXCEPT !.inbox = q, !.pc = l]
            <3>1. /\ k \in Streams /\ k.sub = stream[r].sub /\ k.batch = stream[r].batch
                  /\ k.slot = stream[r].slot /\ k.pc = l
                BY <1>1 DEF Streams
            <3>2. stream' = [stream EXCEPT ![r] = k]
                BY <2>4
            <3> HIDE DEF k
            <3> QED BY <1>7, <2>1, <3>1, <3>2
        <2>5. CASE IsDurable(r)
            <3> DEFINE l == IF e \in SourceOf[stream[r].sub] THEN "peek" ELSE stream[r].pc
            <3>1. l \in {"peek", "wait"}
                BY <2>1
            <3>2. stream' = [stream EXCEPT ![r] = [stream[r] EXCEPT !.inbox = q, !.pc = l]]
                BY <1>9, <2>3, <2>5 DEF Wake
            <3> QED BY <2>4, <3>1, <3>2
        <2>6. CASE ~IsDurable(r) /\ e \in Matches[stream[r].sub]
            <3> DEFINE live == [seq |-> emit[e].num, ev |-> e]
                       k == [stream[r] EXCEPT !.inbox = q, !.batch = {live}, !.pc = "send"]
            <3>1. live \in Entry
                BY <1>1 DEF EventType, Emits, Entry
            <3>2. stream' = [stream EXCEPT ![r] = k]
                BY <1>9, <2>3, <2>6 DEF Wake
            <3> HIDE DEF live
            <3>3. k \in Streams /\ k.sub = stream[r].sub /\ k.slot = stream[r].slot /\ k.pc = "send"
                BY <1>1, <3>1 DEF Streams
            <3> HIDE DEF k
            <3> QED BY <1>1, <1>2, <2>1, <2>6, <3>2, <3>3, StreamMove DEF IsDurable, AckInv
        <2>7. CASE ~IsDurable(r) /\ e \notin Matches[stream[r].sub]
            <3> DEFINE k == [stream[r] EXCEPT !.inbox = q]
            <3>1. /\ k \in Streams /\ k.sub = stream[r].sub /\ k.batch = stream[r].batch
                  /\ k.slot = stream[r].slot /\ k.pc = stream[r].pc
                BY <1>1 DEF Streams
            <3>2. stream' = [stream EXCEPT ![r] = k]
                BY <1>9, <2>3, <2>7 DEF Wake
            <3> HIDE DEF k
            <3> QED BY <1>7, <2>1, <3>1, <3>2
        <2> QED BY <2>5, <2>6, <2>7
    <1> QED BY <1>4, <1>5, <1>6, <1>8, <1>9

\* The next event goes into the channel.
LEMMA SendStep ==
    ASSUME EventInv, NEW r \in Stream, Send(r)
    PROVE  EventInv'
    <1>1. EventType /\ AckInv(r) /\ stream[r] \in Streams /\ stream[r].pc = "send"
        BY DEF EventInv, EventType, Send
    <1>2. UNCHANGED <<provider, rows, calls, emit, counter, handed>>
        BY DEF Send
    <1>3. PICK x \in stream[r].batch :
              stream' = [stream EXCEPT ![r].slot = {x}, ![r].batch = @ \ {x},
                                       ![r].pc = IF IsDurable(r) THEN "ack" ELSE "wait",
                                       ![r].cursor = IF IsDurable(r) THEN x.seq ELSE @]
        BY DEF Send
    <1>4. x \in Entry /\ x.seq \in Nat
        BY <1>1 DEF Streams, Entry
    <1>5. PICK l \in {"ack", "wait"}, n \in Nat, b \in SUBSET Entry :
              /\ l = (IF IsDurable(r) THEN "ack" ELSE "wait") /\ n = (IF IsDurable(r) THEN x.seq ELSE stream[r].cursor)
              /\ b = stream[r].batch \ {x}
        BY <1>1, <1>4 DEF Streams
    <1> DEFINE k == [stream[r] EXCEPT !.slot = {x}, !.batch = b, !.pc = l, !.cursor = n]
    <1>6. k \in Streams /\ k.slot = {x} /\ k.batch = b /\ k.pc = l /\ k.cursor = n /\ k.sub = stream[r].sub
        BY <1>1, <1>4, <1>5 DEF Streams
    <1>7. stream' = [stream EXCEPT ![r] = k]
        BY <1>3, <1>5
    <1> HIDE DEF k
    <1>8. stream[r].sub \in Durable => \A y \in stream[r].batch : Uses(stream[r].sub, y.seq, y.ev)
        BY DEF Uses
    <1>9. k.pc = "ack" => k.sub \in Durable /\ \A y \in k.slot : y.seq = k.cursor
        BY <1>5, <1>6 DEF IsDurable
    <1> QED BY <1>1, <1>2, <1>3, <1>5, <1>6, <1>7, <1>8, <1>9, StreamMove DEF AckInv

\* The transport pulls it.
LEMMA PullStep ==
    ASSUME EventInv, NEW r \in Stream, Pull(r)
    PROVE  EventInv'
    <1>1. EventType /\ AckInv(r) /\ stream[r] \in Streams
        BY DEF EventInv, EventType
    <1>2. UNCHANGED <<provider, rows, calls, emit, counter>>
        BY DEF Pull
    <1>3. PICK x \in stream[r].slot :
              /\ stream' = [stream EXCEPT ![r].slot = {}, ![r].seen = Append(@, x)]
              /\ handed' = IF IsDurable(r) THEN handed \cup {<<stream[r].sub, x.seq, x.ev>>} ELSE handed
        BY DEF Pull
    <1>4. x \in Entry /\ x.seq \in Nat /\ x.ev \in Event /\ stream[r].seen \in Seq(Entry)
        BY <1>1 DEF Streams, Entry
    <1>5. PICK q \in Seq(Entry) : q = Append(stream[r].seen, x)
        <2>1. Append(stream[r].seen, x) \in Seq(Entry)
            BY <1>4, SMTT(30)
        <2> QED BY <2>1
    <1> DEFINE k == [stream[r] EXCEPT !.slot = {}, !.seen = q]
    <1>6. /\ k \in Streams /\ k.slot = {} /\ k.batch = stream[r].batch /\ k.pc = stream[r].pc
          /\ k.cursor = stream[r].cursor /\ k.sub = stream[r].sub
        BY <1>1 DEF Streams
    <1>7. stream' = [stream EXCEPT ![r] = k]
        BY <1>3, <1>5
    <1> HIDE DEF k
    <1>8. stream' \in [Stream -> Streams] /\ stream'[r] = k /\ \A p \in Stream \ {r} : stream'[p] = stream[p]
        BY <1>1, <1>6, <1>7 DEF EventType
    <1>9. handed' \subseteq Sub \X Nat \X Event /\ handed \subseteq handed' /\ counter' \in Nat
        <2>1. IsDurable(r) => stream[r].sub \in Sub
            BY EventAssumption DEF IsDurable
        <2>2. IsDurable(r) => <<stream[r].sub, x.seq, x.ev>> \in Sub \X Nat \X Event
            BY <1>4, <2>1
        <2> QED BY <1>1, <1>2, <1>3, <2>2 DEF EventType
    <1>10. ASSUME NEW s \in Sub, NEW n \in Nat, NEW e \in Event, Uses(s, n, e)'
           PROVE  Uses(s, n, e)
        <2>1. UNCHANGED <<mailbox, emit>>
            BY <1>2 DEF rows
        <2>2. CASE <<s, n, e>> \in handed'
            <3>1. CASE <<s, n, e>> \in handed
                BY <3>1 DEF Uses
            <3>2. CASE <<s, n, e>> \notin handed
                <4>1. IsDurable(r) /\ <<s, n, e>> = <<stream[r].sub, x.seq, x.ev>>
                    BY <1>3, <2>2, <3>2
                <4>2. s = stream[r].sub /\ n = x.seq /\ e = x.ev
                    BY <4>1
                <4> QED BY <1>3, <4>1, <4>2 DEF Uses, IsDurable
            <3> QED BY <3>1, <3>2
        <2>3. CASE s \in Durable /\ \E p \in Stream : /\ stream'[p].sub = s
                          /\ \E y \in stream'[p].batch \cup stream'[p].slot : y.seq = n /\ y.ev = e
            <3>1. PICK p \in Stream : stream'[p].sub = s /\ \E y \in stream'[p].batch \cup stream'[p].slot : y.seq = n /\ y.ev = e
                BY <2>3
            <3>2. stream[p].sub = stream'[p].sub /\ stream'[p].batch \cup stream'[p].slot \subseteq stream[p].batch \cup stream[p].slot
                <4>1. CASE p = r
                    BY <1>6, <1>8, <4>1
                <4>2. CASE p # r
                    BY <1>8, <4>2
                <4> QED BY <4>1, <4>2
            <3> QED BY <2>3, <3>1, <3>2 DEF Uses
        <2> QED BY <1>10, <2>1, <2>2, <2>3 DEF Uses
    <1>11. ASSUME NEW p \in Stream
           PROVE  AckInv(p)'
        <2>1. CASE p = r
            <3>1. stream[r].pc = "ack" => IsDurable(r) /\ x.seq = stream[r].cursor
                BY <1>1, <1>3 DEF AckInv, IsDurable
            <3>2. stream[r].pc = "ack" => <<stream[r].sub, stream[r].cursor, x.ev>> \in handed'
                BY <1>3, <3>1
            <3> QED BY <1>1, <1>4, <1>6, <1>8, <2>1, <3>2 DEF AckInv
        <2>2. CASE p # r
            BY <1>8, <1>9, <2>2, AckStays DEF EventInv
        <2> QED BY <2>1, <2>2
    <1> QED BY <1>2, <1>8, <1>9, <1>10, <1>11, QuietStep

-----------------------------------------------------------------------------
(***************************************************************************)
(* Mailboxes.                                                              *)
(***************************************************************************)

\* Entries are deleted, and may still be read for a while.
LEMMA DeleteFacts ==
    ASSUME EventType, NEW s \in Sub, NEW X, X \subseteq mailbox[s].entries \cup mailbox[s].ghosts,
           \A x \in X : x.seq >= 1, NEW there \in BOOLEAN, Delete(s, X, there)
    PROVE  /\ mailbox' \in [Sub -> Boxes] /\ \A t \in Sub \ {s} : mailbox'[t] = mailbox[t]
           /\ mailbox'[s].there = there /\ mailbox'[s].last = mailbox[s].last
           /\ mailbox'[s].entries = mailbox[s].entries \ X /\ mailbox'[s].ghosts \subseteq mailbox[s].ghosts \cup X
           /\ \A t \in Sub : <<t, 0>> \in lag' => <<t, 0>> \in lag
    <1>1. mailbox[s] \in Boxes /\ mailbox[s].entries \subseteq Entry /\ mailbox[s].ghosts \subseteq Entry
        BY DEF EventType, Boxes
    <1>2. PICK g : g = {x \in mailbox[s].ghosts \cup X : <<s, x.seq>> \in lag'}
        OBVIOUS
    <1>3. g \subseteq Entry /\ g \subseteq mailbox[s].ghosts \cup X
        BY <1>1, <1>2
    <1> DEFINE k == [mailbox[s] EXCEPT !.there = there, !.entries = @ \ X, !.ghosts = g]
    <1>4. /\ k \in Boxes /\ k.there = there /\ k.last = mailbox[s].last
          /\ k.entries = mailbox[s].entries \ X /\ k.ghosts = g
        BY <1>1, <1>3 DEF Boxes
    <1>5. mailbox' = [mailbox EXCEPT ![s] = k]
        BY <1>2 DEF Delete
    <1> HIDE DEF k
    <1>6. mailbox' \in [Sub -> Boxes] /\ mailbox'[s] = k /\ \A t \in Sub \ {s} : mailbox'[t] = mailbox[t]
        BY <1>4, <1>5 DEF EventType
    <1>7. ASSUME NEW t \in Sub, <<t, 0>> \in lag'
          PROVE  <<t, 0>> \in lag
        <2>1. lag' \subseteq lag \cup {<<s, x.seq>> : x \in X}
            BY DEF Delete, Written
        <2>2. \A x \in X : <<t, 0>> # <<s, x.seq>>
            <3>1. ASSUME NEW x \in X, <<t, 0>> = <<s, x.seq>>
                  PROVE  FALSE
                <4>1. x.seq = 0 /\ x.seq >= 1
                    BY <3>1
                <4> QED BY <4>1, SMTT(30)
            <3> QED BY <3>1
        <2> QED BY <1>7, <2>1, <2>2
    <1> QED BY <1>3, <1>4, <1>6, <1>7

\* Deleting uses no number anew.
LEMMA DeleteKeepsNumbers ==
    ASSUME EventInv, NEW s \in Sub, NEW X, X \subseteq mailbox[s].entries \cup mailbox[s].ghosts,
           NEW there \in BOOLEAN, there => mailbox[s].there, Delete(s, X, there),
           UNCHANGED <<provider, emit, handed>>,
           \A r \in Stream : /\ stream'[r].sub = stream[r].sub /\ stream'[r].batch = stream[r].batch
                             /\ stream'[r].slot = stream[r].slot
    PROVE  /\ mailbox' \in [Sub -> Boxes] /\ \A t \in Sub \ {s} : mailbox'[t] = mailbox[t]
           /\ mailbox'[s].there = there /\ mailbox'[s].last = mailbox[s].last
           /\ mailbox'[s].entries = mailbox[s].entries \ X
           /\ \A t \in Sub : <<t, 0>> \in lag' => <<t, 0>> \in lag
           /\ \A t \in Sub, n \in Nat, e \in Event : Uses(t, n, e)' => Uses(t, n, e)
           /\ \A t \in Sub : NumInv(t)'
    <1>1. EventType /\ mailbox[s] \in Boxes
        BY DEF EventInv, EventType
    <1>2. ASSUME NEW x \in X
          PROVE  x.seq >= 1
        <2>1. x \in mailbox[s].entries \cup mailbox[s].ghosts /\ x.seq \in Nat /\ x.ev \in Event
            BY <1>1 DEF Boxes, Entry
        <2>2. Uses(s, x.seq, x.ev)
            BY <2>1 DEF Uses
        <2> QED BY <2>1, <2>2 DEF EventInv, NumInv
    <1>3. /\ mailbox' \in [Sub -> Boxes] /\ \A t \in Sub \ {s} : mailbox'[t] = mailbox[t]
          /\ mailbox'[s].there = there /\ mailbox'[s].last = mailbox[s].last
          /\ mailbox'[s].entries = mailbox[s].entries \ X /\ mailbox'[s].ghosts \subseteq mailbox[s].ghosts \cup X
          /\ \A t \in Sub : <<t, 0>> \in lag' => <<t, 0>> \in lag
        BY <1>1, <1>2, DeleteFacts
    <1>4. ASSUME NEW t \in Sub
          PROVE  mailbox'[t].entries \cup mailbox'[t].ghosts \subseteq mailbox[t].entries \cup mailbox[t].ghosts
        <2>1. CASE t = s
            BY <1>3, <2>1
        <2>2. CASE t # s
            BY <1>3, <2>2
        <2> QED BY <2>1, <2>2
    <1>5. ASSUME NEW t \in Sub, NEW n \in Nat, NEW e \in Event, Uses(t, n, e)'
          PROVE  Uses(t, n, e)
        <2>1. CASE \E x \in mailbox'[t].entries \cup mailbox'[t].ghosts : x.seq = n /\ x.ev = e
            BY <1>4, <2>1 DEF Uses
        <2>2. CASE t \in Durable /\ \E r \in Stream : /\ stream'[r].sub = t
                          /\ \E x \in stream'[r].batch \cup stream'[r].slot : x.seq = n /\ x.ev = e
            BY <2>2 DEF Uses
        <2> QED BY <1>5, <2>1, <2>2 DEF Uses
    <1>6. ASSUME NEW t \in Sub
          PROVE  NumInv(t)'
        <2>1. mailbox'[t].last = mailbox[t].last /\ mailbox[t].last \in Nat /\ (mailbox'[t].there => mailbox[t].there)
            <3>1. mailbox[t].last \in Nat
                BY <1>1 DEF EventType, Boxes
            <3>2. CASE t = s
                BY <1>3, <3>1, <3>2
            <3>3. CASE t # s
                BY <1>3, <3>1, <3>3
            <3> QED BY <3>2, <3>3
        <2>2. mailbox[t].last <= mailbox'[t].last
            BY <2>1, SMTT(30)
        <2>3. Live(t)' => Live(t)
            BY <2>1 DEF Live, Dynamo
        <2> QED BY <1>1, <1>3, <1>5, <2>2, <2>3, NumStays DEF EventInv
    <1> QED BY <1>3, <1>5, <1>6

\* Only an event that was handed over is acknowledged.
LEMMA AckStep ==
    ASSUME EventInv, NEW r \in Stream, Ack(r)
    PROVE  EventInv'
    <1> DEFINE s == stream[r].sub
               n == stream[r].cursor
               X == {x \in mailbox[s].entries : x.seq = n}
               l == IF stream[r].batch = {} THEN "peek" ELSE "send"
               k == [stream[r] EXCEPT !.pc = l]
    <1>1. EventType /\ AckInv(r) /\ stream[r] \in Streams /\ stream[r].pc = "ack" /\ stream[r].slot = {}
        BY DEF EventInv, EventType, Ack
    <1>2. PICK f \in Event : <<s, n, f>> \in handed
        BY <1>1 DEF AckInv
    <1>3. s \in Sub /\ n \in Nat
        BY <1>1 DEF AckInv, Streams
    <1>4. Delete(s, X, mailbox[s].there) /\ UNCHANGED <<provider, subs, calls, counter, emit, handed>>
        BY DEF Ack, Acked
    <1>5. UNCHANGED <<subscriber, remover>>
        BY <1>4 DEF calls
    <1>6. /\ k \in Streams /\ k.sub = stream[r].sub /\ k.batch = stream[r].batch /\ k.slot = stream[r].slot
          /\ k.pc \in {"peek", "send"}
        BY <1>1 DEF Streams
    <1>7. stream' = [stream EXCEPT ![r] = k]
        BY DEF Ack, Acked
    <1> HIDE DEF k, l
    <1>8. stream' \in [Stream -> Streams] /\ stream'[r] = k /\ \A q \in Stream \ {r} : stream'[q] = stream[q]
        BY <1>1, <1>6, <1>7 DEF EventType
    <1>9. \A q \in Stream : /\ stream'[q].sub = stream[q].sub /\ stream'[q].batch = stream[q].batch
                            /\ stream'[q].slot = stream[q].slot
        BY <1>6, <1>8
    <1>10. mailbox[s].there \in BOOLEAN /\ X \subseteq mailbox[s].entries \cup mailbox[s].ghosts
        BY <1>1, <1>3 DEF EventType, Boxes
    <1> HIDE DEF X, s, n
    <1>11. /\ mailbox' \in [Sub -> Boxes] /\ \A t \in Sub \ {s} : mailbox'[t] = mailbox[t]
           /\ mailbox'[s].there = mailbox[s].there /\ mailbox'[s].last = mailbox[s].last
           /\ mailbox'[s].entries = mailbox[s].entries \ X
           /\ \A t \in Sub : <<t, 0>> \in lag' => <<t, 0>> \in lag
           /\ \A t \in Sub, i \in Nat, e \in Event : Uses(t, i, e)' => Uses(t, i, e)
           /\ \A t \in Sub : NumInv(t)'
        BY <1>3, <1>4, <1>9, <1>10, DeleteKeepsNumbers
    <1>12. EventType'
        BY <1>1, <1>4, <1>5, <1>8, <1>11 DEF EventType
    <1>13. ASSUME NEW t \in Sub
           PROVE  RowInv(t)'
        <2>1. mailbox'[t].there = mailbox[t].there
            BY <1>11
        <2> QED BY <1>4, <1>5, <1>11, <2>1, RowStays DEF EventInv
    <1>14. ASSUME NEW e \in Event
           PROVE  OweInv(e)'
        <2>1. ASSUME NEW t \in emit[e].owed, t \in subs, Delivered(t, e)
              PROVE  Delivered(t, e)'
            <3>1. CASE t # s
                <4>1. t \in Sub
                    BY <1>1, <2>1 DEF EventType
                <4>2. mailbox'[t] = mailbox[t]
                    BY <1>11, <3>1, <4>1
                <4> QED BY <1>4, <2>1, <4>2 DEF Delivered
            <3>2. CASE t = s /\ \E x \in X : x.ev = e
                <4>1. PICK x \in mailbox[s].entries : x.seq = n /\ x.ev = e
                    BY <3>2 DEF X
                <4>2. Uses(s, n, e) /\ Uses(s, n, f)
                    BY <1>2, <4>1 DEF Uses
                <4>3. f = e
                    BY <1>3, <4>2 DEF EventInv, NumInv
                <4>4. subscriber[s] = "done" /\ s \in subs
                    BY <2>1, <3>2 DEF EventInv, OweInv
                <4>5. Live(s)
                    BY <1>1, <1>3, <4>4 DEF EventInv, EventType, RowInv, Live, Local, Dynamo
                <4>6. n >= 1 /\ n <= mailbox[s].last /\ mailbox[s].last \in Nat
                    BY <1>1, <1>3, <4>2, <4>5 DEF EventInv, NumInv, EventType, Boxes
                <4>7. n \in 1..mailbox'[s].last
                    BY <1>3, <1>11, <4>6, SMTT(30)
                <4> QED BY <1>2, <1>4, <3>2, <4>3, <4>7 DEF Delivered
            <3>3. CASE t = s /\ \A x \in X : x.ev # e
                BY <1>4, <1>11, <2>1, <3>3 DEF Delivered
            <3> QED BY <3>1, <3>2, <3>3
        <2> QED BY <1>4, <1>5, <2>1, OweStays DEF EventInv
    <1>15. ASSUME NEW q \in Stream
           PROVE  AckInv(q)'
        <2>1. CASE q = r
            BY <1>3, <1>6, <1>8, <2>1 DEF AckInv, s
        <2>2. CASE q # r
            BY <1>4, <1>8, <2>2, AckStays DEF EventInv
        <2> QED BY <2>1, <2>2
    <1> QED BY <1>11, <1>12, <1>13, <1>14, <1>15 DEF EventInv

\* A mailbox that is drained belongs to a row that is gone.
LEMMA DrainSteps ==
    ASSUME EventInv, NEW s \in Sub, DrainMailbox(s) \/ DrainFails(s)
    PROVE  EventInv'
    <1>1. EventType /\ remover[s] # "idle"
        BY DEF EventInv, DrainMailbox, DrainFails
    <1>2. s \notin subs /\ subscriber[s] \notin {"idle", "create"}
        BY <1>1 DEF EventInv, RowInv
    <1>3. UNCHANGED <<provider, subs, subscriber, counter, emit, stream, handed>> /\ remover' = [remover EXCEPT ![s] = "idle"]
        BY DEF DrainMailbox, DrainFails
    <1>4. PICK X : X \subseteq mailbox[s].entries \cup mailbox[s].ghosts /\ Delete(s, X, FALSE)
        <2>1. CASE DrainMailbox(s)
            BY <2>1, BoxSeenParts DEF DrainMailbox
        <2>2. CASE DrainFails(s)
            BY <2>2 DEF DrainFails
        <2> QED BY <2>1, <2>2
    <1>5. /\ mailbox' \in [Sub -> Boxes] /\ \A t \in Sub \ {s} : mailbox'[t] = mailbox[t]
          /\ mailbox'[s].there = FALSE
          /\ \A t \in Sub : <<t, 0>> \in lag' => <<t, 0>> \in lag
          /\ \A t \in Sub, n \in Nat, e \in Event : Uses(t, n, e)' => Uses(t, n, e)
          /\ \A t \in Sub : NumInv(t)'
        BY <1>3, <1>4, DeleteKeepsNumbers
    <1>6. EventType'
        BY <1>1, <1>3, <1>5 DEF EventType
    <1>7. ASSUME NEW t \in Sub
          PROVE  RowInv(t)'
        <2>1. CASE t = s
            BY <1>1, <1>2, <1>3, <1>5, <2>1 DEF EventInv, RowInv, Local
        <2>2. CASE t # s
            <3>1. remover'[t] = remover[t]
                BY <1>1, <1>3, <2>2 DEF EventType
            <3> QED BY <1>3, <1>5, <2>2, <3>1, RowStays DEF EventInv
        <2> QED BY <2>1, <2>2
    <1>8. ASSUME NEW e \in Event
          PROVE  OweInv(e)'
        <2>1. ASSUME NEW t \in emit[e].owed, t \in subs, Delivered(t, e)
              PROVE  Delivered(t, e)'
            <3>1. t \in Sub \ {s}
                BY <1>1, <1>2, <2>1 DEF EventType
            <3> QED BY <1>3, <1>5, <2>1, <3>1 DEF Delivered
        <2> QED BY <1>3, <2>1, OweStays DEF EventInv
    <1>9. \A q \in Stream : AckInv(q)'
        BY <1>3, AckStays DEF EventInv
    <1> QED BY <1>5, <1>6, <1>7, <1>8, <1>9 DEF EventInv

-----------------------------------------------------------------------------
(***************************************************************************)
(* Emits.                                                                  *)
(***************************************************************************)

\* An emit moves on and writes nothing.
LEMMA EmitMove ==
    ASSUME EventInv, NEW e \in Event, NEW k \in Emits, k.pc # "put", emit' = [emit EXCEPT ![e] = k],
           UNCHANGED <<provider, rows, calls, handed>>, counter' \in Nat, stream' \in [Stream -> Streams],
           \A r \in Stream : /\ stream'[r].pc = stream[r].pc /\ stream'[r].sub = stream[r].sub
                             /\ stream'[r].batch = stream[r].batch /\ stream'[r].slot = stream[r].slot
                             /\ stream'[r].cursor = stream[r].cursor,
           OweInv(e)'
    PROVE  EventInv'
    <1>1. UNCHANGED <<subs, mailbox, lag, subscriber, remover>> /\ EventType
        BY DEF rows, calls, EventInv
    <1>2. emit' \in [Event -> Emits] /\ emit'[e] = k /\ \A f \in Event \ {e} : emit'[f] = emit[f]
        BY <1>1 DEF EventType
    <1>3. EventType'
        BY <1>1, <1>2 DEF EventType
    <1>4. ASSUME NEW s \in Sub, NEW n \in Nat, NEW f \in Event, Uses(s, n, f)'
          PROVE  Uses(s, n, f)
        <2>1. CASE s \in Durable /\ \E r \in Stream : /\ stream'[r].sub = s
                          /\ \E x \in stream'[r].batch \cup stream'[r].slot : x.seq = n /\ x.ev = f
            BY <2>1 DEF Uses
        <2>2. CASE emit'[f].pc = "put" /\ emit'[f].at = s /\ emit'[f].seq = n
            <3>1. f # e
                BY <1>2, <2>2
            <3> QED BY <1>2, <2>2, <3>1 DEF Uses
        <2> QED BY <1>1, <1>4, <2>1, <2>2 DEF Uses
    <1>5. ASSUME NEW s \in Sub
          PROVE  NumInv(s)' /\ RowInv(s)'
        <2>1. NumInv(s) /\ RowInv(s) /\ mailbox' \in [Sub -> Boxes] /\ mailbox[s].last \in Nat
            BY <1>1, <1>3 DEF EventInv, EventType, Boxes
        <2>2. mailbox[s].last <= mailbox'[s].last
            BY <1>1, <2>1, SMTT(30)
        <2>3. Live(s)' => Live(s)
            BY <1>1 DEF Live, Dynamo
        <2>4. NumInv(s)'
            BY <1>1, <1>4, <2>1, <2>2, <2>3, NumStays
        <2>5. RowInv(s)'
            BY <1>1, <1>4, <2>1, RowStays
        <2> QED BY <2>4, <2>5
    <1>6. ASSUME NEW f \in Event
          PROVE  OweInv(f)'
        <2>1. CASE f = e
            BY <2>1
        <2>2. CASE f # e
            <3>1. \A s : Delivered(s, f) => Delivered(s, f)'
                BY <1>1 DEF Delivered
            <3> QED BY <1>1, <1>2, <2>2, <3>1, OweStays DEF EventInv
        <2> QED BY <2>1, <2>2
    <1>7. \A r \in Stream : AckInv(r)'
        BY AckStays DEF EventInv
    <1> QED BY <1>3, <1>5, <1>6, <1>7 DEF EventInv

\* An emit call that owes nothing yet.
LEMMA IdleEmitFacts ==
    IdleEmit \in Emits /\ IdleEmit.owed = {} /\ IdleEmit.todo = {} /\ IdleEmit.pc = "idle"
    BY SMTT(30) DEF IdleEmit, Emits

\* The event is numbered and the durable registrations are listed.
LEMMA EmitStartStep ==
    ASSUME EventInv, NEW e \in Event, EmitStart(e)
    PROVE  EventInv'
    <1>1. EventType
        BY DEF EventInv
    <1>2. PICK S \in SubsSeen :
              emit' = [emit EXCEPT ![e] = [IdleEmit EXCEPT
                          !.pc = "enqueue", !.num = counter + 1, !.todo = {s \in S \cap Durable : e \in Matches[s]},
                          !.owed = {s \in {t \in S \cap Durable : e \in Matches[t]} : subscriber[s] = "done"}]]
        BY DEF EmitStart
    <1>3. UNCHANGED <<provider, rows, calls, stream, handed>> /\ counter' = counter + 1
        BY DEF EmitStart
    <1>4. counter' \in Nat /\ counter + 1 \in Nat
        BY <1>1, <1>3, SMTT(30) DEF EventType
    <1>5. PICK due \in SUBSET Sub : due = {s \in S \cap Durable : e \in Matches[s]}
        BY DEF SubsSeen
    <1>6. PICK owed : owed = {s \in due : subscriber[s] = "done"}
        OBVIOUS
    <1> DEFINE k == [IdleEmit EXCEPT !.pc = "enqueue", !.num = counter + 1, !.todo = due, !.owed = owed]
    <1>7. k \in Emits /\ k.pc = "enqueue" /\ k.todo = due /\ k.owed = owed
        BY <1>4, <1>5, <1>6, IdleEmitFacts DEF Emits
    <1>8. emit' = [emit EXCEPT ![e] = k]
        BY <1>2, <1>5, <1>6
    <1> HIDE DEF k
    <1>9. emit'[e] = k
        BY <1>1, <1>8 DEF EventType
    <1>10. OweInv(e)'
        BY <1>3, <1>6, <1>7, <1>9 DEF OweInv, calls
    <1>11. stream' \in [Stream -> Streams]
        BY <1>1, <1>3 DEF EventType
    <1> QED BY <1>3, <1>4, <1>7, <1>8, <1>10, <1>11, EmitMove

\* A mailbox that cannot be written, and a call that is dropped: the emit
\* will not answer Ok.
LEMMA EmitFailSteps ==
    ASSUME EventInv, NEW e \in Event, EnqueueFails(e) \/ EmitEnds(e)
    PROVE  EventInv'
    <1>1. EventType /\ emit[e] \in Emits /\ OweInv(e)
        BY DEF EventInv, EventType
    <1>2. UNCHANGED <<provider, rows, calls, counter, stream, handed>>
        BY DEF EnqueueFails, EmitEnds
    <1>3. PICK k \in Emits : /\ emit' = [emit EXCEPT ![e] = k] /\ k.owed \subseteq emit[e].owed
                             /\ (k.pc = "enqueue" /\ k.failed) \/ k.pc = "err"
        <2>1. CASE EnqueueFails(e) /\ emit[e].pc = "put"
            <3>1. emit' = [emit EXCEPT ![e].pc = "enqueue", ![e].at = Nobody, ![e].seq = 0, ![e].failed = TRUE]
                BY <2>1 DEF EnqueueFails
            <3> DEFINE k == [emit[e] EXCEPT !.pc = "enqueue", !.at = Nobody, !.seq = 0, !.failed = TRUE]
            <3>2. k \in Emits /\ k.pc = "enqueue" /\ k.failed /\ k.owed = emit[e].owed
                <4>1. 0 \in Nat
                    BY SMTT(30)
                <4> QED BY <1>1, <4>1 DEF Emits
            <3>3. emit' = [emit EXCEPT ![e] = k]
                BY <3>1
            <3> QED BY <3>2, <3>3
        <2>2. CASE EnqueueFails(e) /\ emit[e].pc # "put"
            <3>1. PICK s \in emit[e].todo : emit' = [emit EXCEPT ![e].todo = @ \ {s}, ![e].failed = TRUE]
                BY <2>2 DEF EnqueueFails
            <3>2. emit[e].pc = "enqueue"
                BY <2>2 DEF EnqueueFails
            <3> DEFINE k == [emit[e] EXCEPT !.todo = @ \ {s}, !.failed = TRUE]
            <3>3. k \in Emits /\ k.pc = "enqueue" /\ k.failed /\ k.owed = emit[e].owed
                BY <1>1, <3>2 DEF Emits
            <3>4. emit' = [emit EXCEPT ![e] = k]
                BY <3>1
            <3> QED BY <3>3, <3>4
        <2>3. CASE EmitEnds(e)
            <3>1. emit' = [emit EXCEPT ![e] = [IdleEmit EXCEPT !.pc = "err", !.num = emit[e].num]]
                BY <2>3 DEF EmitEnds
            <3> DEFINE k == [IdleEmit EXCEPT !.pc = "err", !.num = emit[e].num]
            <3>2. k \in Emits /\ k.pc = "err" /\ k.owed = {}
                BY <1>1, IdleEmitFacts DEF Emits
            <3> QED BY <3>1, <3>2
        <2> QED BY <2>1, <2>2, <2>3
    <1>4. emit'[e] = k
        BY <1>1, <1>3 DEF EventType
    <1>5. OweInv(e)'
        <2>1. \A s \in emit'[e].owed : subscriber'[s] = "done"
            BY <1>1, <1>2, <1>3, <1>4 DEF OweInv, calls
        <2>2. CASE k.pc = "enqueue" /\ k.failed
            BY <1>4, <2>1, <2>2 DEF OweInv
        <2>3. CASE k.pc = "err"
            BY <1>4, <2>1, <2>3 DEF OweInv
        <2> QED BY <1>3, <2>2, <2>3
    <1>6. stream' \in [Stream -> Streams] /\ counter' \in Nat /\ k.pc # "put"
        BY <1>1, <1>2, <1>3 DEF EventType
    <1> QED BY <1>2, <1>3, <1>5, <1>6, EmitMove

\* The streams are woken, and the emit answers.
LEMMA EmitBroadcastStep ==
    ASSUME EventInv, NEW e \in Event, EmitBroadcast(e)
    PROVE  EventInv'
    <1>1. /\ EventType /\ emit[e] \in Emits /\ OweInv(e) /\ emit[e].pc = "enqueue" /\ emit[e].todo = {}
          /\ UNCHANGED <<provider, rows, calls, counter, handed>>
        BY DEF EventInv, EventType, EmitBroadcast
    <1> DEFINE l == IF emit[e].failed THEN "err" ELSE "ok"
               k == [emit[e] EXCEPT !.pc = l]
    <1>2. /\ k \in Emits /\ k.pc = l /\ k.todo = {} /\ k.owed = emit[e].owed /\ k.failed = emit[e].failed
          /\ k.pc \in {"ok", "err"} /\ (k.pc = "ok" => ~k.failed)
        BY <1>1 DEF Emits
    <1>3. emit' = [emit EXCEPT ![e] = k]
        BY DEF EmitBroadcast, EGoto
    <1> HIDE DEF k, l
    <1>4. emit'[e] = k
        BY <1>1, <1>3 DEF EventType
    <1>5. ASSUME NEW r \in Stream
          PROVE  /\ Hear(stream[r], e) \in Streams /\ Hear(stream[r], e).pc = stream[r].pc
                 /\ Hear(stream[r], e).sub = stream[r].sub /\ Hear(stream[r], e).batch = stream[r].batch
                 /\ Hear(stream[r], e).slot = stream[r].slot /\ Hear(stream[r], e).cursor = stream[r].cursor
        <2> DEFINE q == stream[r]
        <2>1. q \in Streams
            BY <1>1 DEF EventType
        <2>2. CASE q.pc = "closed"
            BY <2>1, <2>2 DEF Hear
        <2>3. CASE q.pc # "closed"
            <3>1. q.inbox \in Seq(Event) /\ q.due \in Seq(Event)
                BY <2>1 DEF Streams
            <3>2. Append(q.inbox, e) \in Seq(Event) /\ Append(q.due, e) \in Seq(Event)
                BY <3>1, SMTT(30)
            <3>3. ~(Len(q.inbox) < Capacity) => Append(Tail(q.inbox), e) \in Seq(Event)
                <4>1. Capacity \in Nat /\ Capacity >= 1
                    BY EventAssumption, SMTT(30)
                <4>2. ~(Len(q.inbox) < Capacity) => q.inbox # <<>>
                    BY <3>1, <4>1, SMTT(30)
                <4> QED BY <3>1, <4>2, SMTT(30)
            <3>4. PICK i \in Seq(Event) : i = IF Len(q.inbox) < Capacity THEN Append(q.inbox, e) ELSE Append(Tail(q.inbox), e)
                BY <3>2, <3>3
            <3>5. PICK d \in Seq(Event) : d = IF q.sub \notin Durable /\ e \in Matches[q.sub] THEN Append(q.due, e) ELSE q.due
                BY <3>1, <3>2
            <3>6. PICK g \in BOOLEAN : g = (q.lagged \/ Len(q.inbox) = Capacity)
                OBVIOUS
            <3>7. Hear(q, e) = [q EXCEPT !.inbox = i, !.lagged = g, !.due = d]
                BY <2>3, <3>4, <3>5, <3>6 DEF Hear
            <3> HIDE DEF q
            <3>8. /\ [q EXCEPT !.inbox = i, !.lagged = g, !.due = d] \in Streams
                  /\ [q EXCEPT !.inbox = i, !.lagged = g, !.due = d].pc = q.pc
                  /\ [q EXCEPT !.inbox = i, !.lagged = g, !.due = d].sub = q.sub
                  /\ [q EXCEPT !.inbox = i, !.lagged = g, !.due = d].batch = q.batch
                  /\ [q EXCEPT !.inbox = i, !.lagged = g, !.due = d].slot = q.slot
                  /\ [q EXCEPT !.inbox = i, !.lagged = g, !.due = d].cursor = q.cursor
                BY <2>1 DEF Streams
            <3> QED BY <3>7, <3>8 DEF q
        <2> QED BY <2>2, <2>3
    <1>6. stream' = [r \in Stream |-> Hear(stream[r], e)]
        BY DEF EmitBroadcast
    <1>7. /\ stream' \in [Stream -> Streams]
          /\ \A r \in Stream : /\ stream'[r].pc = stream[r].pc /\ stream'[r].sub = stream[r].sub
                               /\ stream'[r].batch = stream[r].batch /\ stream'[r].slot = stream[r].slot
                               /\ stream'[r].cursor = stream[r].cursor
        BY <1>5, <1>6
    <1>8. OweInv(e)'
        <2>1. \A s : Delivered(s, e) => Delivered(s, e)'
            BY <1>1 DEF Delivered, rows
        <2>2. k.pc = "ok" => \A s \in emit[e].owed \cap subs : Delivered(s, e)
            BY <1>1, <1>2 DEF OweInv
        <2> QED BY <1>1, <1>2, <1>4, <2>1, <2>2 DEF OweInv, calls, rows
    <1>9. counter' \in Nat /\ k.pc # "put"
        BY <1>1, <1>2 DEF EventType
    <1> QED BY <1>1, <1>2, <1>3, <1>7, <1>8, <1>9, EmitMove

\* A mailbox takes an entry or allocates a number, for one emit.
LEMMA MailboxGrows ==
    ASSUME EventInv, NEW s \in Sub, NEW e \in Event, NEW k \in Emits, emit' = [emit EXCEPT ![e] = k],
           mailbox' \in [Sub -> Boxes], \A t \in Sub \ {s} : mailbox'[t] = mailbox[t],
           mailbox'[s].there = mailbox[s].there, mailbox[s].last <= mailbox'[s].last,
           mailbox[s].entries \subseteq mailbox'[s].entries,
           UNCHANGED <<provider, subs, calls, counter, stream, handed>>,
           \A t \in Sub : <<t, 0>> \in lag' => <<t, 0>> \in lag,
           \A t \in Sub : NumInv(t)', Dynamo \/ subscriber[s] = "done",
           \A t \in Sub \ {s}, n \in Nat, f \in Event : Uses(t, n, f)' => Uses(t, n, f),
           k.owed = emit[e].owed, k.failed = emit[e].failed, k.pc = "put" => Dynamo /\ k.at \in Sub, k.pc # "ok",
           k.pc \in {"enqueue", "put"} => emit[e].pc \in {"enqueue", "put"},
           \A t \in emit[e].owed \cap subs :
               t \in emit[e].todo \/ (emit[e].pc = "put" /\ emit[e].at = t) =>
                   t \in k.todo \/ (k.pc = "put" /\ k.at = t) \/ Delivered(t, e)'
    PROVE  EventInv'
    <1>1. UNCHANGED <<subscriber, remover>> /\ EventType
        BY DEF calls, EventInv
    <1>2. emit' \in [Event -> Emits] /\ emit'[e] = k /\ \A f \in Event \ {e} : emit'[f] = emit[f]
        BY <1>1 DEF EventType
    <1>3. EventType'
        BY <1>1, <1>2 DEF EventType
    <1>4. ASSUME NEW t \in Sub
          PROVE  RowInv(t)'
        <2>1. CASE t = s
            <3>1. ~(Local /\ subscriber[s] # "done")
                BY DEF Local, Dynamo
            <3> QED BY <1>1, <2>1, <3>1 DEF EventInv, RowInv, Local
        <2>2. CASE t # s
            BY <1>1, <2>2, RowStays DEF EventInv
        <2> QED BY <2>1, <2>2
    <1>5. ASSUME NEW t \in Sub, NEW f \in Event, Delivered(t, f)
          PROVE  Delivered(t, f)'
        <2>1. CASE t = s
            <3>1. mailbox[s].last \in Nat /\ mailbox'[s].last \in Nat
                BY <1>1 DEF EventType, Boxes
            <3>2. 1..mailbox[s].last \subseteq 1..mailbox'[s].last
                BY <3>1, SMTT(30)
            <3> QED BY <1>5, <2>1, <3>2 DEF Delivered
        <2>2. CASE t # s
            <3>1. mailbox'[t] = mailbox[t]
                BY <2>2
            <3> QED BY <1>5, <3>1 DEF Delivered
        <2> QED BY <2>1, <2>2
    <1>6. ASSUME NEW f \in Event
          PROVE  OweInv(f)'
        <2>1. emit[f].owed \subseteq Sub /\ OweInv(f)
            BY <1>1 DEF EventType, Emits, EventInv
        <2>2. CASE f = e
            <3>1. \A t \in k.owed : subscriber'[t] = "done"
                BY <1>1, <2>1, <2>2 DEF OweInv
            <3>2. ASSUME k.pc \in {"enqueue", "put"}, ~k.failed, NEW t \in k.owed \cap subs'
                  PROVE  t \in k.todo \/ (k.pc = "put" /\ k.at = t) \/ Delivered(t, e)'
                <4>1. t \in emit[e].todo \/ (emit[e].pc = "put" /\ emit[e].at = t) \/ Delivered(t, e)
                    BY <2>1, <2>2, <3>2 DEF OweInv
                <4>2. t \in emit[e].owed \cap subs /\ t \in Sub
                    BY <2>1, <2>2, <3>2
                <4> QED BY <1>5, <4>1, <4>2
            <3>3. k.pc = "put" => Dynamo'
                BY DEF Dynamo
            <3> QED BY <1>2, <2>2, <3>1, <3>2, <3>3 DEF OweInv
        <2>3. CASE f # e
            BY <1>1, <1>2, <1>5, <2>1, <2>3, OweStays
        <2> QED BY <2>2, <2>3
    <1>7. \A q \in Stream : AckInv(q)'
        BY AckStays DEF EventInv
    <1> QED BY <1>3, <1>4, <1>6, <1>7 DEF EventInv

\* A number is allocated: it is new, and the mailbox remembers it.
LEMMA NewNumber ==
    ASSUME EventType, NEW s \in Sub, NEW e \in Event, NumInv(s), Live(s), mailbox' \in [Sub -> Boxes],
           mailbox'[s].last = mailbox[s].last + 1,
           \A n \in Nat, f \in Event : Uses(s, n, f)' => Uses(s, n, f) \/ (n = mailbox[s].last + 1 /\ f = e)
    PROVE  NumInv(s)'
    <1> DEFINE m == mailbox[s].last
    <1>1. m \in Nat /\ mailbox'[s].last = m + 1
        BY DEF EventType, Boxes
    <1>2. ASSUME NEW n \in Nat, NEW f \in Event, Uses(s, n, f)
          PROVE  n >= 1 /\ n <= m /\ n # m + 1
        <2>1. n >= 1 /\ n <= m
            BY <1>2 DEF NumInv
        <2> HIDE DEF m
        <2> QED BY <1>1, <2>1, SMTT(30)
    <1>3. \A n \in Nat, f \in Event : Uses(s, n, f)' => Uses(s, n, f) \/ (n = m + 1 /\ f = e)
        OBVIOUS
    <1> HIDE DEF m
    <1>4. ASSUME NEW n \in Nat, NEW f \in Event, Uses(s, n, f)'
          PROVE  n >= 1 /\ n <= mailbox'[s].last
        <2>1. n = m + 1 \/ (n >= 1 /\ n <= m)
            BY <1>2, <1>3, <1>4
        <2> QED BY <1>1, <2>1, SMTT(30)
    <1>5. ASSUME NEW n \in Nat, NEW f \in Event, NEW g \in Event, Uses(s, n, f)', Uses(s, n, g)'
          PROVE  f = g
        <2>1. CASE n = m + 1
            BY <1>2, <1>3, <1>5, <2>1
        <2>2. CASE n # m + 1
            <3>1. Uses(s, n, f) /\ Uses(s, n, g)
                BY <1>3, <1>5, <2>2
            <3> QED BY <3>1 DEF NumInv
        <2> QED BY <2>1, <2>2
    <1> QED BY <1>4, <1>5 DEF NumInv

\* Another registration's numbers.
LEMMA OtherNumbers ==
    ASSUME EventInv, NEW t \in Sub, mailbox' \in [Sub -> Boxes], mailbox'[t] = mailbox[t], UNCHANGED provider,
           \A n \in Nat, f \in Event : Uses(t, n, f)' => Uses(t, n, f)
    PROVE  NumInv(t)'
    <1>1. EventType /\ NumInv(t) /\ mailbox[t].last \in Nat
        BY DEF EventInv, EventType, Boxes
    <1>2. mailbox[t].last <= mailbox'[t].last
        BY <1>1, SMTT(30)
    <1>3. Live(t)' => Live(t)
        BY DEF Live, Dynamo
    <1> QED BY <1>1, <1>2, <1>3, NumStays

\* In memory the entry and its number are one step; a mailbox that is gone
\* belongs to a subscription that is gone.
LEMMA EnqueueStep ==
    ASSUME EventInv, NEW e \in Event, NEW s \in Sub, Enqueue(e, s)
    PROVE  EventInv'
    <1>1. /\ EventType /\ emit[e] \in Emits /\ OweInv(e) /\ mailbox[s] \in Boxes /\ mailbox[s].last \in Nat
          /\ emit[e].pc = "enqueue" /\ Local /\ UNCHANGED <<provider, subs, lag, calls, counter, stream, handed>>
        BY DEF EventInv, EventType, Enqueue, Boxes
    <1> DEFINE k == [emit[e] EXCEPT !.todo = @ \ {s}]
    <1>2. /\ k \in Emits /\ k.pc = "enqueue" /\ k.todo = emit[e].todo \ {s} /\ k.owed = emit[e].owed
          /\ k.failed = emit[e].failed
        BY <1>1 DEF Emits
    <1>3. emit' = [emit EXCEPT ![e] = k]
        BY DEF Enqueue
    <1> HIDE DEF k
    <1>4. emit'[e] = k /\ \A f \in Event \ {e} : emit'[f] = emit[f]
        BY <1>1, <1>3 DEF EventType
    <1>5. CASE ~mailbox[s].there
        <2>1. UNCHANGED mailbox
            BY <1>5 DEF Enqueue
        <2>2. s \notin emit[e].owed \cap subs
            BY <1>1, <1>5 DEF EventInv, RowInv, OweInv
        <2>3. \A t : Delivered(t, e) => Delivered(t, e)'
            BY <1>1, <2>1 DEF Delivered
        <2>4. OweInv(e)'
            BY <1>1, <1>2, <1>4, <2>2, <2>3 DEF OweInv, calls
        <2> QED BY <1>1, <1>2, <1>3, <2>1, <2>4, EmitMove DEF EventType, rows
    <1>6. CASE mailbox[s].there
        <2> DEFINE x == [seq |-> mailbox[s].last + 1, ev |-> e]
                   b == [mailbox[s] EXCEPT !.last = mailbox[s].last + 1, !.entries = @ \cup {x}]
        <2>1. mailbox[s].last + 1 \in Nat
            BY <1>1, SMTT(30)
        <2>2. x \in Entry /\ x.seq = mailbox[s].last + 1 /\ x.ev = e
            BY <2>1 DEF Entry
        <2>3. mailbox' = [mailbox EXCEPT ![s] = b]
            BY <1>6 DEF Enqueue, Put
        <2> HIDE DEF x
        <2>4. /\ b \in Boxes /\ b.there = mailbox[s].there /\ b.last = mailbox[s].last + 1
              /\ b.entries = mailbox[s].entries \cup {x} /\ b.ghosts = mailbox[s].ghosts
            BY <1>1, <2>1, <2>2 DEF Boxes
        <2> HIDE DEF b
        <2>5. mailbox' \in [Sub -> Boxes] /\ mailbox'[s] = b /\ \A t \in Sub \ {s} : mailbox'[t] = mailbox[t]
            BY <1>1, <2>3, <2>4 DEF EventType
        <2>6. mailbox[s].last <= mailbox'[s].last
            BY <1>1, <2>4, <2>5, SMTT(30)
        <2>7. ASSUME NEW t \in Sub, NEW n \in Nat, NEW f \in Event, Uses(t, n, f)'
              PROVE  Uses(t, n, f) \/ (t = s /\ n = mailbox[s].last + 1 /\ f = e)
            <3>1. CASE emit'[f].pc = "put" /\ emit'[f].at = t /\ emit'[f].seq = n
                <4>1. f # e
                    BY <1>2, <1>4, <3>1
                <4> QED BY <1>4, <3>1, <4>1 DEF Uses
            <3>2. CASE \E y \in mailbox'[t].entries \cup mailbox'[t].ghosts : y.seq = n /\ y.ev = f
                <4>1. PICK y \in mailbox'[t].entries \cup mailbox'[t].ghosts : y.seq = n /\ y.ev = f
                    BY <3>2
                <4>2. CASE y \in mailbox[t].entries \cup mailbox[t].ghosts
                    BY <4>1, <4>2 DEF Uses
                <4>3. CASE y \notin mailbox[t].entries \cup mailbox[t].ghosts
                    <5>1. t = s
                        BY <2>5, <4>1, <4>3
                    <5>2. y = x
                        BY <2>4, <2>5, <4>1, <4>3, <5>1
                    <5> QED BY <2>2, <4>1, <5>1, <5>2
                <4> QED BY <4>2, <4>3
            <3> QED BY <1>1, <2>7, <3>1, <3>2 DEF Uses
        <2>8. ASSUME NEW t \in Sub
              PROVE  NumInv(t)'
            <3>1. CASE t = s
                <4>1. Live(s) /\ NumInv(s)
                    BY <1>6 DEF Live, EventInv
                <4> QED BY <1>1, <2>4, <2>5, <2>7, <3>1, <4>1, NewNumber
            <3>2. CASE t # s
                BY <1>1, <2>5, <2>7, <3>2, OtherNumbers
            <3> QED BY <3>1, <3>2
        <2>9. subscriber[s] = "done"
            BY <1>1, <1>6 DEF EventInv, RowInv
        <2>10. Delivered(s, e)'
            BY <2>2, <2>4, <2>5 DEF Delivered
        <2>11. /\ mailbox'[s].there = mailbox[s].there /\ mailbox[s].entries \subseteq mailbox'[s].entries
               /\ k.pc # "ok" /\ k.pc # "put" /\ emit[e].pc \in {"enqueue", "put"}
               /\ \A t \in emit[e].owed \cap subs :
                    t \in emit[e].todo \/ (emit[e].pc = "put" /\ emit[e].at = t) => t \in k.todo \/ Delivered(t, e)'
            BY <1>1, <1>2, <2>4, <2>5, <2>10
        <2> QED BY <1>1, <1>2, <1>3, <2>5, <2>6, <2>7, <2>8, <2>9, <2>11, MailboxGrows
    <1> QED BY <1>5, <1>6

\* In DynamoDB the number comes from the subscription's row ...
LEMMA EnqueueAllocateStep ==
    ASSUME EventInv, NEW e \in Event, NEW s \in Sub, EnqueueAllocate(e, s)
    PROVE  EventInv'
    <1>1. /\ EventType /\ emit[e] \in Emits /\ OweInv(e) /\ mailbox[s] \in Boxes /\ mailbox[s].last \in Nat
          /\ emit[e].pc = "enqueue" /\ Dynamo /\ UNCHANGED <<provider, subs, lag, calls, counter, stream, handed>>
        BY DEF EventInv, EventType, EnqueueAllocate, Boxes
    <1>2. CASE s \notin subs
        <2> DEFINE k == [emit[e] EXCEPT !.todo = @ \ {s}]
        <2>1. /\ k \in Emits /\ k.pc = "enqueue" /\ k.todo = emit[e].todo \ {s} /\ k.owed = emit[e].owed
              /\ k.failed = emit[e].failed
            BY <1>1 DEF Emits
        <2>2. emit' = [emit EXCEPT ![e] = k] /\ UNCHANGED mailbox
            BY <1>2 DEF EnqueueAllocate
        <2> HIDE DEF k
        <2>3. emit'[e] = k
            BY <1>1, <2>2 DEF EventType
        <2>4. \A t : Delivered(t, e) => Delivered(t, e)'
            BY <1>1, <2>2 DEF Delivered
        <2>5. OweInv(e)'
            BY <1>1, <1>2, <2>1, <2>3, <2>4 DEF OweInv, calls
        <2> QED BY <1>1, <2>1, <2>2, <2>5, EmitMove DEF EventType, rows
    <1>3. CASE s \in subs
        <2>1. mailbox[s].last + 1 \in Nat
            BY <1>1, SMTT(30)
        <2> DEFINE k == [emit[e] EXCEPT !.todo = @ \ {s}, !.pc = "put", !.at = s, !.seq = mailbox[s].last + 1]
                   b == [mailbox[s] EXCEPT !.last = mailbox[s].last + 1]
        <2>2. /\ k \in Emits /\ k.pc = "put" /\ k.at = s /\ k.seq = mailbox[s].last + 1
              /\ k.todo = emit[e].todo \ {s} /\ k.owed = emit[e].owed /\ k.failed = emit[e].failed
            BY <1>1, <2>1 DEF Emits
        <2>3. /\ b \in Boxes /\ b.there = mailbox[s].there /\ b.last = mailbox[s].last + 1
              /\ b.entries = mailbox[s].entries /\ b.ghosts = mailbox[s].ghosts
            BY <1>1, <2>1 DEF Boxes
        <2>4. emit' = [emit EXCEPT ![e] = k] /\ mailbox' = [mailbox EXCEPT ![s] = b]
            BY <1>3 DEF EnqueueAllocate
        <2> HIDE DEF k, b
        <2>5. mailbox' \in [Sub -> Boxes] /\ mailbox'[s] = b /\ \A t \in Sub \ {s} : mailbox'[t] = mailbox[t]
            BY <1>1, <2>3, <2>4 DEF EventType
        <2>6. mailbox[s].last <= mailbox'[s].last
            BY <1>1, <2>3, <2>5, SMTT(30)
        <2>7. emit'[e] = k /\ \A f \in Event \ {e} : emit'[f] = emit[f]
            BY <1>1, <2>4 DEF EventType
        <2>8. ASSUME NEW t \in Sub, NEW n \in Nat, NEW f \in Event, Uses(t, n, f)'
              PROVE  Uses(t, n, f) \/ (t = s /\ n = mailbox[s].last + 1 /\ f = e)
            <3>1. CASE emit'[f].pc = "put" /\ emit'[f].at = t /\ emit'[f].seq = n
                <4>1. CASE f = e
                    BY <2>2, <2>7, <3>1, <4>1
                <4>2. CASE f # e
                    BY <2>7, <3>1, <4>2 DEF Uses
                <4> QED BY <4>1, <4>2
            <3>2. mailbox'[t].entries = mailbox[t].entries /\ mailbox'[t].ghosts = mailbox[t].ghosts
                BY <2>3, <2>5
            <3> QED BY <1>1, <2>8, <3>1, <3>2 DEF Uses
        <2>9. ASSUME NEW t \in Sub
              PROVE  NumInv(t)'
            <3>1. CASE t = s
                <4>1. Live(s) /\ NumInv(s)
                    BY <1>1 DEF Live, EventInv
                <4> QED BY <1>1, <2>3, <2>5, <2>8, <3>1, <4>1, NewNumber
            <3>2. CASE t # s
                BY <1>1, <2>5, <2>8, <3>2, OtherNumbers
            <3> QED BY <3>1, <3>2
        <2>10. /\ mailbox'[s].there = mailbox[s].there /\ mailbox[s].entries \subseteq mailbox'[s].entries
               /\ k.pc # "ok" /\ k.at \in Sub /\ emit[e].pc \in {"enqueue", "put"}
               /\ \A t \in emit[e].owed \cap subs :
                    t \in emit[e].todo \/ (emit[e].pc = "put" /\ emit[e].at = t) => t \in k.todo \/ (k.pc = "put" /\ k.at = t)
            BY <1>1, <2>2, <2>3, <2>5
        <2>11. /\ \A t \in Sub \ {s}, n \in Nat, f \in Event : Uses(t, n, f)' => Uses(t, n, f)
               /\ \A t \in Sub : <<t, 0>> \in lag' => <<t, 0>> \in lag
            BY <1>1, <2>8
        <2>12. \A t \in emit[e].owed \cap subs :
                  t \in emit[e].todo \/ (emit[e].pc = "put" /\ emit[e].at = t) =>
                      t \in k.todo \/ (k.pc = "put" /\ k.at = t) \/ Delivered(t, e)'
            BY <2>10
        <2> QED BY <1>1, <2>2, <2>4, <2>5, <2>6, <2>9, <2>10, <2>11, <2>12, MailboxGrows
    <1> QED BY <1>2, <1>3

\* ... and the entry is put under it afterwards.
LEMMA EnqueuePutStep ==
    ASSUME EventInv, NEW e \in Event, EnqueuePut(e)
    PROVE  EventInv'
    <1>0. PICK s \in Sub, i \in Nat : s = emit[e].at /\ i = emit[e].seq
        BY DEF EventInv, EventType, Emits, EnqueuePut, OweInv
    <1> DEFINE x == [seq |-> i, ev |-> e]
               k == [emit[e] EXCEPT !.pc = "enqueue", !.at = Nobody, !.seq = 0]
               b == [mailbox[s] EXCEPT !.entries = @ \cup {x}]
    <1>1. /\ EventType /\ emit[e] \in Emits /\ OweInv(e) /\ emit[e].pc = "put" /\ s \in Sub /\ Dynamo
          /\ UNCHANGED <<provider, subs, calls, counter, stream, handed>> /\ Written({<<s, i>>})
        BY <1>0 DEF EventInv, EventType, EnqueuePut, OweInv
    <1>2. mailbox[s] \in Boxes /\ mailbox[s].last \in Nat /\ i \in Nat
        BY <1>1 DEF EventType, Boxes, Emits
    <1>3. x \in Entry /\ x.seq = i /\ x.ev = e
        BY <1>2 DEF Entry
    <1>4. 0 \in Nat
        BY SMTT(30)
    <1>5. /\ k \in Emits /\ k.pc = "enqueue" /\ k.todo = emit[e].todo /\ k.owed = emit[e].owed
          /\ k.failed = emit[e].failed
        BY <1>1, <1>4 DEF Emits
    <1>6. emit' = [emit EXCEPT ![e] = k] /\ mailbox' = [mailbox EXCEPT ![s] = b]
        BY <1>0 DEF EnqueuePut
    <1> HIDE DEF x
    <1>7. /\ b \in Boxes /\ b.there = mailbox[s].there /\ b.last = mailbox[s].last
          /\ b.entries = mailbox[s].entries \cup {x} /\ b.ghosts = mailbox[s].ghosts
        BY <1>2, <1>3 DEF Boxes
    <1> HIDE DEF k, b
    <1>8. mailbox' \in [Sub -> Boxes] /\ mailbox'[s] = b /\ \A t \in Sub \ {s} : mailbox'[t] = mailbox[t]
        BY <1>1, <1>6, <1>7 DEF EventType
    <1>9. mailbox[s].last <= mailbox'[s].last
        BY <1>2, <1>7, <1>8, SMTT(30)
    <1>10. emit'[e] = k /\ \A f \in Event \ {e} : emit'[f] = emit[f]
        BY <1>1, <1>6 DEF EventType
    <1>11. Uses(s, i, e)
        BY <1>0, <1>1 DEF Uses
    <1>12. ASSUME NEW t \in Sub, NEW n \in Nat, NEW f \in Event, Uses(t, n, f)'
           PROVE  Uses(t, n, f)
        <2>1. CASE emit'[f].pc = "put" /\ emit'[f].at = t /\ emit'[f].seq = n
            <3>1. f # e
                BY <1>5, <1>10, <2>1
            <3> QED BY <1>10, <2>1, <3>1 DEF Uses
        <2>2. CASE \E y \in mailbox'[t].entries \cup mailbox'[t].ghosts : y.seq = n /\ y.ev = f
            <3>1. PICK y \in mailbox'[t].entries \cup mailbox'[t].ghosts : y.seq = n /\ y.ev = f
                BY <2>2
            <3>2. CASE y \in mailbox[t].entries \cup mailbox[t].ghosts
                BY <3>1, <3>2 DEF Uses
            <3>3. CASE y \notin mailbox[t].entries \cup mailbox[t].ghosts
                <4>1. t = s
                    BY <1>8, <3>1, <3>3
                <4>2. y = x
                    BY <1>7, <1>8, <3>1, <3>3, <4>1
                <4> QED BY <1>3, <1>11, <3>1, <4>1, <4>2
            <3> QED BY <3>2, <3>3
        <2> QED BY <1>1, <1>12, <2>1, <2>2 DEF Uses
    <1>13. ASSUME NEW t \in Sub
           PROVE  NumInv(t)'
        <2>1. CASE t = s
            <3>1. Live(s)' => Live(s)
                BY <1>1 DEF Live
            <3> QED BY <1>1, <1>8, <1>9, <1>12, <2>1, <3>1, NumStays DEF EventInv
        <2>2. CASE t # s
            BY <1>1, <1>8, <1>12, <2>2, OtherNumbers
        <2> QED BY <2>1, <2>2
    <1>14. ASSUME NEW t \in Sub, <<t, 0>> \in lag'
           PROVE  <<t, 0>> \in lag
        <2>1. lag' \subseteq lag \cup {<<s, i>>}
            BY <1>1 DEF Written
        <2>2. i >= 1
            BY <1>1, <1>2, <1>11 DEF EventInv, NumInv
        <2>3. i # 0
            BY <1>2, <2>2, SMTT(30)
        <2>4. <<t, 0>> # <<s, i>>
            BY <2>3
        <2> QED BY <1>14, <2>1, <2>4
    <1>15. Delivered(s, e)'
        BY <1>3, <1>7, <1>8 DEF Delivered
    <1>16. /\ mailbox'[s].there = mailbox[s].there /\ mailbox[s].entries \subseteq mailbox'[s].entries
           /\ k.pc # "ok" /\ k.pc # "put" /\ emit[e].pc \in {"enqueue", "put"}
           /\ \A t \in emit[e].owed \cap subs :
                 t \in emit[e].todo \/ (emit[e].pc = "put" /\ emit[e].at = t) => t \in k.todo \/ Delivered(t, e)'
        BY <1>0, <1>1, <1>5, <1>7, <1>8, <1>15
    <1> QED BY <1>1, <1>5, <1>6, <1>8, <1>9, <1>12, <1>13, <1>14, <1>16, MailboxGrows

-----------------------------------------------------------------------------
(***************************************************************************)
(* Subscriptions.                                                          *)
(***************************************************************************)

\* A call on one registration moves on: no event is owed to one whose
\* Subscribe has not answered, and nothing is lost of one whose has.
LEMMA CallMove ==
    ASSUME EventInv, NEW s \in Sub, NEW a \in {"idle", "create", "mailbox", "done"},
           NEW c \in {"idle", "reclaim", "cancel"},
           subscriber' = [subscriber EXCEPT ![s] = a], remover' = [remover EXCEPT ![s] = c],
           UNCHANGED <<provider, counter, emit, stream, handed>>, subs' \subseteq Sub,
           mailbox' \in [Sub -> Boxes], \A t \in Sub \ {s} : mailbox'[t] = mailbox[t],
           \A t \in Sub \ {s} : (t \in subs' => t \in subs) /\ (<<t, 0>> \in lag' => <<t, 0>> \in lag),
           \A n \in Nat, e \in Event : Uses(s, n, e)' => Uses(s, n, e),
           NumInv(s)', RowInv(s)',
           subscriber[s] = "done" => a = "done" /\ (s \in subs' => s \in subs) /\ mailbox'[s] = mailbox[s]
    PROVE  EventInv'
    <1>1. /\ EventType /\ subscriber'[s] = a
          /\ \A t \in Sub \ {s} : subscriber'[t] = subscriber[t] /\ remover'[t] = remover[t]
        BY DEF EventInv, EventType
    <1>2. EventType'
        BY <1>1 DEF EventType
    <1>3. ASSUME NEW t \in Sub
          PROVE  NumInv(t)' /\ RowInv(t)'
        <2>1. CASE t = s
            BY <2>1
        <2>2. CASE t # s
            <3>1. \A n \in Nat, e \in Event : Uses(t, n, e)' => Uses(t, n, e)
                BY <2>2 DEF Uses
            <3>2. NumInv(t)'
                BY <2>2, <3>1, OtherNumbers
            <3>3. RowInv(t)'
                BY <1>1, <2>2, <3>1, RowStays DEF EventInv
            <3> QED BY <3>2, <3>3
        <2> QED BY <2>1, <2>2
    <1>4. ASSUME NEW e \in Event
          PROVE  OweInv(e)'
        <2>1. ASSUME NEW t \in emit[e].owed
              PROVE  /\ subscriber'[t] = "done" /\ (t \in subs' => t \in subs)
                     /\ Delivered(t, e) => Delivered(t, e)'
            <3>1. t \in Sub /\ subscriber[t] = "done"
                BY <1>1 DEF EventInv, EventType, Emits, OweInv
            <3>2. mailbox'[t] = mailbox[t] /\ subscriber'[t] = "done" /\ (t \in subs' => t \in subs)
                BY <1>1, <3>1
            <3> QED BY <3>2 DEF Delivered
        <2> QED BY <2>1, OweStays DEF EventInv
    <1>5. \A r \in Stream : AckInv(r)'
        BY AckStays DEF EventInv
    <1> QED BY <1>2, <1>3, <1>4, <1>5 DEF EventInv

\* ... in particular one that leaves the mailboxes alone.
LEMMA CallOnly ==
    ASSUME EventInv, NEW s \in Sub, UNCHANGED <<provider, mailbox, emit, stream, handed>>
    PROVE  /\ mailbox' \in [Sub -> Boxes] /\ NumInv(s)' /\ NumInv(s) /\ RowInv(s) /\ EventType
           /\ \A n \in Nat, e \in Event : Uses(s, n, e)' => Uses(s, n, e)
    <1>1. EventType /\ mailbox' \in [Sub -> Boxes] /\ NumInv(s) /\ RowInv(s)
        BY DEF EventInv, EventType
    <1>2. \A n \in Nat, e \in Event : Uses(s, n, e)' => Uses(s, n, e)
        BY DEF Uses
    <1> QED BY <1>1, <1>2, OtherNumbers

\* A write to one subscription's row leaves the others as they were.
LEMMA OtherRows ==
    ASSUME NEW s \in Sub, Written({<<s, 0>>})
    PROVE  \A t \in Sub \ {s} : <<t, 0>> \in lag' => <<t, 0>> \in lag
    <1>1. ASSUME NEW t \in Sub \ {s}, <<t, 0>> \in lag'
          PROVE  <<t, 0>> \in lag
        <2>1. <<t, 0>> # <<s, 0>>
            BY <1>1
        <2> QED BY <1>1, <2>1 DEF Written
    <1> QED BY <1>1

\* No mailbox.
LEMMA NoBoxFacts ==
    NoBox \in Boxes /\ NoBox.there = FALSE /\ NoBox.entries = {} /\ NoBox.ghosts = {} /\ NoBox.last = 0
    BY SMTT(30) DEF Boxes, NoBox

\* Subscribe takes the lease, then writes the row or fails.
LEMMA SubscribeSteps ==
    ASSUME EventInv, NEW s \in Sub, Subscribe(s) \/ CreateSubscription(s) \/ CreateFails(s)
    PROVE  EventInv'
    <1>1. UNCHANGED <<provider, mailbox, remover, counter, emit, stream, handed>>
        BY DEF Subscribe, CreateSubscription, CreateFails, rows
    <1>2. /\ mailbox' \in [Sub -> Boxes] /\ NumInv(s)' /\ RowInv(s) /\ EventType
          /\ \A n \in Nat, e \in Event : Uses(s, n, e)' => Uses(s, n, e)
        BY <1>1, CallOnly
    <1>3. subscriber[s] \in {"idle", "create"} /\ remover[s] = "idle" /\ s \notin subs /\ <<s, 0>> \notin lag
        BY <1>2 DEF Subscribe, CreateSubscription, CreateFails, RowInv
    <1>4. remover' = [remover EXCEPT ![s] = "idle"]
        BY <1>1, <1>2, <1>3 DEF EventType
    <1>5. CASE Subscribe(s)
        <2>1. subscriber' = [subscriber EXCEPT ![s] = "create"] /\ UNCHANGED <<subs, lag>>
            BY <1>5 DEF Subscribe, rows
        <2>2. subscriber'[s] = "create"
            BY <1>2, <2>1 DEF EventType
        <2>3. RowInv(s)'
            BY <1>1, <1>2, <1>3, <2>1, <2>2 DEF RowInv, Local
        <2> QED BY <1>1, <1>2, <1>3, <1>4, <2>1, <2>3, CallMove DEF EventType
    <1>6. CASE CreateFails(s)
        <2>1. subscriber' = [subscriber EXCEPT ![s] = "done"] /\ UNCHANGED <<subs, lag>> /\ Dynamo
            BY <1>6 DEF CreateFails, rows
        <2>2. subscriber'[s] = "done"
            BY <1>2, <2>1 DEF EventType
        <2>3. RowInv(s)'
            BY <1>1, <1>2, <1>3, <2>1, <2>2 DEF RowInv, Local
        <2> QED BY <1>1, <1>2, <1>3, <1>4, <2>1, <2>3, CallMove DEF EventType
    <1>7. CASE CreateSubscription(s)
        <2>1. PICK a \in {"mailbox", "done"} : a = IF Local THEN "mailbox" ELSE "done"
            OBVIOUS
        <2>2. subscriber' = [subscriber EXCEPT ![s] = a] /\ subs' = subs \cup {s} /\ Written({<<s, 0>>})
            BY <1>7, <2>1 DEF CreateSubscription
        <2>3. subscriber'[s] = a
            BY <1>2, <2>2 DEF EventType
        <2>4. \A t \in Sub \ {s} : (t \in subs' => t \in subs) /\ (<<t, 0>> \in lag' => <<t, 0>> \in lag)
            BY <2>2, OtherRows
        <2>5. RowInv(s)'
            BY <1>1, <1>2, <1>3, <2>1, <2>2, <2>3 DEF RowInv, Local
        <2>6. subs' \subseteq Sub
            BY <1>2, <2>2 DEF EventType
        <2> QED BY <1>1, <1>2, <1>3, <1>4, <2>1, <2>2, <2>4, <2>5, <2>6, CallMove
    <1> QED BY <1>5, <1>6, <1>7

\* In memory the mailbox is empty and new when Subscribe answers.
LEMMA CreateMailboxStep ==
    ASSUME EventInv, NEW s \in Sub, CreateMailbox(s)
    PROVE  EventInv'
    <1>1. /\ EventType /\ NumInv(s) /\ RowInv(s) /\ subscriber[s] = "mailbox"
          /\ UNCHANGED <<provider, subs, lag, remover, counter, emit, stream, handed>>
          /\ subscriber' = [subscriber EXCEPT ![s] = "done"]
        BY DEF EventInv, CreateMailbox
    <1>2. Local /\ \A n \in Nat, e \in Event : ~Uses(s, n, e)
        BY <1>1 DEF RowInv
    <1> DEFINE b == [NoBox EXCEPT !.there = TRUE]
    <1>3. b \in Boxes /\ b.there = TRUE /\ b.entries = {} /\ b.ghosts = {} /\ b.last = 0
        BY NoBoxFacts DEF Boxes
    <1>4. mailbox' = [mailbox EXCEPT ![s] = b]
        BY DEF CreateMailbox
    <1> HIDE DEF b
    <1>5. mailbox' \in [Sub -> Boxes] /\ mailbox'[s] = b /\ \A t \in Sub \ {s} : mailbox'[t] = mailbox[t]
        BY <1>1, <1>3, <1>4 DEF EventType
    <1>6. \A n \in Nat, e \in Event : Uses(s, n, e)' => Uses(s, n, e)
        BY <1>1, <1>3, <1>5 DEF Uses
    <1>7. NumInv(s)'
        BY <1>2, <1>6 DEF NumInv
    <1>8. subscriber'[s] = "done"
        BY <1>1 DEF EventType
    <1>9. RowInv(s)'
        BY <1>1, <1>3, <1>5, <1>8 DEF RowInv
    <1>10. remover' = [remover EXCEPT ![s] = remover[s]] /\ remover[s] \in {"idle", "reclaim", "cancel"}
        BY <1>1 DEF EventType
    <1> QED BY <1>1, <1>5, <1>6, <1>7, <1>9, <1>10, CallMove DEF EventType

\* A row that is removed was written, and is not written again.
LEMMA RemoveSteps ==
    ASSUME EventInv, NEW s \in Sub, Cascade(s) \/ Sweep(s) \/ CancelSubscription(s)
    PROVE  EventInv'
    <1>1. PICK why \in {"reclaim", "cancel"} : RemoveRow(s, why) /\ \E S \in SubsSeen : s \in S
        BY DEF Cascade, Sweep, CancelSubscription, RemoveByLease
    <1>2. /\ UNCHANGED <<provider, mailbox, subscriber, counter, emit, stream, handed>>
          /\ subs' = subs \ {s} /\ Written({<<s, 0>>}) /\ remover' = [remover EXCEPT ![s] = why]
        BY <1>1 DEF RemoveRow
    <1>3. /\ mailbox' \in [Sub -> Boxes] /\ NumInv(s)' /\ RowInv(s) /\ EventType
          /\ \A n \in Nat, e \in Event : Uses(s, n, e)' => Uses(s, n, e)
        BY <1>2, CallOnly
    <1>4. s \in subs \/ <<s, 0>> \in lag
        BY <1>1 DEF SubsSeen
    <1>5. subscriber[s] \notin {"idle", "create"}
        BY <1>3, <1>4 DEF RowInv
    <1>6. RowInv(s)'
        BY <1>2, <1>3, <1>5 DEF RowInv, Local
    <1>7. \A t \in Sub \ {s} : (t \in subs' => t \in subs) /\ (<<t, 0>> \in lag' => <<t, 0>> \in lag)
        BY <1>2, OtherRows
    <1>8. /\ subs' \subseteq Sub /\ subscriber' = [subscriber EXCEPT ![s] = subscriber[s]]
          /\ subscriber[s] \in {"idle", "create", "mailbox", "done"}
        BY <1>2, <1>3 DEF EventType
    <1> QED BY <1>2, <1>3, <1>6, <1>7, <1>8, CallMove

-----------------------------------------------------------------------------
(***************************************************************************)
(* Replicas and restarts.                                                  *)
(***************************************************************************)

\* A write reaches every replica.
LEMMA SettleStep ==
    ASSUME EventInv, NEW k \in lag, Settle(k)
    PROVE  EventInv'
    <1>1. /\ EventType /\ UNCHANGED <<provider, subs, calls, counter, emit, stream, handed>> /\ lag' \subseteq lag
          /\ mailbox' = [mailbox EXCEPT ![k[1]].ghosts = {x \in @ : x.seq # k[2]}]
        BY DEF EventInv, Settle
    <1>2. UNCHANGED <<subscriber, remover>>
        BY <1>1 DEF calls
    <1>3. ASSUME NEW t \in Sub
          PROVE  /\ mailbox'[t] \in Boxes /\ mailbox'[t].there = mailbox[t].there /\ mailbox'[t].last = mailbox[t].last
                 /\ mailbox'[t].entries = mailbox[t].entries /\ mailbox'[t].ghosts \subseteq mailbox[t].ghosts
        <2>1. mailbox[t] \in Boxes /\ DOMAIN mailbox = Sub
            BY <1>1 DEF EventType
        <2>2. CASE t = k[1]
            <3> DEFINE b == [mailbox[t] EXCEPT !.ghosts = {x \in @ : x.seq # k[2]}]
            <3>1. mailbox'[t] = b
                BY <1>1, <2>1, <2>2
            <3>2. /\ b \in Boxes /\ b.there = mailbox[t].there /\ b.last = mailbox[t].last
                  /\ b.entries = mailbox[t].entries /\ b.ghosts \subseteq mailbox[t].ghosts
                BY <2>1 DEF Boxes
            <3> QED BY <3>1, <3>2
        <2>3. CASE t # k[1]
            <3>1. mailbox'[t] = mailbox[t]
                BY <1>1, <2>1, <2>3
            <3> QED BY <2>1, <3>1
        <2> QED BY <2>2, <2>3
    <1>4. mailbox' \in [Sub -> Boxes]
        BY <1>1, <1>3 DEF EventType
    <1>5. EventType'
        BY <1>1, <1>2, <1>4 DEF EventType
    <1>6. ASSUME NEW t \in Sub, NEW n \in Nat, NEW e \in Event, Uses(t, n, e)'
          PROVE  Uses(t, n, e)
        <2>1. CASE \E x \in mailbox'[t].entries \cup mailbox'[t].ghosts : x.seq = n /\ x.ev = e
            <3>1. mailbox'[t].entries \cup mailbox'[t].ghosts \subseteq mailbox[t].entries \cup mailbox[t].ghosts
                BY <1>3
            <3> QED BY <2>1, <3>1 DEF Uses
        <2> QED BY <1>1, <1>6, <2>1 DEF Uses
    <1>7. ASSUME NEW t \in Sub
          PROVE  NumInv(t)' /\ RowInv(t)'
        <2>1. mailbox[t].last \in Nat /\ mailbox'[t].last = mailbox[t].last
            BY <1>1, <1>3 DEF EventType, Boxes
        <2>2. mailbox[t].last <= mailbox'[t].last
            BY <2>1, SMTT(30)
        <2>3. Live(t)' => Live(t)
            BY <1>1, <1>3 DEF Live, Dynamo
        <2>4. NumInv(t)'
            BY <1>1, <1>4, <1>6, <2>2, <2>3, NumStays DEF EventInv
        <2>5. RowInv(t)'
            BY <1>1, <1>2, <1>3, <1>6, RowStays DEF EventInv
        <2> QED BY <2>4, <2>5
    <1>8. ASSUME NEW e \in Event
          PROVE  OweInv(e)'
        <2>1. emit[e].owed \subseteq Sub
            BY <1>1 DEF EventType, Emits
        <2>2. \A t \in Sub : Delivered(t, e) => Delivered(t, e)'
            BY <1>1, <1>3 DEF Delivered
        <2> QED BY <1>1, <1>2, <2>1, <2>2, OweStays DEF EventInv
    <1>9. \A r \in Stream : AckInv(r)'
        BY <1>1, AckStays DEF EventInv
    <1> QED BY <1>5, <1>7, <1>8, <1>9 DEF EventInv

\* A restart ends what was going on; in memory nothing is left, and over
\* DynamoDB the rows and the mailboxes go on.
LEMMA RestartStep ==
    ASSUME EventInv, Restart
    PROVE  EventInv'
    <1>1. /\ EventType /\ UNCHANGED <<provider, lag, handed>> /\ counter' = 0
          /\ stream' = [r \in Stream |-> Closed] /\ remover' = [s \in Sub |-> "idle"]
          /\ subscriber' = [s \in Sub |-> IF subscriber[s] = "idle" THEN "idle" ELSE "done"]
          /\ emit' = [e \in Event |-> IF emit[e].pc \in {"idle", "ok", "err"} THEN emit[e]
                                      ELSE [IdleEmit EXCEPT !.pc = "err"]]
        BY DEF EventInv, Restart
    <1>2. /\ Local => subs' = {} /\ mailbox' = [s \in Sub |-> NoBox]
          /\ ~Local => UNCHANGED <<subs, mailbox>>
        BY DEF Restart
    <1>3. mailbox' \in [Sub -> Boxes] /\ subs' \subseteq Sub
        BY <1>1, <1>2, NoBoxFacts DEF EventType
    <1>4. ASSUME NEW e \in Event
          PROVE  /\ emit'[e] \in Emits /\ emit'[e].pc \notin {"put", "enqueue"}
                 /\ emit'[e] = emit[e] \/ (emit'[e].pc = "err" /\ emit'[e].owed = {})
        <2>1. emit[e] \in Emits
            BY <1>1 DEF EventType
        <2>2. CASE emit[e].pc \in {"idle", "ok", "err"}
            BY <1>1, <2>1, <2>2
        <2>3. CASE emit[e].pc \notin {"idle", "ok", "err"}
            <3> DEFINE k == [IdleEmit EXCEPT !.pc = "err"]
            <3>1. k \in Emits /\ k.pc = "err" /\ k.owed = {}
                BY IdleEmitFacts DEF Emits
            <3>2. emit'[e] = k
                BY <1>1, <2>3
            <3> HIDE DEF k
            <3> QED BY <3>1, <3>2
        <2> QED BY <2>2, <2>3
    <1>5. emit' \in [Event -> Emits]
        BY <1>1, <1>4
    <1>6. \A s \in Sub : subscriber'[s] = (IF subscriber[s] = "idle" THEN "idle" ELSE "done") /\ remover'[s] = "idle"
        BY <1>1
    <1>7. stream' \in [Stream -> Streams] /\ \A r \in Stream : stream'[r] = Closed
        BY <1>1, ClosedFacts
    <1>8. EventType'
        <2>1. counter' \in Nat
            BY <1>1, SMTT(30)
        <2>2. subscriber' \in [Sub -> {"idle", "create", "mailbox", "done"}] /\ remover' \in [Sub -> {"idle", "reclaim", "cancel"}]
            BY <1>1, <1>6
        <2> QED BY <1>1, <1>3, <1>5, <1>7, <2>1, <2>2 DEF EventType
    <1>9. ASSUME NEW s \in Sub
          PROVE  /\ mailbox'[s] = mailbox[s] \/ (Local /\ mailbox'[s] = NoBox)
                 /\ ~Local => mailbox'[s] = mailbox[s]
        BY <1>2
    <1>10. ASSUME NEW s \in Sub, NEW n \in Nat, NEW e \in Event, Uses(s, n, e)'
           PROVE  Uses(s, n, e)
        <2>1. emit'[e].pc # "put"
            BY <1>4
        <2>2. ~(\E r \in Stream : \E x \in stream'[r].batch \cup stream'[r].slot : x.seq = n /\ x.ev = e)
            BY <1>7, ClosedFacts
        <2>3. CASE <<s, n, e>> \in handed'
            BY <1>1, <2>3 DEF Uses
        <2>4. CASE \E x \in mailbox'[s].entries \cup mailbox'[s].ghosts : x.seq = n /\ x.ev = e
            <3>1. mailbox'[s] # NoBox
                BY <2>4, NoBoxFacts
            <3>2. mailbox'[s] = mailbox[s]
                BY <1>9, <3>1
            <3> QED BY <2>4, <3>2 DEF Uses
        <2> QED BY <1>10, <2>1, <2>2, <2>3, <2>4 DEF Uses
    <1>11. ASSUME NEW s \in Sub
           PROVE  NumInv(s)' /\ RowInv(s)'
        <2>1. NumInv(s) /\ RowInv(s) /\ mailbox[s].last \in Nat
            BY <1>1 DEF EventInv, EventType, Boxes
        <2>2. Live(s)' => mailbox'[s] = mailbox[s]
            BY <1>1, <1>9, NoBoxFacts DEF Live, Dynamo, Local
        <2>3. mailbox[s].last <= mailbox[s].last
            BY <2>1, SMTT(30)
        <2>4. Live(s)' => Live(s) /\ mailbox[s].last <= mailbox'[s].last
            BY <1>1, <2>2, <2>3 DEF Live, Dynamo
        <2>5. NumInv(s)'
            BY <1>1, <1>3, <1>10, <2>1, <2>4, NumStays
        <2>6. Local => s \notin subs' /\ ~mailbox'[s].there
            BY <1>2, NoBoxFacts
        <2>7. subscriber'[s] # "done" => subscriber[s] = "idle" /\ subscriber'[s] = "idle"
            BY <1>6
        <2>8. subscriber[s] = "idle" => s \notin subs' /\ <<s, 0>> \notin lag'
            BY <1>1, <1>2, <2>1 DEF RowInv
        <2>9. Local' => Local
            BY <1>1 DEF Local
        <2>10. Local /\ subscriber[s] = "idle" => \A n \in Nat, e \in Event : ~Uses(s, n, e)'
            BY <1>10, <2>1 DEF RowInv
        <2>11. RowInv(s)'
            BY <1>6, <2>6, <2>7, <2>8, <2>9, <2>10 DEF RowInv
        <2> QED BY <2>5, <2>11
    <1>12. ASSUME NEW e \in Event
           PROVE  OweInv(e)'
        <2>1. CASE emit'[e] = emit[e]
            <3>1. ASSUME NEW t \in emit[e].owed
                  PROVE  /\ subscriber'[t] = "done"
                         /\ t \in subs' => t \in subs /\ (Delivered(t, e) => Delivered(t, e)')
                <4>1. t \in Sub /\ subscriber[t] = "done"
                    BY <1>1 DEF EventInv, EventType, Emits, OweInv
                <4>2. subscriber'[t] = "done"
                    BY <1>6, <4>1
                <4>3. t \in subs' => t \in subs /\ mailbox'[t] = mailbox[t]
                    BY <1>2
                <4> QED BY <1>1, <4>2, <4>3 DEF Delivered
            <3> QED BY <1>1, <2>1, <3>1, OweStays DEF EventInv
        <2>2. CASE emit'[e] # emit[e]
            BY <1>4, <2>2 DEF OweInv
        <2> QED BY <2>1, <2>2
    <1>13. \A r \in Stream : AckInv(r)'
        BY <1>7, ClosedFacts DEF AckInv
    <1> QED BY <1>8, <1>11, <1>12, <1>13 DEF EventInv

-----------------------------------------------------------------------------
(***************************************************************************)
(* The theorems.                                                           *)
(***************************************************************************)

\* The event service starts with no subscription, mailbox, call or stream.
LEMMA EventInit ==
    ASSUME Init
    PROVE  EventInv
    <1>1. EventType
        <2>1. 0 \in Nat /\ provider \in {"local", "dynamo"}
            BY EventAssumption, SMTT(30) DEF Init
        <2> QED BY <2>1, IdleEmitFacts, ClosedFacts, NoBoxFacts DEF Init, EventType
    <1>2. \A e \in Event : emit[e] = IdleEmit
        BY DEF Init
    <1>3. \A r \in Stream : stream[r] = Closed
        BY DEF Init
    <1>4. \A s \in Sub : mailbox[s] = NoBox /\ subscriber[s] = "idle" /\ remover[s] = "idle"
        BY DEF Init
    <1>5. handed = {} /\ subs = {} /\ lag = {}
        BY DEF Init
    <1>6. ASSUME NEW s \in Sub, NEW n \in Nat, NEW e \in Event, Uses(s, n, e)
          PROVE  FALSE
        <2>1. mailbox[s].entries = {} /\ mailbox[s].ghosts = {} /\ emit[e].pc # "put"
            BY <1>2, <1>4, NoBoxFacts, IdleEmitFacts
        <2>2. \A r \in Stream : stream[r].batch = {} /\ stream[r].slot = {}
            BY <1>3, ClosedFacts
        <2> QED BY <1>5, <1>6, <2>1, <2>2 DEF Uses
    <1>7. ASSUME NEW s \in Sub
          PROVE  NumInv(s) /\ RowInv(s)
        BY <1>4, <1>5, <1>6, NoBoxFacts DEF NumInv, RowInv
    <1>8. \A e \in Event : OweInv(e)
        BY <1>2, IdleEmitFacts DEF OweInv
    <1>9. \A r \in Stream : AckInv(r)
        BY <1>3, ClosedFacts DEF AckInv
    <1> QED BY <1>1, <1>7, <1>8, <1>9 DEF EventInv

\* A step that changes nothing.
LEMMA EventStutter ==
    ASSUME EventInv, UNCHANGED <<provider, rows, calls, counter, emit, stream, handed>>
    PROVE  EventInv'
    <1>1. stream' \in [Stream -> Streams] /\ handed' \subseteq Sub \X Nat \X Event /\ counter' \in Nat
        BY DEF EventInv, EventType
    <1>2. \A s \in Sub, n \in Nat, e \in Event : Uses(s, n, e)' => Uses(s, n, e)
        <2>1. UNCHANGED <<mailbox, emit, stream, handed>>
            BY DEF rows
        <2>2. ASSUME NEW s \in Sub, NEW n \in Nat, NEW e \in Event, Uses(s, n, e)'
              PROVE  Uses(s, n, e)
            BY <2>1, <2>2 DEF Uses
        <2> QED BY <2>2
    <1>3. \A r \in Stream : AckInv(r)'
        BY AckStays DEF EventInv
    <1> QED BY <1>1, <1>2, <1>3, QuietStep

\* Every step of the service keeps the invariant.
LEMMA EventStep ==
    ASSUME EventInv, [Next]_vars
    PROVE  EventInv'
    <1>1. CASE \E s \in Sub : SubNext(s)
        <2>1. PICK s \in Sub : SubNext(s)
            BY <1>1
        <2>2. CASE LeaseEnds(s)
            BY <2>2, EventStutter DEF LeaseEnds
        <2> QED BY <2>1, <2>2, SubscribeSteps, CreateMailboxStep, RemoveSteps, DrainSteps DEF SubNext
    <1>2. CASE \E e \in Event : EmitStep(e) \/ EnqueueFails(e) \/ EmitEnds(e)
        BY <1>2, EmitStartStep, EnqueuePutStep, EmitBroadcastStep, EnqueueStep, EnqueueAllocateStep, EmitFailSteps
           DEF EmitStep
    <1>3. CASE \E r \in Stream : StreamStep(r) \/ Close(r) \/ \E s \in Sub : Receive(r, s)
        BY <1>3, ReadSteps, SendStep, PullStep, AckStep DEF StreamStep
    <1>4. CASE \E k \in lag : Settle(k)
        BY <1>4, SettleStep
    <1>5. CASE Restart
        BY <1>5, RestartStep
    <1>6. CASE UNCHANGED vars
        BY <1>6, EventStutter DEF vars
    <1> QED BY <1>1, <1>2, <1>3, <1>4, <1>5, <1>6 DEF Next

\* The invariant of the event service: numbers in use were allocated and each
\* stands for one event; a removed row stays away; an emit that has not
\* failed has delivered to every registration it owes, or still has to; only
\* what was handed over is acknowledged.
THEOREM EventSafety == Spec => []EventInv
    <1>1. Init => EventInv
        BY EventInit
    <1>2. EventInv /\ [Next]_vars => EventInv'
        BY EventStep
    <1> QED BY <1>1, <1>2, PTL DEF Spec

\* "Clients de-duplicate on the per-registration seq_num": for any number of
\* registrations, events and streams, with either provider, through
\* acknowledgements, failing requests, lagging reads and restarts, a number
\* never stands for two events of one registration (enqueue, durable_loop).
THEOREM NumberNamesEventHolds == Spec => []NumberNamesEvent
    <1>1. EventInv => NumberNamesEvent
        <2> SUFFICES ASSUME EventInv, NEW s \in Sub
                     PROVE  LET all == {<<s, x.seq, x.ev>> : x \in mailbox[s].entries}
                                       \cup {h \in handed : h[1] = s}
                            IN \A x, y \in all : x[2] = y[2] => x[3] = y[3]
            BY DEF NumberNamesEvent
        <2> DEFINE all == {<<s, x.seq, x.ev>> : x \in mailbox[s].entries} \cup {h \in handed : h[1] = s}
        <2>1. ASSUME NEW h \in all
              PROVE  h[2] \in Nat /\ h[3] \in Event /\ Uses(s, h[2], h[3])
            <3>1. mailbox[s].entries \subseteq Entry /\ handed \subseteq Sub \X Nat \X Event
                BY DEF EventInv, EventType, Boxes
            <3>2. CASE h \in {<<s, x.seq, x.ev>> : x \in mailbox[s].entries}
                <4>1. PICK x \in mailbox[s].entries : h = <<s, x.seq, x.ev>>
                    BY <3>2
                <4>2. x.seq \in Nat /\ x.ev \in Event /\ Uses(s, x.seq, x.ev)
                    BY <3>1 DEF Entry, Uses
                <4>3. h[2] = x.seq /\ h[3] = x.ev
                    BY <4>1, SMTT(30)
                <4> QED BY <4>2, <4>3
            <3>3. CASE h \in handed /\ h[1] = s
                <4>1. h \in Sub \X Nat \X Event
                    BY <3>1, <3>3
                <4>2. h = <<h[1], h[2], h[3]>> /\ h[2] \in Nat /\ h[3] \in Event
                    BY <4>1, SMTT(30)
                <4>3. <<s, h[2], h[3]>> \in handed
                    BY <3>3, <4>2
                <4> QED BY <4>2, <4>3 DEF Uses
            <3> QED BY <3>2, <3>3
        <2> HIDE DEF all
        <2>2. ASSUME NEW x \in all, NEW y \in all, x[2] = y[2]
              PROVE  x[3] = y[3]
            <3>1. /\ x[2] \in Nat /\ x[3] \in Event /\ Uses(s, x[2], x[3])
                  /\ y[3] \in Event /\ Uses(s, x[2], y[3])
                BY <2>1, <2>2
            <3> QED BY <3>1 DEF EventInv, NumInv
        <2> QED BY <2>2 DEF all
    <1> QED BY <1>1, EventSafety, PTL

\* An emit that answered Ok is kept for, or was handed to, every durable
\* registration it listed after its Subscribe had answered and that still
\* stands: for any number of registrations, competing streams and events,
\* through failing requests, dropped calls and restarts (emit, durable_loop).
THEOREM AtLeastOnceHolds == Spec => []AtLeastOnce
    <1>1. EventInv => AtLeastOnce
        <2> SUFFICES ASSUME EventInv, NEW e \in Event, emit[e].pc = "ok", NEW s \in emit[e].owed \cap subs
                     PROVE  Delivered(s, e)
            BY DEF AtLeastOnce, Delivered
        <2>1. OweInv(e)
            BY DEF EventInv
        <2> QED BY <2>1 DEF OweInv
    <1> QED BY <1>1, EventSafety, PTL

-----------------------------------------------------------------------------
(***************************************************************************)
(* What a receiver still has before it (the same lemmas serve the watch    *)
(* streams in LeaseWatchProofs).                                           *)
(***************************************************************************)

\* An empty inbox has nothing to come.
LEMMA ComesNothing ==
    ASSUME NEW S, NEW due \in Seq(S), NEW inbox
    PROVE  StillToCome(due, Len(due), inbox, {})
    <1>1. (Len(due) + 1)..Len(due) = {} /\ Len(due) <= Len(due)
        BY SMTT(30)
    <1>2. [x \in {} |-> 0] \in [{} -> {}]
        OBVIOUS
    <1> QED BY <1>1, <1>2 DEF StillToCome

\* An event arrives: it is asked for, and due, or neither.
LEMMA ComesAppend ==
    ASSUME NEW S, NEW due \in Seq(S), NEW inbox \in Seq(S), NEW n \in Nat, NEW e \in S,
           NEW P \in SUBSET (1..Len(inbox)), StillToCome(due, n, inbox, P)
    PROVE  /\ StillToCome(due, n, Append(inbox, e), P)
           /\ StillToCome(Append(due, e), n, Append(inbox, e), P \cup {Len(inbox) + 1})
    <1> DEFINE D == (n + 1)..Len(due)
    <1>1. PICK at \in [D -> P] :
             /\ \A k \in D : due[k] = inbox[at[k]]
             /\ \A j, k \in D : j < k => at[j] < at[k]
             /\ \A p \in P : \E k \in D : at[k] = p
        BY DEF StillToCome
    <1>2. n <= Len(due) /\ Len(due) \in Nat /\ Len(inbox) \in Nat
        BY SMTT(30) DEF StillToCome
    <1>3. \A k \in D : at[k] \in 1..Len(inbox) /\ at[k] \in P
        OBVIOUS
    <1>4. \A p \in 1..Len(inbox) : Append(inbox, e)[p] = inbox[p]
        BY SMTT(30)
    <1>5. StillToCome(due, n, Append(inbox, e), P)
        <2>1. \A k \in D : due[k] = Append(inbox, e)[at[k]]
            BY <1>1, <1>3, <1>4
        <2> QED BY <1>1, <1>2, <2>1 DEF StillToCome
    <1>6. StillToCome(Append(due, e), n, Append(inbox, e), P \cup {Len(inbox) + 1})
        <2> DEFINE l == Len(due) + 1
                   m == Len(inbox) + 1
                   E == (n + 1)..Len(Append(due, e))
                   new == [k \in E |-> IF k = l THEN m ELSE at[k]]
        <2>1. Len(Append(due, e)) = l /\ n <= l /\ l \in E /\ l \notin D /\ \A k \in E : k = l \/ k \in D
            BY <1>2, SMTT(30)
        <2>2. D \subseteq E
            BY <1>2, SMTT(30)
        <2>3. new[l] = m /\ \A k \in D : new[k] = at[k]
            BY <2>1, <2>2
        <2>4. new \in [E -> P \cup {m}]
            BY <1>3, <2>1
        <2> HIDE DEF new
        <2>5. \A k \in D : Append(due, e)[k] = due[k]
            BY <1>2, SMTT(30)
        <2>6. Append(due, e)[l] = e /\ Append(inbox, e)[m] = e
            BY <1>2, SMTT(30)
        <2>7. \A k \in E : Append(due, e)[k] = Append(inbox, e)[new[k]]
            <3>1. \A k \in D : Append(due, e)[k] = Append(inbox, e)[new[k]]
                <4> SUFFICES ASSUME NEW k \in D PROVE Append(due, e)[k] = Append(inbox, e)[new[k]]
                    OBVIOUS
                <4>1. new[k] = at[k] /\ at[k] \in 1..Len(inbox) /\ Append(due, e)[k] = due[k] /\ due[k] = inbox[at[k]]
                    BY <1>1, <1>3, <2>3, <2>5, ZenonT(30)
                <4>2. Append(inbox, e)[at[k]] = inbox[at[k]]
                    BY <1>4, <4>1, ZenonT(30)
                <4> QED BY <4>1, <4>2, ZenonT(30)
            <3> QED BY <2>1, <2>3, <2>6, <3>1, ZenonT(30)
        <2>8. \A j, k \in E : j < k => new[j] < new[k]
            <3> SUFFICES ASSUME NEW j \in E, NEW k \in E, j < k PROVE new[j] < new[k]
                OBVIOUS
            <3>1. j \in D
                BY <1>2, SMTT(30)
            <3>2. CASE k = l
                <4>1. new[j] \in 1..Len(inbox) /\ new[k] = m
                    BY <1>3, <2>3, <3>1, <3>2
                <4> QED BY <1>2, <4>1, SMTT(30)
            <3>3. CASE k \in D
                BY <1>1, <2>3, <3>1, <3>3, ZenonT(30)
            <3> QED BY <2>1, <3>2, <3>3, ZenonT(30)
        <2>9. \A p \in P \cup {m} : \E k \in E : new[k] = p
            BY <1>1, <2>1, <2>2, <2>3, ZenonT(30)
        <2>10. n <= Len(Append(due, e))
            BY <2>1
        <2> QED BY <2>4, <2>7, <2>8, <2>9, <2>10 DEF StillToCome
    <1> QED BY <1>5, <1>6

\* The positions P, once the first member is gone.
Behind(P) == {q \in Nat \ {0} : q + 1 \in P}

\* The first event is read: it is the next one due when its position is among P.
LEMMA ComesTail ==
    ASSUME NEW S, NEW due \in Seq(S), NEW inbox \in Seq(S), inbox # <<>>, NEW n \in Nat,
           NEW P \in SUBSET (1..Len(inbox)), StillToCome(due, n, inbox, P)
    PROVE  /\ 1 \in P => /\ n < Len(due) /\ due[n + 1] = Head(inbox)
                         /\ StillToCome(due, n + 1, Tail(inbox), Behind(P))
           /\ 1 \notin P => StillToCome(due, n, Tail(inbox), Behind(P))
    <1> DEFINE D == (n + 1)..Len(due)
               L == Len(inbox)
               Q == {q \in 1..(L - 1) : q + 1 \in P}
    <1>1. PICK at \in [D -> P] :
             /\ \A k \in D : due[k] = inbox[at[k]]
             /\ \A j, k \in D : j < k => at[j] < at[k]
             /\ \A p \in P : \E k \in D : at[k] = p
        BY DEF StillToCome
    <1>2. /\ n <= Len(due) /\ Len(due) \in Nat /\ L \in Nat /\ L > 0 /\ Len(Tail(inbox)) = L - 1
          /\ inbox[1] = Head(inbox) /\ \A q \in 1..(L - 1) : Tail(inbox)[q] = inbox[q + 1]
        BY SMTT(30) DEF StillToCome
    <1>3. \A k \in D : at[k] \in 1..L /\ at[k] \in P /\ at[k] \in Nat
        <2>1. \A p \in 1..L : p \in Nat
            BY <1>2, SMTT(30)
        <2> QED BY <1>1, <2>1, ZenonT(30)
    <1>0. Behind(P) = Q
        BY <1>2, SMTT(30) DEF Behind
    <1>4. ASSUME NEW m \in Nat, n <= m, m <= Len(due), \A k \in (m + 1)..Len(due) : at[k] # 1,
                 \A k \in D : at[k] # 1 => k \in (m + 1)..Len(due)
          PROVE  StillToCome(due, m, Tail(inbox), Q)
        <2> DEFINE E == (m + 1)..Len(due)
                   new == [k \in E |-> at[k] - 1]
        <2>1. E \subseteq D
            BY <1>2, <1>4, SMTT(30)
        <2>2. \A k \in E : at[k] - 1 \in 1..(L - 1) /\ (at[k] - 1) + 1 = at[k]
            BY <1>2, <1>3, <1>4, <2>1, SMTT(30)
        <2>3. new \in [E -> Q] /\ \A k \in E : new[k] = at[k] - 1
            BY <1>3, <2>1, <2>2
        <2> HIDE DEF new
        <2>4. \A k \in E : due[k] = Tail(inbox)[new[k]]
            <3> SUFFICES ASSUME NEW k \in E PROVE due[k] = Tail(inbox)[new[k]]
                OBVIOUS
            <3>1. due[k] = inbox[at[k]] /\ new[k] \in 1..(L - 1) /\ new[k] + 1 = at[k]
                BY <1>1, <2>1, <2>2, <2>3, ZenonT(30)
            <3>2. Tail(inbox)[new[k]] = inbox[new[k] + 1]
                BY <1>2, <3>1, ZenonT(30)
            <3> QED BY <3>1, <3>2, ZenonT(30)
        <2>5. \A j, k \in E : j < k => new[j] < new[k]
            <3> SUFFICES ASSUME NEW j \in E, NEW k \in E, j < k PROVE new[j] < new[k]
                OBVIOUS
            <3>1. at[j] < at[k] /\ at[j] \in Nat /\ at[k] \in Nat
                BY <1>1, <1>3, <2>1
            <3>2. new[j] = at[j] - 1 /\ new[k] = at[k] - 1
                BY <2>3
            <3> QED BY <3>1, <3>2, SMTT(30)
        <2>6. \A q \in Q : \E k \in E : new[k] = q
            <3> SUFFICES ASSUME NEW q \in Q PROVE \E k \in E : new[k] = q
                OBVIOUS
            <3>1. q + 1 \in P /\ q \in Nat /\ q > 0
                BY SMTT(30)
            <3>2. PICK k \in D : at[k] = q + 1
                BY <1>1, <3>1
            <3>3. at[k] # 1 /\ at[k] - 1 = q
                BY <3>1, <3>2, SMTT(30)
            <3> QED BY <1>4, <2>3, <3>3
        <2> QED BY <1>4, <2>3, <2>4, <2>5, <2>6 DEF StillToCome
    <1>5. CASE 1 \in P
        <2>1. PICK k \in D : at[k] = 1
            BY <1>1, <1>5
        <2>2. k = n + 1
            <3> SUFFICES ASSUME k # n + 1 PROVE FALSE
                OBVIOUS
            <3>1. n + 1 \in D /\ n + 1 < k
                BY SMTT(30)
            <3>2. at[n + 1] < 1 /\ at[n + 1] \in 1..L
                BY <1>1, <1>3, <2>1, <3>1
            <3> QED BY <1>2, <3>2, SMTT(30)
        <2>3. n + 1 \in Nat /\ n <= n + 1 /\ n + 1 <= Len(due) /\ n < Len(due)
            BY <1>2, <2>2, SMTT(30)
        <2>4. due[n + 1] = Head(inbox)
            BY <1>1, <1>2, <2>1, <2>2
        <2>5. \A j \in ((n + 1) + 1)..Len(due) : at[j] # 1
            <3> SUFFICES ASSUME NEW j \in ((n + 1) + 1)..Len(due), at[j] = 1 PROVE FALSE
                OBVIOUS
            <3>1. j \in D /\ n + 1 < j
                BY SMTT(30)
            <3>2. 1 < 1
                BY <1>1, <2>1, <2>2, <3>1
            <3> QED BY <3>2, SMTT(30)
        <2>6. \A j \in D : at[j] # 1 => j \in ((n + 1) + 1)..Len(due)
            <3> SUFFICES ASSUME NEW j \in D, at[j] # 1 PROVE j \in ((n + 1) + 1)..Len(due)
                OBVIOUS
            <3>1. j # n + 1
                BY <2>1, <2>2
            <3> QED BY <1>2, <3>1, SMTT(30)
        <2>7. StillToCome(due, n + 1, Tail(inbox), Q)
            BY <1>4, <2>3, <2>5, <2>6
        <2> QED BY <1>0, <1>5, <2>3, <2>4, <2>7
    <1>6. CASE 1 \notin P
        <2>1. \A k \in D : at[k] # 1
            BY <1>3, <1>6
        <2>2. n \in Nat /\ n <= n
            BY SMTT(30)
        <2>3. StillToCome(due, n, Tail(inbox), Q)
            BY <1>2, <1>4, <2>1, <2>2
        <2> QED BY <1>0, <1>6, <2>3
    <1> QED BY <1>5, <1>6

-----------------------------------------------------------------------------
(***************************************************************************)
(* Best-effort streams.                                                    *)
(***************************************************************************)

\* A best-effort stream that is open holds at most one event in the channel and, while
\* it sends, one more; unless it lagged, it is complete.
Shape(k) ==
    /\ k.pc \in {"wait", "send"} /\ Len(k.inbox) <= Capacity
    /\ IF k.pc = "wait" THEN k.batch = {} ELSE \E x \in Entry : k.batch = {x}
    /\ k.slot = {} \/ \E x \in Entry : k.slot = {x}
Tidy(k) == k.pc # "closed" /\ k.sub \notin Durable => Shape(k) /\ (k.lagged \/ Complete(k))
BestInv == \A r \in Stream : Tidy(stream[r])

\* None, and one.
LEMMA Counts == Cardinality({}) = 0 /\ \A x : Cardinality({x}) = 1
    BY FS_EmptySet, FS_Singleton

\* How much a best-effort stream has taken from its receiver.
LEMMA SentSize ==
    ASSUME NEW k \in Streams, Shape(k)
    PROVE  /\ Len(k.seen) \in Nat /\ Sent(k) \in Nat /\ Len(k.seen) <= Sent(k)
           /\ k.slot # {} => Len(k.seen) + 1 <= Sent(k)
           /\ k.batch # {} => 1 <= Sent(k)
    <1>1. k.seen \in Seq(Entry)
        BY DEF Streams
    <1>2. Len(k.seen) \in Nat
        BY <1>1, SMTT(30)
    <1>3. Cardinality(k.slot) \in {0, 1} /\ (k.slot # {} => Cardinality(k.slot) = 1)
        BY Counts DEF Shape
    <1>4. Cardinality(k.batch) \in {0, 1} /\ (k.batch # {} => Cardinality(k.batch) = 1)
        BY Counts DEF Shape
    <1>5. \A a \in Nat : \A b, c \in {0, 1} :
             /\ a + b + c \in Nat /\ a <= a + b + c
             /\ b = 1 => a + 1 <= a + b + c
             /\ c = 1 => 1 <= a + b + c
        BY SMTT(30)
    <1> QED BY <1>2, <1>3, <1>4, <1>5 DEF Sent

\* The matching positions, when an event arrives ...
LEMMA MatchingAppend ==
    ASSUME NEW M, NEW inbox \in Seq(Event), NEW e \in Event
    PROVE  /\ e \in M => Matching(Append(inbox, e), M) = Matching(inbox, M) \cup {Len(inbox) + 1}
           /\ e \notin M => Matching(Append(inbox, e), M) = Matching(inbox, M)
    <1>1. /\ Len(Append(inbox, e)) = Len(inbox) + 1 /\ Append(inbox, e)[Len(inbox) + 1] = e
          /\ \A n \in 1..Len(inbox) : Append(inbox, e)[n] = inbox[n]
        BY SMTT(30)
    <1>2. \A n : n \in 1..(Len(inbox) + 1) <=> n \in 1..Len(inbox) \/ n = Len(inbox) + 1
        BY SMTT(30)
    <1> QED BY <1>1, <1>2 DEF Matching

\* ... and when one is read.
LEMMA MatchingTail ==
    ASSUME NEW M, NEW inbox \in Seq(Event), inbox # <<>>
    PROVE  /\ Matching(Tail(inbox), M) = Behind(Matching(inbox, M))
           /\ 1 \in Matching(inbox, M) <=> Head(inbox) \in M
    <1>1. /\ 1 \in 1..Len(inbox) /\ inbox[1] = Head(inbox)
          /\ \A q \in 1..Len(Tail(inbox)) : Tail(inbox)[q] = inbox[q + 1]
        BY SMTT(30)
    <1>2. \A q : q \in 1..Len(Tail(inbox)) <=> q \in Nat \ {0} /\ q + 1 \in 1..Len(inbox)
        BY SMTT(30)
    <1> QED BY <1>1, <1>2 DEF Matching, Behind

\* A broadcast reaches a stream.
LEMMA TidyHear ==
    ASSUME NEW k \in Streams, NEW e \in Event, Tidy(k)
    PROVE  Tidy(Hear(k, e))
    <1>1. CASE k.pc = "closed"
        BY <1>1 DEF Hear
    <1>2. CASE k.pc # "closed"
        <2>1. k.inbox \in Seq(Event) /\ k.due \in Seq(Event) /\ k.lagged \in BOOLEAN
            BY DEF Streams
        <2>2. /\ Len(k.inbox) \in Nat /\ Capacity \in Nat /\ Capacity >= 1
              /\ Len(Append(k.inbox, e)) = Len(k.inbox) + 1
              /\ k.inbox # <<>> => Len(Append(Tail(k.inbox), e)) = Len(k.inbox)
              /\ k.inbox = <<>> => Len(k.inbox) = 0
            BY <2>1, EventAssumption, SMTT(30)
        <2>3. PICK i, d, g :
                 /\ i = IF Len(k.inbox) < Capacity THEN Append(k.inbox, e) ELSE Append(Tail(k.inbox), e)
                 /\ d = IF k.sub \notin Durable /\ e \in Matches[k.sub] THEN Append(k.due, e) ELSE k.due
                 /\ g = (k.lagged \/ Len(k.inbox) = Capacity)
            OBVIOUS
        <2> DEFINE m == [k EXCEPT !.inbox = i, !.lagged = g, !.due = d]
        <2>4. Hear(k, e) = m
            BY <1>2, <2>3 DEF Hear
        <2>5. /\ m.pc = k.pc /\ m.sub = k.sub /\ m.batch = k.batch /\ m.slot = k.slot /\ m.seen = k.seen
              /\ m.inbox = i /\ m.lagged = g /\ m.due = d
            BY DEF Streams
        <2> HIDE DEF m
        <2>6. ASSUME k.sub \notin Durable
              PROVE  Shape(m) /\ (m.lagged \/ Complete(m))
            <3>1. Shape(k)
                BY <1>2, <2>6 DEF Tidy
            <3>2. Len(i) <= Capacity
                <4>1. Len(k.inbox) <= Capacity
                    BY <3>1 DEF Shape
                <4>2. CASE Len(k.inbox) < Capacity
                    <5>1. i = Append(k.inbox, e)
                        BY <2>3, <4>2
                    <5> QED BY <2>2, <4>2, <5>1, SMTT(30)
                <4>3. CASE ~(Len(k.inbox) < Capacity)
                    <5>1. i = Append(Tail(k.inbox), e)
                        BY <2>3, <4>3
                    <5> QED BY <2>2, <4>1, <4>3, <5>1, SMTT(30)
                <4> QED BY <4>2, <4>3
            <3>3. Shape(m)
                BY <2>5, <3>1, <3>2 DEF Shape
            <3>4. ASSUME ~m.lagged
                  PROVE  Complete(m)
                <4>1. Complete(k) /\ i = Append(k.inbox, e)
                    <5>1. ~k.lagged /\ Len(k.inbox) # Capacity
                        BY <2>1, <2>3, <2>5, <3>4
                    <5>2. Len(k.inbox) < Capacity
                        BY <2>2, <3>1, <5>1, SMTT(30) DEF Shape
                    <5> QED BY <1>2, <2>3, <2>6, <5>1, <5>2 DEF Tidy
                <4>2. PICK n \in Nat, P \in SUBSET (1..Len(k.inbox)) : n = Sent(k) /\ P = Matching(k.inbox, Matches[k.sub])
                    BY <3>1, SentSize DEF Matching
                <4>3. StillToCome(k.due, n, k.inbox, P) /\ n <= Len(k.due)
                    <5>1. StillToCome(k.due, n, k.inbox, P)
                        BY <4>1, <4>2 DEF Complete
                    <5> QED BY <5>1 DEF StillToCome
                <4>4. /\ StillToCome(k.due, n, Append(k.inbox, e), P)
                      /\ StillToCome(Append(k.due, e), n, Append(k.inbox, e), P \cup {Len(k.inbox) + 1})
                    BY <2>1, <4>3, ComesAppend
                <4>5. StillToCome(d, n, i, Matching(i, Matches[k.sub]))
                    <5>1. PICK M : M = Matches[k.sub]
                        OBVIOUS
                    <5>2. /\ e \in M => Matching(Append(k.inbox, e), M) = Matching(k.inbox, M) \cup {Len(k.inbox) + 1}
                          /\ e \notin M => Matching(Append(k.inbox, e), M) = Matching(k.inbox, M)
                        BY <2>1, MatchingAppend
                    <5>3. CASE e \in Matches[k.sub]
                        <6>1. Matching(i, Matches[k.sub]) = P \cup {Len(k.inbox) + 1} /\ d = Append(k.due, e)
                            BY <2>3, <2>6, <4>1, <4>2, <5>1, <5>3, <5>2
                        <6> QED BY <4>1, <4>4, <6>1
                    <5>4. CASE e \notin Matches[k.sub]
                        <6>1. Matching(i, Matches[k.sub]) = P /\ d = k.due
                            BY <2>3, <4>1, <4>2, <5>1, <5>4, <5>2
                        <6> QED BY <4>1, <4>4, <6>1
                    <5> QED BY <5>3, <5>4
                <4>6. Sent(m) = n
                    BY <2>5, <4>2 DEF Sent
                <4>7. \A j \in 1..Len(k.due) : d[j] = k.due[j]
                    <5>1. \A j \in 1..Len(k.due) : Append(k.due, e)[j] = k.due[j]
                        BY <2>1, SMTT(30)
                    <5> QED BY <2>3, <5>1
                <4>8. /\ \A j \in 1..Len(k.seen) : j \in 1..Len(k.due)
                      /\ k.slot # {} => Len(k.seen) + 1 \in 1..Len(k.due)
                      /\ k.batch # {} => n \in 1..Len(k.due)
                    <5>1. Len(k.due) \in Nat
                        BY <2>1, SMTT(30)
                    <5>2. \A a, b, c \in Nat : a <= b /\ b <= c =>
                             /\ \A j \in 1..a : j \in 1..c
                             /\ a + 1 <= b => a + 1 \in 1..c
                             /\ 1 <= b => b \in 1..c
                        BY SMTT(30)
                    <5> QED BY <3>1, <4>2, <4>3, <5>1, <5>2, SentSize
                <4>9. \A j \in 1..Len(k.seen) : k.seen[j].ev = d[j]
                    BY <4>1, <4>7, <4>8 DEF Complete
                <4>10. \A x \in k.slot : x.ev = d[Len(k.seen) + 1]
                    <5>1. \A x \in k.slot : x.ev = k.due[Len(k.seen) + 1]
                        BY <4>1 DEF Complete
                    <5>2. k.slot # {} => d[Len(k.seen) + 1] = k.due[Len(k.seen) + 1]
                        BY <4>7, <4>8
                    <5> QED BY <5>1, <5>2
                <4>11. \A x \in k.batch : x.ev = d[n]
                    <5>1. \A x \in k.batch : x.ev = k.due[n]
                        BY <4>1, <4>2 DEF Complete
                    <5>2. k.batch # {} => d[n] = k.due[n]
                        BY <4>7, <4>8
                    <5> QED BY <5>1, <5>2
                <4>12. \A j \in 1..Len(m.seen) : m.seen[j].ev = m.due[j]
                    BY <2>5, <4>9
                <4>13. \A x \in m.slot : x.ev = m.due[Len(m.seen) + 1]
                    <5>1. m.slot = k.slot /\ m.due = d /\ m.seen = k.seen
                        BY <2>5
                    <5>2. ASSUME NEW x \in m.slot
                          PROVE  x.ev = m.due[Len(m.seen) + 1]
                        <6>1. x.ev = d[Len(k.seen) + 1]
                            BY <4>10, <5>1, <5>2
                        <6> QED BY <5>1, <6>1
                    <5> QED BY <5>2
                <4>14. \A x \in m.batch : x.ev = m.due[Sent(m)]
                    BY <2>5, <4>6, <4>11
                <4>15. StillToCome(m.due, Sent(m), m.inbox, Matching(m.inbox, Matches[m.sub]))
                    BY <2>5, <4>5, <4>6
                <4> QED BY <4>12, <4>13, <4>14, <4>15 DEF Complete
            <3> QED BY <3>3, <3>4
        <2> QED BY <2>4, <2>5, <2>6 DEF Tidy
    <1> QED BY <1>1, <1>2

\* The loop sends what it holds.
LEMMA TidySend ==
    ASSUME NEW k \in Streams, NEW m \in Streams, NEW x \in Entry, Tidy(k), k.pc = "send", k.sub \notin Durable,
           k.slot = {}, x \in k.batch, m.slot = {x}, m.batch = k.batch \ {x}, m.pc = "wait",
           m.seen = k.seen, m.inbox = k.inbox, m.due = k.due, m.lagged = k.lagged, m.sub = k.sub
    PROVE  Tidy(m)
    <1>1. Shape(k) /\ (k.lagged \/ Complete(k))
        BY DEF Tidy
    <1>2. k.batch = {x}
        BY <1>1 DEF Shape
    <1>3. m.batch = {}
        BY <1>2
    <1>4. Shape(m)
        BY <1>1, <1>3 DEF Shape
    <1>5. Sent(m) = Sent(k) /\ Sent(k) = Len(k.seen) + 1
        <2>1. Len(k.seen) \in Nat
            BY <1>1, SentSize
        <2>2. \A a \in Nat : a + 0 + 1 = a + 1 /\ a + 1 + 0 = a + 1
            BY SMTT(30)
        <2>3. Sent(k) = Len(k.seen) + 0 + 1
            BY <1>2, Counts DEF Sent
        <2>4. Sent(m) = Len(k.seen) + 1 + 0
            BY <1>3, Counts DEF Sent
        <2> QED BY <2>1, <2>2, <2>3, <2>4
    <1>6. Complete(k) => Complete(m)
        BY <1>2, <1>3, <1>5 DEF Complete
    <1> QED BY <1>1, <1>4, <1>6 DEF Tidy

\* The transport pulls.
LEMMA TidyPull ==
    ASSUME NEW k \in Streams, NEW m \in Streams, NEW x \in Entry, Tidy(k), x \in k.slot,
           m.slot = {}, m.seen = Append(k.seen, x), m.batch = k.batch, m.pc = k.pc,
           m.inbox = k.inbox, m.due = k.due, m.lagged = k.lagged, m.sub = k.sub
    PROVE  Tidy(m)
    <1> SUFFICES ASSUME k.pc # "closed", k.sub \notin Durable
                 PROVE  Shape(m) /\ (m.lagged \/ Complete(m))
        BY DEF Tidy
    <1>1. Shape(k) /\ (k.lagged \/ Complete(k))
        BY DEF Tidy
    <1>2. k.slot = {x}
        BY <1>1 DEF Shape
    <1>3. Shape(m)
        BY <1>1 DEF Shape
    <1>4. k.seen \in Seq(Entry)
        BY DEF Streams
    <1>5. /\ Len(k.seen) \in Nat /\ Len(m.seen) = Len(k.seen) + 1 /\ m.seen[Len(k.seen) + 1] = x
          /\ \A j \in 1..Len(k.seen) : m.seen[j] = k.seen[j]
          /\ \A j \in 1..Len(m.seen) : j \in 1..Len(k.seen) \/ j = Len(k.seen) + 1
        BY <1>4, SMTT(30)
    <1>6. Sent(m) = Sent(k)
        <2>1. \A a \in Nat : a + 1 + 0 = a + 1
            BY SMTT(30)
        <2> QED BY <1>2, <1>5, <2>1, Counts DEF Sent
    <1>7. ASSUME Complete(k)
          PROVE  Complete(m)
        <2>1. \A j \in 1..Len(m.seen) : m.seen[j].ev = m.due[j]
            BY <1>2, <1>5, <1>7 DEF Complete
        <2> QED BY <1>6, <1>7, <2>1 DEF Complete
    <1> QED BY <1>1, <1>3, <1>7

\* The loop reads its receiver, and takes a matching event in hand.
LEMMA TidyWake ==
    ASSUME NEW k \in Streams, NEW m \in Streams, Tidy(k), k.pc = "wait", k.sub \notin Durable, ~k.lagged,
           k.inbox # <<>>, m.inbox = Tail(k.inbox), m.slot = k.slot, m.seen = k.seen, m.due = k.due,
           m.lagged = k.lagged, m.sub = k.sub,
           IF Head(k.inbox) \in Matches[k.sub]
           THEN m.pc = "send" /\ \E x \in Entry : m.batch = {x} /\ x.ev = Head(k.inbox)
           ELSE m.pc = k.pc /\ m.batch = k.batch
    PROVE  Tidy(m)
    <1> DEFINE M == Matches[k.sub]
    <1>1. Shape(k) /\ Complete(k) /\ k.batch = {}
        BY DEF Tidy, Shape
    <1>2. k.inbox \in Seq(Event) /\ k.due \in Seq(Event)
        BY DEF Streams
    <1>3. Shape(m)
        <2>1. Len(Tail(k.inbox)) <= Capacity
            <3>1. Len(k.inbox) <= Capacity /\ Capacity \in Nat
                BY <1>1, EventAssumption DEF Shape
            <3> QED BY <1>2, <3>1, SMTT(30)
        <2> QED BY <1>1, <2>1 DEF Shape
    <1>4. PICK n \in Nat, P \in SUBSET (1..Len(k.inbox)) : n = Sent(k) /\ P = Matching(k.inbox, M)
        BY <1>1, SentSize DEF Matching
    <1>5. StillToCome(k.due, n, k.inbox, P)
        BY <1>1, <1>4 DEF Complete
    <1>6. /\ 1 \in P => /\ n < Len(k.due) /\ k.due[n + 1] = Head(k.inbox)
                        /\ StillToCome(k.due, n + 1, Tail(k.inbox), Behind(P))
          /\ 1 \notin P => StillToCome(k.due, n, Tail(k.inbox), Behind(P))
        BY <1>2, <1>5, ComesTail
    <1>7. Matching(Tail(k.inbox), M) = Behind(P) /\ (1 \in P <=> Head(k.inbox) \in M)
        BY <1>2, <1>4, MatchingTail
    <1>8. CASE Head(k.inbox) \in M
        <2>1. PICK x \in Entry : m.batch = {x} /\ x.ev = Head(k.inbox)
            BY <1>8
        <2>2. Sent(m) = n + 1
            <3>1. Len(k.seen) \in Nat /\ Cardinality(k.slot) \in {0, 1}
                BY <1>1, SentSize, Counts DEF Shape
            <3>2. \A a \in Nat : \A b \in {0, 1} : a + b + 1 = (a + b + 0) + 1
                BY SMTT(30)
            <3>3. n = Len(k.seen) + Cardinality(k.slot) + 0
                BY <1>1, <1>4, Counts DEF Sent
            <3>4. Sent(m) = Len(k.seen) + Cardinality(k.slot) + 1
                BY <2>1, Counts DEF Sent
            <3> QED BY <3>1, <3>2, <3>3, <3>4
        <2>3. Complete(m)
            BY <1>1, <1>6, <1>7, <1>8, <2>1, <2>2 DEF Complete
        <2> QED BY <1>3, <2>3 DEF Tidy
    <1>9. CASE Head(k.inbox) \notin M
        <2>1. Sent(m) = n /\ m.batch = {}
            BY <1>1, <1>4, <1>9 DEF Sent
        <2>2. Complete(m)
            BY <1>1, <1>6, <1>7, <1>9, <2>1 DEF Complete
        <2> QED BY <1>3, <2>2 DEF Tidy
    <1> QED BY <1>8, <1>9

\* The invariant of the next state, of the streams as they are then.
LEMMA BestNow ==
    ASSUME \A r \in Stream : Tidy(stream'[r])
    PROVE  BestInv'
    <1>1. \A r \in Stream : Tidy(stream[r])' = Tidy(stream'[r])
        BY DEF Tidy, Shape, Complete, Sent, Matching, StillToCome
    <1> QED BY <1>1 DEF BestInv

\* One stream becomes tidy again; the others are left alone.
LEMMA BestMove ==
    ASSUME BestInv, NEW r \in Stream, stream \in [Stream -> Streams], NEW m \in Streams,
           stream' = [stream EXCEPT ![r] = m], Tidy(m)
    PROVE  BestInv'
    <1>1. stream'[r] = m /\ \A q \in Stream \ {r} : stream'[q] = stream[q]
        OBVIOUS
    <1>2. ASSUME NEW q \in Stream
          PROVE  Tidy(stream'[q])
        <2>1. CASE q = r
            BY <1>1, <2>1
        <2>2. CASE q # r
            BY <1>1, <2>2 DEF BestInv
        <2> QED BY <2>1, <2>2
    <1> QED BY <1>2, BestNow

\* A stream without a client.
LEMMA TidyClosed == Tidy(Closed)
    BY ClosedFacts DEF Tidy

\* A durable stream.
LEMMA TidyDurable ==
    ASSUME NEW m, m.sub \in Durable
    PROVE  Tidy(m)
    BY DEF Tidy

\* The streams' steps that read.
LEMMA BestRead ==
    ASSUME EventInv, BestInv, NEW r \in Stream,
           (\E s \in Sub : Receive(r, s)) \/ Peek(r) \/ Lagged(r) \/ Wake(r) \/ Close(r)
    PROVE  BestInv'
    <1>1. EventType /\ stream \in [Stream -> Streams] /\ stream[r] \in Streams /\ Tidy(stream[r]) /\ AckInv(r)
        BY DEF EventInv, EventType, BestInv
    <1>2. ASSUME NEW s \in Sub, Receive(r, s)
          PROVE  BestInv'
        <2> DEFINE l == IF s \in Durable THEN "peek" ELSE "wait"
                   k == [Closed EXCEPT !.sub = s, !.pc = l]
        <2>1. l \in {"peek", "wait"}
            OBVIOUS
        <2>2. /\ k \in Streams /\ k.sub = s /\ k.pc = l /\ k.batch = {} /\ k.slot = {}
              /\ k.seen = <<>> /\ k.due = <<>> /\ k.inbox = <<>>
            <3> HIDE DEF l
            <3>1. k \in Streams /\ k.sub = s /\ k.pc = l /\ k.batch = {} /\ k.slot = {}
                BY <2>1, ClosedFacts DEF Streams
            <3>2. k.seen = <<>> /\ k.due = <<>> /\ k.inbox = <<>>
                BY DEF Closed
            <3> QED BY <3>1, <3>2
        <2>3. stream' = [stream EXCEPT ![r] = k]
            BY <1>2 DEF Receive
        <2>4. s \notin Durable => k.pc = "wait"
            BY <2>2
        <2> HIDE DEF l, k
        <2>5. ASSUME s \notin Durable
              PROVE  Shape(k) /\ Complete(k)
            <3>1. Len(<<>>) = 0 /\ Len(<<>>) <= Capacity /\ 1..0 = {} /\ 0 + 0 + 0 = 0 /\ <<>> \in Seq(Event)
                BY EventAssumption, SMTT(30)
            <3>2. Shape(k)
                BY <2>2, <2>4, <2>5, <3>1 DEF Shape
            <3>3. Sent(k) = 0
                BY <2>2, <3>1, Counts DEF Sent
            <3>4. Matching(k.inbox, Matches[k.sub]) = {}
                BY <2>2, <3>1 DEF Matching
            <3>5. StillToCome(<<>>, 0, <<>>, {})
                BY <3>1, ComesNothing
            <3> QED BY <2>2, <3>1, <3>2, <3>3, <3>4, <3>5 DEF Complete
        <2>6. Tidy(k)
            BY <2>2, <2>5 DEF Tidy
        <2> QED BY <1>1, <2>2, <2>3, <2>6, BestMove
    <1>3. CASE Close(r)
        BY <1>1, <1>3, ClosedFacts, TidyClosed, BestMove DEF Close
    <1>4. ASSUME NEW k \in Streams, stream' = [stream EXCEPT ![r] = k], k.sub \in Durable
          PROVE  BestInv'
        BY <1>1, <1>4, TidyDurable, BestMove
    <1>5. CASE Peek(r)
        <2>1. stream[r].pc = "peek" /\ EventInv'
            BY <1>5, ReadSteps DEF Peek
        <2>2. stream[r].sub \in Durable
            BY <1>1, <2>1 DEF Tidy, Shape
        <2>3. PICK b, l : stream' = [stream EXCEPT ![r].batch = b, ![r].pc = l]
            BY <1>5 DEF Peek
        <2>4. stream' = [stream EXCEPT ![r] = stream'[r]] /\ stream'[r].sub = stream[r].sub
            BY <1>1, <2>3 DEF Streams
        <2>5. stream'[r] \in Streams
            BY <2>1 DEF EventInv, EventType
        <2>6. PICK k \in Streams : k = stream'[r]
            BY <2>5
        <2> QED BY <1>4, <2>2, <2>4, <2>6
    <1>6. CASE Lagged(r)
        <2>1. CASE IsDurable(r)
            <3> DEFINE k == [stream[r] EXCEPT !.lagged = FALSE, !.pc = "peek"]
            <3>1. k \in Streams /\ k.sub = stream[r].sub
                BY <1>1 DEF Streams
            <3>2. stream' = [stream EXCEPT ![r] = k]
                BY <1>6, <2>1 DEF Lagged
            <3> HIDE DEF k
            <3> QED BY <1>4, <2>1, <3>1, <3>2 DEF IsDurable
        <2>2. CASE ~IsDurable(r)
            BY <1>1, <1>6, <2>2, ClosedFacts, TidyClosed, BestMove DEF Lagged
        <2> QED BY <2>1, <2>2
    <1>7. CASE Wake(r)
        <2>1. /\ stream[r].pc = "wait" /\ stream[r].inbox # <<>> /\ ~stream[r].lagged
              /\ stream[r].inbox \in Seq(Event)
            BY <1>1, <1>7 DEF Wake, Streams
        <2>2. Head(stream[r].inbox) \in Event /\ Tail(stream[r].inbox) \in Seq(Event)
            BY <2>1, SMTT(30)
        <2>3. PICK e \in Event, q \in Seq(Event) : e = Head(stream[r].inbox) /\ q = Tail(stream[r].inbox)
            BY <2>2
        <2>4. CASE IsDurable(r)
            <3> DEFINE l == IF e \in SourceOf[stream[r].sub] THEN "peek" ELSE stream[r].pc
                       k == [stream[r] EXCEPT !.inbox = q, !.pc = l]
            <3>1. l \in {"peek", "wait"}
                BY <2>1
            <3>2. stream' = [stream EXCEPT ![r] = k]
                BY <1>7, <2>3, <2>4 DEF Wake
            <3>3. k \in Streams /\ k.sub = stream[r].sub
                <4> HIDE DEF l
                <4> QED BY <1>1, <3>1 DEF Streams
            <3> HIDE DEF k
            <3> QED BY <1>4, <2>4, <3>2, <3>3 DEF IsDurable
        <2>5. CASE ~IsDurable(r) /\ e \in Matches[stream[r].sub]
            <3>1. PICK x \in Entry : x = [seq |-> emit[e].num, ev |-> e] /\ x.ev = e
                <4>1. emit[e].num \in Nat
                    BY <1>1 DEF EventType, Emits
                <4>2. \A n \in Nat : [seq |-> n, ev |-> e] \in Entry /\ [seq |-> n, ev |-> e].ev = e
                    BY DEF Entry
                <4> QED BY <4>1, <4>2
            <3> DEFINE k == [stream[r] EXCEPT !.inbox = q, !.batch = {x}, !.pc = "send"]
            <3>2. stream' = [stream EXCEPT ![r] = k]
                BY <1>7, <2>3, <2>5, <3>1 DEF Wake
            <3>3. /\ k \in Streams /\ k.sub = stream[r].sub /\ k.slot = stream[r].slot /\ k.pc = "send"
                  /\ k.batch = {x} /\ k.inbox = q /\ k.seen = stream[r].seen /\ k.due = stream[r].due
                  /\ k.lagged = stream[r].lagged
                BY <1>1, <3>1 DEF Streams
            <3> HIDE DEF k
            <3>4. Tidy(k)
                BY <1>1, <2>1, <2>3, <2>5, <3>1, <3>3, TidyWake DEF IsDurable
            <3> QED BY <1>1, <3>2, <3>3, <3>4, BestMove
        <2>6. CASE ~IsDurable(r) /\ e \notin Matches[stream[r].sub]
            <3> DEFINE k == [stream[r] EXCEPT !.inbox = q]
            <3>1. stream' = [stream EXCEPT ![r] = k]
                BY <1>7, <2>3, <2>6 DEF Wake
            <3>2. /\ k \in Streams /\ k.sub = stream[r].sub /\ k.slot = stream[r].slot /\ k.pc = stream[r].pc
                  /\ k.batch = stream[r].batch /\ k.inbox = q /\ k.seen = stream[r].seen /\ k.due = stream[r].due
                  /\ k.lagged = stream[r].lagged
                BY <1>1 DEF Streams
            <3> HIDE DEF k
            <3>3. Tidy(k)
                BY <1>1, <2>1, <2>3, <2>6, <3>2, TidyWake DEF IsDurable
            <3> QED BY <1>1, <3>1, <3>2, <3>3, BestMove
        <2> QED BY <2>4, <2>5, <2>6
    <1> QED BY <1>2, <1>3, <1>5, <1>6, <1>7

\* The streams' steps that hand over.
LEMMA BestSend ==
    ASSUME EventInv, BestInv, NEW r \in Stream, Send(r) \/ Pull(r) \/ Ack(r)
    PROVE  BestInv'
    <1>1. EventType /\ stream \in [Stream -> Streams] /\ stream[r] \in Streams /\ Tidy(stream[r])
        BY DEF EventInv, EventType, BestInv
    <1>2. EventInv'
        BY SendStep, PullStep, AckStep
    <1>3. PICK m \in Streams : m = stream'[r]
        BY <1>2 DEF EventInv, EventType
    <1>4. CASE Send(r)
        <2>1. PICK x \in stream[r].batch :
                 stream' = [stream EXCEPT ![r].slot = {x}, ![r].batch = @ \ {x},
                                          ![r].pc = IF IsDurable(r) THEN "ack" ELSE "wait",
                                          ![r].cursor = IF IsDurable(r) THEN x.seq ELSE @]
            BY <1>4 DEF Send
        <2>2. stream[r].pc = "send" /\ stream[r].slot = {} /\ x \in Entry
            BY <1>1, <1>4 DEF Send, Streams
        <2>3. PICK l, n : l = (IF IsDurable(r) THEN "ack" ELSE "wait") /\ n = (IF IsDurable(r) THEN x.seq ELSE stream[r].cursor)
            OBVIOUS
        <2>4. m = [stream[r] EXCEPT !.slot = {x}, !.batch = stream[r].batch \ {x}, !.pc = l, !.cursor = n]
            BY <1>1, <1>3, <2>1, <2>3
        <2>5. /\ m.slot = {x} /\ m.batch = stream[r].batch \ {x} /\ m.pc = l /\ m.seen = stream[r].seen
              /\ m.inbox = stream[r].inbox /\ m.due = stream[r].due /\ m.lagged = stream[r].lagged /\ m.sub = stream[r].sub
            BY <1>1, <2>4 DEF Streams
        <2>6. stream' = [stream EXCEPT ![r] = m]
            BY <1>1, <1>3, <2>1
        <2>7. CASE IsDurable(r)
            BY <1>1, <2>5, <2>6, <2>7, TidyDurable, BestMove DEF IsDurable
        <2>8. CASE ~IsDurable(r)
            <3>1. Tidy(m)
                BY <1>1, <2>1, <2>2, <2>3, <2>5, <2>8, TidySend DEF IsDurable
            <3> QED BY <1>1, <2>6, <3>1, BestMove
        <2> QED BY <2>7, <2>8
    <1>5. CASE Pull(r)
        <2>1. PICK x \in stream[r].slot : stream' = [stream EXCEPT ![r].slot = {}, ![r].seen = Append(@, x)]
            BY <1>5 DEF Pull
        <2>2. x \in Entry
            BY <1>1 DEF Streams
        <2>3. m = [stream[r] EXCEPT !.slot = {}, !.seen = Append(stream[r].seen, x)]
            BY <1>1, <1>3, <2>1
        <2>4. /\ m.slot = {} /\ m.seen = Append(stream[r].seen, x) /\ m.batch = stream[r].batch /\ m.pc = stream[r].pc
              /\ m.inbox = stream[r].inbox /\ m.due = stream[r].due /\ m.lagged = stream[r].lagged /\ m.sub = stream[r].sub
            BY <1>1, <2>3 DEF Streams
        <2>5. stream' = [stream EXCEPT ![r] = m]
            BY <1>1, <1>3, <2>1
        <2>6. Tidy(m)
            BY <1>1, <2>1, <2>2, <2>4, TidyPull
        <2> QED BY <1>1, <2>5, <2>6, BestMove
    <1>6. CASE Ack(r)
        <2>1. stream[r].pc = "ack"
            BY <1>6 DEF Ack
        <2>2. stream[r].sub \in Durable
            BY <1>1, <2>1 DEF Tidy, Shape
        <2>3. PICK l : stream' = [stream EXCEPT ![r].pc = l]
            BY <1>6 DEF Ack, Acked
        <2>4. m = [stream[r] EXCEPT !.pc = l] /\ stream' = [stream EXCEPT ![r] = m]
            BY <1>1, <1>3, <2>3
        <2>5. m.sub = stream[r].sub
            BY <1>1, <2>4 DEF Streams
        <2> QED BY <1>1, <2>2, <2>4, <2>5, TidyDurable, BestMove
    <1> QED BY <1>4, <1>5, <1>6

\* Every step of the service keeps its best-effort streams complete.
LEMMA BestStep ==
    ASSUME EventInv, BestInv, [Next]_vars
    PROVE  BestInv'
    <1>1. ASSUME UNCHANGED stream
          PROVE  BestInv'
        <2>1. \A r \in Stream : Tidy(stream'[r])
            BY <1>1 DEF BestInv
        <2> QED BY <2>1, BestNow
    <1>2. CASE \E s \in Sub : SubNext(s)
        <2>1. UNCHANGED stream
            BY <1>2 DEF SubNext, Subscribe, CreateSubscription, CreateFails, CreateMailbox, LeaseEnds, Cascade, Sweep,
               RemoveByLease, RemoveRow, CancelSubscription, DrainMailbox, DrainFails
        <2> QED BY <1>1, <2>1
    <1>3. CASE \E e \in Event : EmitBroadcast(e)
        <2>1. PICK e \in Event : EmitBroadcast(e)
            BY <1>3
        <2>2. ASSUME NEW r \in Stream
              PROVE  Tidy(stream'[r])
            <3>1. stream[r] \in Streams /\ Tidy(stream[r]) /\ stream'[r] = Hear(stream[r], e)
                BY <2>1 DEF EventInv, EventType, BestInv, EmitBroadcast
            <3>2. Tidy(Hear(stream[r], e))
                BY <3>1, TidyHear
            <3> QED BY <3>1, <3>2
        <2> QED BY <2>2, BestNow
    <1>4. CASE \E e \in Event : EmitStep(e) \/ EnqueueFails(e) \/ EmitEnds(e)
        <2>1. UNCHANGED stream \/ \E e \in Event : EmitBroadcast(e)
            <3>1. PICK e \in Event : EmitStep(e) \/ EnqueueFails(e) \/ EmitEnds(e)
                BY <1>4
            <3>2. CASE EmitStart(e) \/ EnqueuePut(e) \/ EmitBroadcast(e) \/ EnqueueFails(e) \/ EmitEnds(e)
                BY <3>2 DEF EmitStart, EnqueuePut, EnqueueFails, EmitEnds
            <3>3. CASE \E s \in Sub : Enqueue(e, s) \/ EnqueueAllocate(e, s)
                BY <3>3 DEF Enqueue, EnqueueAllocate
            <3> QED BY <3>1, <3>2, <3>3 DEF EmitStep
        <2> QED BY <1>1, <1>3, <2>1
    <1>5. CASE \E r \in Stream : StreamStep(r) \/ Close(r) \/ \E s \in Sub : Receive(r, s)
        BY <1>5, BestRead, BestSend DEF StreamStep
    <1>6. CASE \E k \in lag : Settle(k)
        BY <1>1, <1>6 DEF Settle
    <1>7. CASE Restart
        <2>1. \A r \in Stream : stream'[r] = Closed
            BY <1>7 DEF Restart
        <2>2. \A r \in Stream : Tidy(stream'[r])
            BY <2>1, TidyClosed
        <2> QED BY <2>2, BestNow
    <1>8. CASE UNCHANGED vars
        BY <1>1, <1>8 DEF vars
    <1> QED BY <1>2, <1>4, <1>5, <1>6, <1>7, <1>8 DEF Next

\* A best-effort stream that is open and was not told it lagged has every matching
\* event broadcast since it subscribed, in order: for any number of streams and
\* events, any templates and capacity, however broadcasts, sends and pulls interleave
\* (best_effort_loop).
THEOREM BestEffortCompleteHolds == Spec => []BestEffortComplete
    <1>1. Init => BestInv
        <2> SUFFICES ASSUME Init, NEW r \in Stream PROVE Tidy(stream[r])
            BY DEF BestInv
        <2>1. stream[r] = Closed
            BY DEF Init
        <2> QED BY <2>1, TidyClosed
    <1>2. EventInv /\ BestInv /\ [Next]_vars => BestInv'
        BY BestStep
    <1>3. BestInv => BestEffortComplete
        BY DEF BestInv, Tidy, BestEffortComplete, IsDurable
    <1> QED BY <1>1, <1>2, <1>3, EventSafety, PTL DEF Spec
=============================================================================
