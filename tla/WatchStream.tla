----------------------------- MODULE WatchStream -----------------------------
(***************************************************************************)
(* The streams of changes: Notify of Space (appearances or expirations,    *)
(* through a task and a channel), Watch of the Registry and WatchExpiry of *)
(* a Landlord (read straight from the broadcast), with the leased row that *)
(* Notify keeps.  Every stream has a receiver of its own, so one stream    *)
(* stands for all.                                                         *)
(*                                                                         *)
(* An item is a tuple or a registry entry, at version 1 or, once modified, *)
(* 2.  Storing a change and announcing it are two steps, and the in-memory *)
(* store of the Registry takes several to store one.                       *)
(***************************************************************************)
EXTENDS Matcher, InOrder, FiniteSets

CONSTANTS
    Item,
    Attrs,       \* [Item -> [1..2 -> attributes]]
    Interface,   \* [Item -> text]
    Template,    \* templates streams are opened with
    Ring,        \* capacity of the broadcast (256)
    Channel,     \* capacity of Notify's channel (64)
    MaxModify,   \* bound: entries that are modified
    Text         \* texts the reference definition of matching ranges over

ASSUME WatchAssumption == Ring \in Nat \ {0} /\ Channel \in Nat \ {0} /\ MaxModify \in Nat

\* Fields and interfaces are texts, templates are of texts, and the reference ranges
\* over every part of a field.
ASSUME TextAssumption ==
    /\ Text \subseteq Seq(STRING)
    /\ \A t \in Text : \A m, n \in 0..Len(t) : SubSeq(t, m + 1, n) \in Text
    /\ \A i \in Item : Interface[i] \in Text
    /\ \A i \in Item : \A v \in 1..2 : \A k \in DOMAIN Attrs[i][v] : Attrs[i][v][k] \in Text
    /\ \A tpl \in Template : \A k \in DOMAIN tpl : tpl[k] \in Asked

VARIABLES
    on,          \* "appearance", "expiration" (Notify), "registry" or "lease"
    memory,      \* is the store the in-memory one
    watch,       \* the call and its stream
    watchRow,    \* the row: is it stored, indexed by lease (or shown by the index),
                 \* and how many removals have found it
    watchLease,  \* "none", "held" or "ended"
    item,        \* of each item: its stored version (0: none), where the call that
                 \* stores it is, is it indexed by lease, how many removals have its
                 \* id, history: was it stored again after a removal, and the
                 \* changes to be announced
    stopping     \* has shutdown begun

watchVars == <<on, memory, watch, watchRow, watchLease, item, stopping>>

Loss == <<"loss">>

IsRegistry == on = "registry"
Direct == on \in {"registry", "lease"}

\* (A snapshot of the Registry over DynamoDB may be stale; it is left out.)
WatchInit ==
    /\ on \in {"appearance", "expiration", "registry", "lease"} /\ memory \in BOOLEAN
    /\ Direct => memory
    /\ watch = [pc |-> "idle", tpl |-> <<>>, inbox |-> <<>>, lagged |-> FALSE, task |-> "none",
                held |-> <<>>, slot |-> <<>>, got |-> <<>>, due |-> <<>>, view |-> {}, snapped |-> FALSE]
    /\ watchRow = [there |-> FALSE, indexed |-> FALSE, found |-> 0] /\ watchLease = "none"
    /\ item = [i \in Item |-> [at |-> 0, pc |-> "none", indexed |-> FALSE, found |-> 0,
                               back |-> FALSE, news |-> {}]]
    /\ stopping = FALSE

\* What a template of the Registry is matched against.
Combined(i, v) ==
    [k \in {"interface"} \cup DOMAIN Attrs[i][v] |->
        IF k = "interface" THEN Interface[i] ELSE Attrs[i][v][k]]

Fields(i, v) == IF IsRegistry THEN Combined(i, v) ELSE Attrs[i][v]

\* WatchExpiry compares the resource, when one is given.
Passes(tpl, e) ==
    IF on = "lease" THEN tpl \in {<<>>, e[2]}
    ELSE matches(parse_template(tpl), Fields(e[2], e[3]))

lookup_all(tpl) == {i \in Item : item[i].at # 0 /\ matches(parse_template(tpl), Combined(i, item[i].at))}

-----------------------------------------------------------------------------
\* Notify: a lease, the row, and only then the subscription.
Notify ==
    /\ ~Direct /\ watch.pc = "idle"
    /\ \E t \in Template : watch' = [watch EXCEPT !.pc = "granted", !.tpl = t]
    /\ watchLease' = "held"
    /\ UNCHANGED <<on, memory, watchRow, item, stopping>>

\* Mutant: indexed first.
index_first ==
    /\ memory
    /\ \/ /\ watch.pc = "granted" /\ watchRow' = [watchRow EXCEPT !.indexed = TRUE]
          /\ watch' = [watch EXCEPT !.pc = "stored"]
       \/ /\ watch.pc = "stored" /\ watchRow' = [watchRow EXCEPT !.there = TRUE]
          /\ watch' = [watch EXCEPT !.pc = "created"]
    /\ UNCHANGED <<on, memory, watchLease, item, stopping>>

\* In memory the row is stored and then indexed ...
create_watch ==
    /\ memory
    /\ \/ /\ watch.pc = "granted" /\ watchRow' = [watchRow EXCEPT !.there = TRUE]
          /\ watch' = [watch EXCEPT !.pc = "stored"]
       \/ /\ watch.pc = "stored" /\ watchRow' = [watchRow EXCEPT !.indexed = TRUE]
          /\ watch' = [watch EXCEPT !.pc = "created"]
    /\ UNCHANGED <<on, memory, watchLease, item, stopping>>

\* ... in DynamoDB it is put, and the index may show it late; or the put fails.
put_watch ==
    /\ ~memory /\ watch.pc = "granted"
    /\ \/ /\ \E x \in BOOLEAN : watchRow' = [watchRow EXCEPT !.there = TRUE, !.indexed = x]
          /\ watch' = [watch EXCEPT !.pc = "created"]
       \/ /\ UNCHANGED watchRow
          /\ watch' = [watch EXCEPT !.pc = "ended"]
    /\ UNCHANGED <<on, memory, watchLease, item, stopping>>

Subscribe ==
    /\ watch.pc = "created"
    /\ watch' = [watch EXCEPT !.pc = "open", !.task = "run"]
    /\ UNCHANGED <<on, memory, watchRow, watchLease, item, stopping>>

\* Watch of the Registry, and WatchExpiry.
Watch ==
    /\ Direct /\ watch.pc = "idle"
    /\ \E t \in IF IsRegistry THEN Template ELSE {<<>>} \cup Item : watch' = [watch EXCEPT !.pc = "open", !.tpl = t]
    /\ UNCHANGED <<on, memory, watchRow, watchLease, item, stopping>>

\* Its client then takes the snapshot its stream starts from (LookupAll).
Snapshot ==
    /\ IsRegistry /\ watch.pc = "open" /\ ~watch.snapped
    /\ watch' = [watch EXCEPT !.snapped = TRUE, !.view = @ \cup lookup_all(watch.tpl)]
    /\ UNCHANGED <<on, memory, watchRow, watchLease, item, stopping>>

-----------------------------------------------------------------------------
\* Changes: a tuple is written, or a lease granted ...
InsertItem(i) ==
    /\ ~IsRegistry /\ item[i].pc = "none"
    /\ item' = [item EXCEPT ![i].pc = "stored", ![i].at = 1, ![i].news = {<<"in", i, 1>>}]
    /\ UNCHANGED <<on, memory, watch, watchRow, watchLease, stopping>>

\* ... and its lease ends.
Reclaim(i) ==
    /\ ~IsRegistry /\ item[i].at # 0
    /\ item' = [item EXCEPT ![i].at = 0, ![i].news = @ \cup {<<"out", i, item[i].at>>}]
    /\ UNCHANGED <<on, memory, watch, watchRow, watchLease, stopping>>

\* The Registry in memory: register indexes an entry and then stores it.
register(i) ==
    /\ IsRegistry
    /\ \/ /\ item[i].pc = "none"
          /\ item' = [item EXCEPT ![i].pc = "indexed", ![i].indexed = TRUE]
       \/ /\ item[i].pc = "indexed"
          /\ item' = [item EXCEPT ![i].pc = "stored", ![i].at = 1, ![i].news = {<<"in", i, 1>>}]
    /\ UNCHANGED <<on, memory, watch, watchRow, watchLease, stopping>>

\* modify_attrs, or register again with changes: the entry is read ...
ModifyReads(i) ==
    /\ IsRegistry /\ item[i].pc = "stored" /\ item[i].at # 0
    /\ Cardinality({j \in Item : item[j].pc \in {"read", "checked", "done"}}) < MaxModify
    /\ item' = [item EXCEPT ![i].pc = "read"]
    /\ UNCHANGED <<on, memory, watch, watchRow, watchLease, stopping>>

\* Mutant: the change is not announced.
update_silently(i) ==
    /\ IsRegistry
    /\ \/ /\ item[i].pc = "read" /\ item[i].at # 0
          /\ item' = [item EXCEPT ![i].pc = "checked", ![i].indexed = TRUE]
       \/ /\ item[i].pc = "checked"
          /\ item' = [item EXCEPT ![i].pc = "done", ![i].at = 2, ![i].back = @ \/ item[i].at = 0]
    /\ UNCHANGED <<on, memory, watch, watchRow, watchLease, stopping>>

\* ... found there still, and indexed again; then it is stored, gone by now or not.
\* The change is announced even if it was found gone.
update(i) ==
    /\ IsRegistry
    /\ \/ /\ item[i].pc = "read" /\ item[i].at # 0
          /\ item' = [item EXCEPT ![i].pc = "checked", ![i].indexed = TRUE]
       \/ /\ item[i].pc = "read" /\ item[i].at = 0
          /\ item' = [item EXCEPT ![i].pc = "done", ![i].news = @ \cup {<<"in", i, 2>>}]
       \/ /\ item[i].pc = "checked"
          /\ item' = [item EXCEPT ![i].pc = "done", ![i].at = 2, ![i].back = @ \/ item[i].at = 0,
                                  ![i].news = @ \cup {<<"in", i, 2>>}]
    /\ UNCHANGED <<on, memory, watch, watchRow, watchLease, stopping>>

\* The lease has ended: the cascade, or the sweep, takes the entry's id from the
\* index and then the entry, and announces what it took.
unregister_by_lease(i) ==
    /\ IsRegistry
    /\ \/ /\ item[i].indexed
          /\ item' = [item EXCEPT ![i].indexed = FALSE, ![i].found = @ + 1]
       \/ /\ item[i].found # 0
          /\ item' = [item EXCEPT ![i].found = @ - 1, ![i].at = 0,
                ![i].news = @ \cup IF item[i].at = 0 THEN {} ELSE {<<"out", i, item[i].at>>}]
    /\ UNCHANGED <<on, memory, watch, watchRow, watchLease, stopping>>

Heard(e) == \/ IsRegistry
            \/ on = "appearance" /\ e[1] = "in"
            \/ on \in {"expiration", "lease"} /\ e[1] = "out"

Subscribed == IF Direct THEN watch.pc = "open" ELSE watch.task \in {"run", "last"}

-----------------------------------------------------------------------------
\* Reference: what a template asks for, by the texts it admits.
Admits(v, value) ==
    \/ v.op = "" /\ (v.rest \in {<<>>, <<Star>>} \/ value = v.rest)
    \/ v.op = "contains:" /\ \E p, q \in Text : value = p \o v.rest \o q
    \/ v.op = "starts_with:" /\ \E q \in Text : value = v.rest \o q

Wanted(tpl, e) ==
  IF on = "lease" THEN tpl = <<>> \/ tpl = e[2] ELSE
    \A k \in DOMAIN tpl :
        LET isAny == tpl[k].op = "" /\ tpl[k].rest \in {<<>>, <<Star>>}
            attrs == Attrs[e[2]][e[3]]
        IN \/ isAny
           \/ IsRegistry /\ k = "interface" /\ Admits(tpl[k], Interface[e[2]])
           \/ /\ ~(IsRegistry /\ k = "interface")
              /\ k \in DOMAIN attrs /\ Admits(tpl[k], attrs[k])

\* A send on the broadcast: the oldest change is overwritten when the ring is full.
Announce(i) ==
    \E e \in item[i].news :
        LET box == IF Subscribed /\ Heard(e) THEN Append(watch.inbox, e) ELSE watch.inbox
            full == Len(box) > Ring
        IN
        /\ item' = [item EXCEPT ![i].news = @ \ {e}]
        /\ watch' = [watch EXCEPT
              !.inbox = IF full THEN Tail(box) ELSE box,
              !.lagged = @ \/ full,
              !.due = IF Subscribed /\ Heard(e) /\ Wanted(watch.tpl, e) THEN Append(@, e) ELSE @]
        /\ UNCHANGED <<on, memory, watchRow, watchLease, stopping>>

-----------------------------------------------------------------------------
\* Mutant: the task goes on after it has lagged.
TaskRecvOn ==
    /\ watch.task = "run" /\ watch.held = <<>> /\ watch.inbox # <<>>
    /\ watch' = [watch EXCEPT !.inbox = Tail(@), !.lagged = FALSE,
                  !.held = IF Passes(watch.tpl, Head(watch.inbox)) THEN <<Head(watch.inbox)>> ELSE <<>>]
    /\ UNCHANGED <<on, memory, watchRow, watchLease, item, stopping>>

\* Notify's task: the next change its template matches, or the loss of some, after
\* which it ends ...
TaskRecv ==
    /\ watch.task = "run" /\ watch.held = <<>>
    /\ \/ /\ watch.lagged
          /\ watch' = [watch EXCEPT !.lagged = FALSE, !.held = <<Loss>>, !.task = "last"]
       \/ /\ ~watch.lagged /\ watch.inbox # <<>>
          /\ watch' = [watch EXCEPT !.inbox = Tail(@),
                !.held = IF Passes(watch.tpl, Head(watch.inbox)) THEN <<Head(watch.inbox)>> ELSE <<>>]
    /\ UNCHANGED <<on, memory, watchRow, watchLease, item, stopping>>

\* ... is sent when the channel has room; a task finds out here that its client
\* has gone.
TaskSend ==
    /\ watch.held # <<>>
    /\ \/ /\ watch.pc = "ended"
          /\ watch' = [watch EXCEPT !.task = "over", !.held = <<>>, !.inbox = <<>>, !.lagged = FALSE]
       \/ /\ watch.pc = "open" /\ Len(watch.slot) < Channel
          /\ watch' = [watch EXCEPT !.slot = @ \o watch.held, !.held = <<>>,
                          !.task = IF @ = "last" THEN "over" ELSE @]
    /\ UNCHANGED <<on, memory, watchRow, watchLease, item, stopping>>

\* The transport polls the stream: shutdown first (end_stream), then the channel,
\* or the broadcast itself.
EndStream == watch' = [watch EXCEPT !.pc = "ended", !.slot = <<>>, !.inbox = IF Direct THEN <<>> ELSE @]

Poll ==
    /\ watch.pc = "open"
    /\ \/ stopping /\ EndStream
       \/ /\ ~stopping /\ ~Direct /\ watch.slot # <<>>
          /\ IF Head(watch.slot) = Loss THEN EndStream
             ELSE watch' = [watch EXCEPT !.slot = Tail(@), !.got = Append(@, Head(watch.slot))]
       \/ /\ ~stopping /\ Direct /\ watch.lagged /\ EndStream
       \/ /\ ~stopping /\ Direct /\ ~watch.lagged /\ watch.inbox # <<>>
          /\ LET e == Head(watch.inbox) IN
             watch' = IF ~Passes(watch.tpl, e) THEN [watch EXCEPT !.inbox = Tail(@)]
                      ELSE [watch EXCEPT !.inbox = Tail(@), !.got = Append(@, e),
                              !.view = IF e[1] = "in" THEN @ \cup {e[2]} ELSE @ \ {e[2]}]
    /\ UNCHANGED <<on, memory, watchRow, watchLease, item, stopping>>

\* The client goes away.
Hangup ==
    /\ watch.pc = "open" /\ EndStream
    /\ UNCHANGED <<on, memory, watchRow, watchLease, item, stopping>>

Shutdown ==
    /\ ~stopping /\ stopping' = TRUE
    /\ UNCHANGED <<on, memory, watch, watchRow, watchLease, item>>

-----------------------------------------------------------------------------
WatchLeaseEnds ==
    /\ watchLease = "held" /\ watchLease' = "ended"
    /\ UNCHANGED <<on, memory, watch, watchRow, item, stopping>>

\* DynamoDB's index shows the row.
WatchSettle ==
    /\ ~memory /\ watchRow.there /\ ~watchRow.indexed
    /\ watchRow' = [watchRow EXCEPT !.indexed = TRUE]
    /\ UNCHANGED <<on, memory, watch, watchLease, item, stopping>>

\* Those that remove rows: the cascade's task for the lease, and the sweep.
Removers == 2

\* The row is found through the index, which in memory gives it up; the row goes
\* next.  DynamoDB's query or delete may fail.
remove_watch_by_lease ==
    \/ /\ watchRow.indexed /\ watchRow.found < Removers
       /\ watchRow' = [watchRow EXCEPT !.indexed = ~memory, !.found = @ + 1]
    \/ /\ watchRow.found # 0
       /\ \E fails \in IF memory THEN {FALSE} ELSE BOOLEAN :
             watchRow' = IF fails THEN [watchRow EXCEPT !.found = @ - 1]
                         ELSE [there |-> FALSE, indexed |-> FALSE, found |-> watchRow.found - 1]

\* Called by the cascade, and by the sweep as long as it lists the row.  What
\* finds nothing, or fails, is dropped.
on_watch_expired ==
    /\ watchLease = "ended"
    /\ remove_watch_by_lease
    /\ UNCHANGED <<on, memory, watch, watchLease, item, stopping>>

Opens == Notify \/ create_watch \/ Subscribe

\* The row and the stream share the call that opens them and nothing else.
StreamNext ==
    \/ Opens \/ Watch \/ Snapshot
    \/ \E i \in Item : InsertItem(i) \/ Reclaim(i) \/ register(i) \/ ModifyReads(i) \/ update(i)
                        \/ unregister_by_lease(i) \/ Announce(i)
    \/ TaskRecv \/ TaskSend \/ Poll \/ Hangup \/ Shutdown

RowNext == Opens \/ put_watch \/ Hangup \/ WatchLeaseEnds \/ WatchSettle \/ on_watch_expired

WatchSpec == WatchInit /\ [][StreamNext \/ RowNext]_watchVars

Change == {"in", "out"} \X Item \X (1..2)

WatchTypeOK ==
    /\ watch.pc \in {"idle", "granted", "stored", "created", "open", "ended"}
    /\ watch.task \in {"none", "run", "last", "over"}
    /\ watch.inbox \in Seq(Change) /\ Len(watch.inbox) <= Ring
    /\ watch.slot \in Seq(Change \cup {Loss}) /\ Len(watch.slot) <= Channel
    /\ watch.view \subseteq Item /\ watchLease \in {"none", "held", "ended"}
    /\ watchRow \in [there : BOOLEAN, indexed : BOOLEAN, found : 0..Removers]
    /\ \A i \in Item : item[i].found \in 0..2

\* The changes of an inbox that a template asks for, by their positions.
AskedIn(tpl, inbox) == {n \in 1..Len(inbox) : Wanted(tpl, inbox[n])}

\* A stream has no silent gap: what its client has received, followed by what is
\* on its way, is exactly what the template asks for since the stream was opened,
\* in order, unless a DATA_LOSS is on its way (TaskRecv, Poll).
NoSilentGap ==
    LET way == watch.slot \o watch.held
    IN
    /\ starts_with(watch.due, watch.got)
    /\ (watch.pc = "open" /\ ~watch.lagged /\ (\A n \in 1..Len(way) : way[n] # Loss) /\ watch.task # "over")
          => /\ starts_with(watch.due, watch.got \o way)
             /\ StillToCome(watch.due, Len(watch.got \o way), watch.inbox, AskedIn(watch.tpl, watch.inbox))

\* A client that opened a Registry Watch and then took a snapshot knows every
\* entry that matches once all announced changes have reached it: none is missed
\* between the two calls, however stores and announcements interleave (register,
\* modify_attrs, watch).  The exception is an entry whose lease ended in the midst
\* of an update, which stored it again after the removal: see README, Known
\* divergences.
ViewIsComplete ==
    (/\ IsRegistry /\ watch.pc = "open" /\ watch.snapped /\ ~watch.lagged
     /\ watch.inbox = <<>> /\ \A i \in Item : item[i].news = {})
        => \A i \in lookup_all(watch.tpl) : i \in watch.view \/ item[i].back

\* In memory a stored row can be reached from its lease until it is gone: it is
\* indexed, or about to be, or a removal that has found it is about to take it.  So
\* the end of the lease in the midst of Notify, with a cascade that finds nothing,
\* leaves no row that the sweep could not remove (create_watch,
\* remove_watch_by_lease).
WatchRowIsFindable ==
    memory /\ watchRow.there => watchRow.indexed \/ watch.pc = "stored" \/ watchRow.found # 0
=============================================================================
