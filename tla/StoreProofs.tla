---------------------------- MODULE StoreProofs -----------------------------
(***************************************************************************)
(* What the stores hold stays accounted for: the orphan sweep reclaims     *)
(* nothing that is leased, and over DynamoDB no tuple is taken twice,      *)
(* shown early or lost, for any leases, tuples, calls and faults.          *)
(***************************************************************************)
EXTENDS OrphanSweep, DynamoSpace, TLAPS

\* Most steps are first-order; those that count or update records cite SMT.
USE Zenon

-----------------------------------------------------------------------------
(***************************************************************************)
(* The tuple space over DynamoDB: its inductive invariant, and that its    *)
(* steps keep it however late the reads are.                               *)
(***************************************************************************)

Track3 == Txn \X Tuple \X BOOLEAN
LateItem == ({"tuples", "uncommitted"} \X Tuple) \cup ({"taken"} \X Track3)
Steps == {"idle", "own", "own_track", "scan", "try", "track", "writes", "unbuffer", "takes", "untrack",
          "remove", "buffers", "taken"}
Things == Tuple \cup Track3
Procs == [pc : Steps, todo : SUBSET Things, at : Things \cup {NoTuple}, txn : Txn \cup {NoTxn}]

SpaceType ==
    /\ tuples \subseteq Tuple /\ uncommitted \subseteq Tuple /\ written \subseteq Tuple /\ expired \subseteq Tuple
    /\ taken \subseteq Track3 /\ late \subseteq LateItem
    /\ proc \in [Caller -> Procs]
    /\ decided \in [Txn -> {"open", "commit", "abort"}]
    /\ inserts \in [Tuple -> Nat] /\ takes \in [Tuple -> Nat]

\* A tracking item that an abort restores from is of a tuple that was visible.
WasVisible(i) == i[3] \/ inserts[i[2]] > 0

\* What a call holds at each of its steps: a handler works for a transaction
\* that was told to end, on what belongs to that transaction.
ProcInv(c) ==
    /\ proc[c].pc \in {"own", "own_track", "scan", "try", "track"} => c \in Client
    /\ proc[c].pc \in {"own", "own_track", "track"} => proc[c].at \in Tuple /\ Asks[c] \in Txn
    /\ proc[c].pc = "track" => inserts[proc[c].at] > 0
    /\ proc[c].pc = "try" => proc[c].todo \subseteq Tuple
    /\ proc[c].pc \in {"remove", "buffers", "taken"} => proc[c].at \in Tuple
    /\ proc[c].pc \in {"writes", "unbuffer", "takes", "untrack"} =>
          proc[c].txn \in Txn /\ decided[proc[c].txn] # "open"
    /\ proc[c].pc \in {"writes", "unbuffer"} =>
          \A x \in proc[c].todo : x \in Tuple /\ Context[x] = proc[c].txn
    /\ proc[c].pc = "unbuffer" => proc[c].at \in proc[c].todo
    /\ proc[c].pc \in {"takes", "untrack"} =>
          \A i \in proc[c].todo : i \in Track3 /\ i[1] = proc[c].txn /\ WasVisible(i)
    /\ proc[c].pc = "untrack" => proc[c].at \in proc[c].todo /\ ~proc[c].at[3]

\* A visible tuple has been put there once more than it was taken from there.
CountInv ==
    \A x \in Tuple : takes[x] <= inserts[x] /\ (x \in tuples => takes[x] < inserts[x])

\* ... the items that a late read may still show included.
TrackInv ==
    /\ \A i \in taken : WasVisible(i)
    /\ \A i \in Track3 : <<"taken", i>> \in late => WasVisible(i)

\* The tuple is accounted for, and no call that is under way can undo it: an
\* item does not count while an abort is about to delete it.
Settled(x) ==
    \/ x \in tuples \cup gone \cup stray
    \/ \E c \in Client : proc[c].pc \in {"track", "own_track"} /\ proc[c].at = x
    \/ \E i \in taken : /\ i[2] = x
                        /\ \A h \in Caller : ~(proc[h].pc = "untrack" /\ proc[h].at = i)

\* A stored tuple is buffered or settled; what a handler is about to delete from
\* the buffer, or to untrack, is settled.
KeepInv ==
    /\ \A x \in written : x \in uncommitted \/ Settled(x)
    /\ \A h \in Caller : /\ proc[h].pc = "unbuffer" => Settled(proc[h].at)
                         /\ proc[h].pc = "untrack" => Settled(proc[h].at[2])

SpaceInv ==
    /\ SpaceType /\ \A c \in Caller : ProcInv(c)
    /\ CountInv /\ TrackInv /\ UncommittedIsHidden /\ KeepInv

\* What no step undoes: the end of a transaction and the visits of a tuple.
Grow ==
    /\ decided' \in [Txn -> {"open", "commit", "abort"}]
    /\ \A t \in Txn : decided[t] # "open" => decided'[t] = decided[t]
    /\ inserts' \in [Tuple -> Nat] /\ \A x \in Tuple : inserts'[x] >= inserts[x]

\* Of all calls c alone moves: to step l, with these tuples.
Moved(c, l, todo, x, t) ==
    /\ proc' \in [Caller -> Procs]
    /\ proc'[c].pc = l /\ proc'[c].todo = todo /\ proc'[c].at = x /\ proc'[c].txn = t
    /\ \A d \in Caller \ {c} : proc'[d] = proc[d]

\* A write makes no other item late.
LEMMA WroteItem ==
    ASSUME NEW i, Wrote(i)
    PROVE  late' \subseteq late \cup {i}
    BY DEF Wrote

\* A read shows what is in the table, or what is late.
LEMMA SeenItem ==
    ASSUME NEW table, NEW items, NEW S \in Seen(table, items), NEW x \in S
    PROVE  x \in items \/ <<table, x>> \in late
    BY DEF Seen

\* A step of a call, with the fields as they are then.
LEMMA SetMoves ==
    ASSUME SpaceType, NEW c \in Caller, NEW l \in Steps, NEW T \in SUBSET Things,
           NEW x \in Things \cup {NoTuple}, Set(c, l, T, x)
    PROVE  Moved(c, l, T, x, proc[c].txn)
    <1>1. proc \in [Caller -> Procs] /\ proc' = [proc EXCEPT ![c].pc = l, ![c].todo = T, ![c].at = x]
        BY DEF SpaceType, Set
    <1> QED BY <1>1 DEF Moved, Procs

\* A call's entry is replaced as a whole.
LEMMA EntryMoves ==
    ASSUME SpaceType, NEW c \in Caller, NEW r \in Procs, proc' = [proc EXCEPT ![c] = r]
    PROVE  Moved(c, r.pc, r.todo, r.at, r.txn)
    BY DEF Moved, SpaceType

\* Visits are only added, so an item that was restorable is.
LEMMA VisibleStays ==
    ASSUME SpaceType, Grow
    PROVE  \A i \in Track3 : WasVisible(i) => WasVisible(i)'
    BY SMT DEF Grow, SpaceType, WasVisible, Track3

\* A call that does not move keeps what is true of it.
LEMMA ProcStays ==
    ASSUME SpaceType, Grow, NEW c \in Caller, ProcInv(c), proc'[c] = proc[c]
    PROVE  ProcInv(c)'
    <1>1. \A i \in Track3 : WasVisible(i) => WasVisible(i)'
        BY VisibleStays
    <1>2. proc[c].pc = "track" => inserts'[proc[c].at] > 0
        BY SMT DEF Grow, SpaceType, ProcInv
    <1> QED BY <1>1, <1>2, SMT DEF ProcInv, Grow

\* The moved call aside, that holds of every call.
LEMMA ProcsStay ==
    ASSUME SpaceInv, Grow, NEW c \in Caller, NEW l, NEW T, NEW x, NEW t, Moved(c, l, T, x, t), ProcInv(c)'
    PROVE  \A d \in Caller : ProcInv(d)'
    BY ProcStays DEF SpaceInv, Moved

\* So it is in the table and in the reads that are late.
LEMMA TrackStays ==
    ASSUME SpaceInv, Grow,
           \A i \in taken' : i \in taken \/ WasVisible(i)',
           \A i \in Track3 : <<"taken", i>> \in late' => <<"taken", i>> \in late \/ WasVisible(i)'
    PROVE  TrackInv'
    <1>1. \A i \in Track3 : WasVisible(i) => WasVisible(i)'
        BY VisibleStays DEF SpaceInv
    <1>2. taken \subseteq Track3 /\ TrackInv
        BY DEF SpaceInv, SpaceType
    <1> QED BY <1>1, <1>2 DEF TrackInv

\* A tuple that becomes visible was so before, was written outside any
\* transaction, or in one that was told to commit.
LEMMA HiddenStays ==
    ASSUME SpaceInv, Grow,
           \A x \in Tuple : inserts'[x] > 0 => \/ inserts[x] > 0 \/ Context[x] = NoTxn
                                               \/ decided[Context[x]] = "commit"
    PROVE  UncommittedIsHidden'
    <1>1. UncommittedIsHidden /\ Context \in [Tuple -> Txn \cup {NoTxn}]
        BY DynamoSpaceAssumption DEF SpaceInv
    <1> SUFFICES ASSUME NEW x \in Tuple, Context[x] # NoTxn, inserts'[x] > 0
                 PROVE  decided'[Context[x]] = "commit"
        BY DEF UncommittedIsHidden
    <1>2. decided[Context[x]] = "commit"
        BY <1>1 DEF UncommittedIsHidden
    <1> QED BY <1>1, <1>2 DEF Grow

\* A settled tuple stays so, if what call c deletes is handed on: a visible
\* tuple to a take or to gone, a tracked one to the table, an item to gone or,
\* when an abort deletes it, to the visible table before.
LEMMA SettledStays ==
    ASSUME SpaceInv, NEW c \in Caller, NEW l, NEW T, NEW y, NEW t, Moved(c, l, T, y, t),
           gone \subseteq gone', stray \subseteq stray',
           \A x \in tuples \ tuples' : x \in gone' \/ (c \in Client /\ l = "track" /\ y = x),
           \A x \in Tuple : proc[c].pc \in {"track", "own_track"} /\ proc[c].at = x => Settled(x)',
           \A i \in taken \ taken' : i[2] \in gone' \/ (proc[c].pc = "untrack" /\ proc[c].at = i),
           l = "untrack" => y[2] \in tuples',
           NEW x \in Tuple, Settled(x)
    PROVE  Settled(x)'
    <1>1. CASE x \in tuples \cup gone \cup stray
        BY <1>1 DEF Settled, Moved
    <1>2. ASSUME NEW d \in Client, proc[d].pc \in {"track", "own_track"}, proc[d].at = x
          PROVE  Settled(x)'
        <2>1. CASE d = c
            BY <1>2, <2>1
        <2>2. CASE d # c
            BY <1>2, <2>2 DEF Settled, Moved, Caller
        <2> QED BY <2>1, <2>2
    <1>3. ASSUME NEW i \in taken, i[2] = x, \A h \in Caller : ~(proc[h].pc = "untrack" /\ proc[h].at = i)
          PROVE  Settled(x)'
        <2>1. CASE i \notin taken'
            BY <1>3, <2>1 DEF Settled
        <2>2. CASE l = "untrack" /\ y = i
            BY <1>3, <2>2 DEF Settled
        <2>3. CASE i \in taken' /\ ~(l = "untrack" /\ y = i)
            <3>1. \A h \in Caller : ~(proc'[h].pc = "untrack" /\ proc'[h].at = i)
                BY <1>3, <2>3 DEF Moved
            <3> QED BY <1>3, <2>3, <3>1 DEF Settled
        <2> QED BY <2>1, <2>2, <2>3
    <1> QED BY <1>1, <1>2, <1>3 DEF Settled

\* Nothing that is stored is lost, if what leaves the buffer is settled.
LEMMA KeepStays ==
    ASSUME SpaceInv, NEW c \in Caller, NEW l, NEW T, NEW y, NEW t, Moved(c, l, T, y, t),
           \A x \in Tuple : Settled(x) => Settled(x)',
           \A x \in written' : x \in written /\ (x \in uncommitted \ uncommitted' => Settled(x)'),
           l = "unbuffer" => Settled(y)', l = "untrack" => Settled(y[2])'
    PROVE  KeepInv'
    <1>1. KeepInv /\ written \subseteq Tuple
        BY DEF SpaceInv, SpaceType
    <1>2. \A x \in written' : x \in uncommitted' \/ Settled(x)'
        BY <1>1 DEF KeepInv
    <1>3. ASSUME NEW h \in Caller
          PROVE  /\ (proc[h].pc = "unbuffer" => Settled(proc[h].at))'
                 /\ (proc[h].pc = "untrack" => Settled(proc[h].at[2]))'
        <2>1. CASE h = c
            BY <2>1 DEF Moved
        <2>2. CASE h # c
            <3>1. /\ proc'[h] = proc[h]
                  /\ proc[h].pc = "unbuffer" => proc[h].at \in Tuple
                  /\ proc[h].pc = "untrack" => proc[h].at[2] \in Tuple
                BY <2>2 DEF Moved, SpaceInv, ProcInv, Track3
            <3> QED BY <1>1, <3>1 DEF KeepInv
        <2> QED BY <2>1, <2>2
    <1> QED BY <1>2, <1>3 DEF KeepInv

\* A step that reads, or gives up, and changes no table.
LEMMA QuietStep ==
    ASSUME SpaceInv, NEW c \in Caller, NEW l, NEW T, NEW y, NEW t, Moved(c, l, T, y, t),
           UNCHANGED <<tables, written, inserts, takes, stray, expired>>, Grow, gone \subseteq gone',
           ProcInv(c)', l \notin {"unbuffer", "untrack"},
           proc[c].pc \in {"track", "own_track"} => proc[c].at \in gone'
    PROVE  SpaceInv'
    <1>1. SpaceType'
        BY DEF SpaceInv, SpaceType, Grow, Moved, tables
    <1>2. \A d \in Caller : ProcInv(d)'
        BY ProcsStay
    <1>3. CountInv'
        BY DEF SpaceInv, CountInv, tables
    <1>4. TrackInv'
        BY TrackStays DEF tables
    <1>5. UncommittedIsHidden'
        BY HiddenStays
    <1>6. \A x \in Tuple : Settled(x) => Settled(x)'
        <2>1. \A x \in Tuple : proc[c].pc \in {"track", "own_track"} /\ proc[c].at = x => Settled(x)'
            BY DEF Settled
        <2> QED BY <2>1, SettledStays DEF tables
    <1>7. KeepInv'
        BY <1>6, KeepStays DEF tables
    <1> QED BY <1>1, <1>2, <1>3, <1>4, <1>5, <1>7 DEF SpaceInv

\* insert puts one tuple into the visible table, and counts it if it was not there.
LEMMA Inserted ==
    ASSUME SpaceInv, NEW x \in Tuple, Insert(x), UNCHANGED <<takes, decided>>
    PROVE  /\ tuples' = tuples \cup {x} /\ inserts' \in [Tuple -> Nat] /\ inserts'[x] > 0
           /\ \A y \in Tuple \ {x} : inserts'[y] = inserts[y]
           /\ late' \subseteq late \cup {<<"tuples", x>>} /\ late' \subseteq LateItem
           /\ CountInv' /\ Grow
    <1>1. /\ inserts \in [Tuple -> Nat] /\ takes \in [Tuple -> Nat] /\ tuples \subseteq Tuple /\ CountInv
          /\ late \subseteq LateItem /\ decided \in [Txn -> {"open", "commit", "abort"}]
        BY DEF SpaceInv, SpaceType
    <1>2. late' \subseteq late \cup {<<"tuples", x>>} /\ tuples' = tuples \cup {x}
        BY WroteItem DEF Insert
    <1>3. late' \subseteq LateItem
        BY <1>1, <1>2, SMT DEF LateItem
    <1>4. CASE x \in tuples
        <2>1. inserts' = inserts /\ tuples' = tuples
            BY <1>1, <1>2, <1>4 DEF Insert
        <2>2. inserts[x] > 0
            BY <1>1, <1>4, SMT DEF CountInv
        <2> QED BY <1>1, <1>2, <1>3, <2>1, <2>2, SMT DEF CountInv, Grow
    <1>5. CASE x \notin tuples
        <2>1. inserts' = [inserts EXCEPT ![x] = @ + 1]
            BY <1>5 DEF Insert
        <2>2. inserts' \in [Tuple -> Nat] /\ inserts'[x] > 0 /\ Grow
              /\ \A y \in Tuple \ {x} : inserts'[y] = inserts[y]
            BY <1>1, <2>1, SMT DEF Grow
        <2>3. CountInv'
            BY <1>1, <1>2, <2>1, SMT DEF CountInv
        <2> QED BY <1>2, <1>3, <2>2, <2>3
    <1> QED BY <1>4, <1>5

\* The writes: insert, or insert_uncommitted.
LEMMA WriteStep ==
    ASSUME SpaceInv, NEW x \in Tuple, Write(x)
    PROVE  SpaceInv'
    <1>1. /\ SpaceType /\ written' = written \cup {x}
          /\ UNCHANGED <<taken, proc, decided, expired, takes, gone, used, stray>>
        BY DEF Write, SpaceInv
    <1>2. \A y \in Tuple : tuples \subseteq tuples' /\ Settled(y) => Settled(y)'
        BY <1>1 DEF Settled
    <1>3. KeepInv
        BY DEF SpaceInv
    <1>4. \A h \in Caller : /\ proc[h].pc = "unbuffer" => proc[h].at \in Tuple
                            /\ proc[h].pc = "untrack" => proc[h].at[2] \in Tuple
        BY DEF SpaceInv, ProcInv, Track3
    <1>5. ASSUME tuples \subseteq tuples', uncommitted \subseteq uncommitted', x \in tuples' \cup uncommitted'
          PROVE  KeepInv'
        <2>1. \A y \in written' : y \in uncommitted' \/ Settled(y)'
            BY <1>1, <1>2, <1>3, <1>5, SMT DEF KeepInv, SpaceType, Settled
        <2>2. \A h \in Caller : /\ (proc[h].pc = "unbuffer" => Settled(proc[h].at))'
                                /\ (proc[h].pc = "untrack" => Settled(proc[h].at[2]))'
            BY <1>1, <1>2, <1>3, <1>4, <1>5 DEF KeepInv
        <2> QED BY <2>1, <2>2 DEF KeepInv
    <1>6. CASE Context[x] = NoTxn
        <2>1. Insert(x) /\ UNCHANGED uncommitted
            BY <1>6 DEF Write
        <2>2. /\ tuples' = tuples \cup {x} /\ inserts' \in [Tuple -> Nat]
              /\ \A y \in Tuple \ {x} : inserts'[y] = inserts[y]
              /\ late' \subseteq late \cup {<<"tuples", x>>} /\ late' \subseteq LateItem
              /\ CountInv' /\ Grow
            BY <1>1, <2>1, Inserted
        <2>3. SpaceType'
            BY <1>1, <2>1, <2>2 DEF SpaceType
        <2>4. \A d \in Caller : ProcInv(d)'
            BY <1>1, <2>2, ProcStays DEF SpaceInv
        <2>5. TrackInv'
            BY <1>1, <2>2, TrackStays
        <2>6. UncommittedIsHidden'
            BY <1>6, <2>2, HiddenStays
        <2>7. KeepInv'
            BY <1>5, <2>1, <2>2
        <2> QED BY <2>2, <2>3, <2>4, <2>5, <2>6, <2>7 DEF SpaceInv
    <1>7. CASE Context[x] # NoTxn
        <2>1. /\ uncommitted' = uncommitted \cup {x} /\ Wrote(<<"uncommitted", x>>)
              /\ UNCHANGED <<tuples, inserts>>
            BY <1>7 DEF Write
        <2>2. late' \subseteq late \cup {<<"uncommitted", x>>}
            BY <2>1, WroteItem
        <2>3. SpaceType' /\ Grow
            BY <1>1, <2>1, <2>2, SMT DEF SpaceType, LateItem, Grow
        <2>4. \A d \in Caller : ProcInv(d)'
            BY <1>1, <2>3, ProcStays DEF SpaceInv
        <2>5. TrackInv'
            BY <1>1, <2>2, <2>3, TrackStays
        <2>6. UncommittedIsHidden' /\ CountInv'
            BY <1>1, <2>1 DEF UncommittedIsHidden, CountInv, SpaceInv
        <2>7. KeepInv'
            BY <1>5, <2>1
        <2> QED BY <2>3, <2>4, <2>5, <2>6, <2>7 DEF SpaceInv
    <1> QED BY <1>6, <1>7

\* A query shows tuples of the transaction it is for.
LEMMA QueryItems ==
    ASSUME SpaceInv, NEW t \in Txn, NEW S \in QueryWrites(t), NEW x \in S
    PROVE  x \in Tuple /\ Context[x] = t
    <1>1. PICK R \in Seen("uncommitted", uncommitted) : S = {z \in R : Context[z] = t}
        BY DEF QueryWrites
    <1>2. x \in uncommitted \/ <<"uncommitted", x>> \in late
        BY <1>1, SeenItem
    <1> QED BY <1>1, <1>2 DEF SpaceInv, SpaceType, LateItem

\* take_match reads: the transaction's writes, and the visible tuples.
LEMMA TakeReads ==
    ASSUME SpaceInv, NEW c \in Client, TakeQuery(c) \/ TakeScan(c)
    PROVE  SpaceInv'
    <1>1. SpaceType /\ c \in Caller /\ ProcInv(c) /\ {} \in SUBSET Things /\ Tuple \subseteq Things
        BY DEF SpaceInv, Caller, Things
    <1>2. UNCHANGED <<tables, decided, expired, history>> /\ Grow
        BY <1>1, SMT DEF TakeQuery, TakeScan, Grow, SpaceType, history
    <1>3. ASSUME NEW l \in Steps, NEW T \in SUBSET Things, NEW x \in Things \cup {NoTuple}, Set(c, l, T, x),
                 l \in {"scan", "own", "try"}, l = "own" => x \in Tuple /\ Asks[c] \in Txn,
                 l = "try" => T \subseteq Tuple, proc[c].pc \in {"idle", "scan"}
          PROVE  SpaceInv'
        <2>1. Moved(c, l, T, x, proc[c].txn)
            BY <1>1, <1>3, SetMoves
        <2>2. ProcInv(c)'
            BY <1>1, <1>3, <2>1 DEF ProcInv, Moved
        <2> QED BY <1>1, <1>2, <1>3, <2>1, <2>2, QuietStep DEF history
    <1>4. CASE TakeQuery(c)
        <2> DEFINE t == Asks[c]
        <2>1. CASE Set(c, "scan", {}, NoTuple)
            BY <1>1, <1>3, <1>4, <2>1 DEF TakeQuery, Steps
        <2>2. ASSUME t # NoTxn, NEW own \in QueryWrites(t), NEW x \in own, Set(c, "own", {}, x)
              PROVE  SpaceInv'
            <3>1. t \in Txn
                BY <2>2, DynamoSpaceAssumption
            <3>2. x \in Tuple
                BY <2>2, <3>1, QueryItems
            <3> QED BY <1>1, <1>3, <1>4, <2>2, <3>1, <3>2 DEF TakeQuery, Steps
        <2> QED BY <1>4, <2>1, <2>2 DEF TakeQuery
    <1>5. CASE TakeScan(c)
        <2>0. PICK S \in Seen("tuples", tuples) : \E M \in SUBSET S : Set(c, "try", M, NoTuple)
            BY <1>5 DEF TakeScan
        <2>1. PICK M \in SUBSET S : Set(c, "try", M, NoTuple)
            BY <2>0
        <2>2. M \subseteq Tuple
            <3>1. \A x \in S : x \in tuples \/ <<"tuples", x>> \in late
                BY SeenItem
            <3>2. S \subseteq Tuple
                BY <1>1, <3>1 DEF SpaceType, LateItem
            <3> QED BY <3>2
        <2> QED BY <1>1, <1>3, <1>5, <2>1, <2>2 DEF TakeScan, Steps
    <1> QED BY <1>4, <1>5

\* Deleting from the buffer keeps the invariant, if the tuple is settled.
LEMMA LeavesBuffer ==
    ASSUME SpaceInv, NEW c \in Caller, NEW l, NEW T, NEW y, NEW t, Moved(c, l, T, y, t), NEW x \in Tuple,
           uncommitted' = uncommitted \ {x}, Wrote(<<"uncommitted", x>>),
           UNCHANGED <<tuples, taken, decided, expired, written, inserts, takes, stray>>, gone \subseteq gone',
           ProcInv(c)', Settled(x)', l \notin {"unbuffer", "untrack"}, proc[c].pc \notin {"track", "own_track"}
    PROVE  SpaceInv'
    <1>1. SpaceType /\ late' \subseteq late \cup {<<"uncommitted", x>>}
        BY WroteItem DEF SpaceInv
    <1>2. SpaceType' /\ Grow
        BY <1>1, SMT DEF SpaceType, Grow, Moved, LateItem
    <1>3. \A d \in Caller : ProcInv(d)'
        BY <1>2, ProcsStay
    <1>4. CountInv' /\ UncommittedIsHidden'
        BY DEF SpaceInv, CountInv, UncommittedIsHidden
    <1>5. TrackInv'
        BY <1>1, <1>2, TrackStays
    <1>6. \A z \in Tuple : Settled(z) => Settled(z)'
        BY SettledStays
    <1>7. KeepInv'
        BY <1>6, KeepStays
    <1> QED BY <1>2, <1>3, <1>4, <1>5, <1>7 DEF SpaceInv

\* Deleting a tracking item keeps it, if the tuple is gone or visible again.
LEMMA LeavesTaken ==
    ASSUME SpaceInv, NEW c \in Caller, NEW l, NEW T, NEW y, NEW t, Moved(c, l, T, y, t), NEW i \in Track3,
           taken' = taken \ {i}, Wrote(<<"taken", i>>), WasVisible(i),
           UNCHANGED <<tuples, uncommitted, decided, expired, written, inserts, takes, stray>>, gone \subseteq gone',
           i[2] \in gone' \/ (proc[c].pc = "untrack" /\ proc[c].at = i),
           ProcInv(c)', l \notin {"unbuffer", "untrack"}, proc[c].pc \notin {"track", "own_track"}
    PROVE  SpaceInv'
    <1>1. SpaceType /\ late' \subseteq late \cup {<<"taken", i>>}
        BY WroteItem DEF SpaceInv
    <1>2. SpaceType' /\ Grow
        BY <1>1, SMT DEF SpaceType, Grow, Moved, LateItem
    <1>3. \A d \in Caller : ProcInv(d)'
        BY <1>2, ProcsStay
    <1>4. CountInv' /\ UncommittedIsHidden'
        BY DEF SpaceInv, CountInv, UncommittedIsHidden
    <1>5. TrackInv'
        BY <1>1, <1>2, TrackStays DEF WasVisible
    <1>6. \A z \in Tuple : Settled(z) => Settled(z)'
        BY SettledStays
    <1>7. KeepInv'
        BY <1>6, KeepStays
    <1> QED BY <1>2, <1>3, <1>4, <1>5, <1>7 DEF SpaceInv

\* Tracking a tuple keeps it, if an abort may restore from the item and the
\* tuple is settled by it.
LEMMA JoinsTaken ==
    ASSUME SpaceInv, NEW c \in Caller, NEW t, Moved(c, "idle", {}, NoTuple, t), NEW i \in Track3,
           taken' = taken \cup {i}, Wrote(<<"taken", i>>), WasVisible(i),
           UNCHANGED <<tuples, uncommitted, decided, expired, written, inserts, takes, gone>>, stray \subseteq stray',
           proc[c].at = i[2], Settled(i[2])'
    PROVE  SpaceInv'
    <1>1. SpaceType /\ late' \subseteq late \cup {<<"taken", i>>}
        BY WroteItem DEF SpaceInv
    <1>2. SpaceType' /\ Grow
        BY <1>1, SMT DEF SpaceType, Grow, Moved, LateItem
    <1>3. ProcInv(c)'
        BY DEF ProcInv, Moved
    <1>4. \A d \in Caller : ProcInv(d)'
        BY <1>2, <1>3, ProcsStay
    <1>5. CountInv' /\ UncommittedIsHidden'
        BY DEF SpaceInv, CountInv, UncommittedIsHidden
    <1>6. TrackInv'
        BY <1>1, <1>2, TrackStays DEF WasVisible
    <1>7. \A z \in Tuple : Settled(z) => Settled(z)'
        BY SettledStays
    <1>8. KeepInv'
        BY <1>7, KeepStays
    <1> QED BY <1>2, <1>4, <1>5, <1>6, <1>8 DEF SpaceInv

\* Taking an own write: it leaves the buffer, and is tracked as an own write.
LEMMA OwnSteps ==
    ASSUME SpaceInv, NEW c \in Client, OwnDelete(c) \/ OwnTrack(c)
    PROVE  SpaceInv'
    <1>0. PICK x \in Tuple : x = proc[c].at
        BY DEF SpaceInv, Caller, OwnDelete, OwnTrack, ProcInv
    <1>1. /\ SpaceType /\ c \in Caller /\ ProcInv(c) /\ {} \in SUBSET Things
          /\ x \in Things \cup {NoTuple} /\ Asks[c] \in Txn
        BY DEF SpaceInv, Caller, Things, OwnDelete, OwnTrack, ProcInv
    <1>2. CASE OwnDelete(c)
        <2>1. /\ uncommitted' = uncommitted \ {x} /\ Wrote(<<"uncommitted", x>>) /\ proc[c].pc = "own"
              /\ Set(c, "own_track", {}, x)
              /\ UNCHANGED <<tuples, taken, decided, expired, written, inserts, takes, gone, stray>>
            BY <1>0, <1>2 DEF OwnDelete, history
        <2>2. Moved(c, "own_track", {}, x, proc[c].txn)
            BY <1>1, <2>1, SetMoves DEF Steps
        <2>3. ProcInv(c)' /\ Settled(x)'
            BY <1>1, <2>2 DEF ProcInv, Moved, Settled
        <2> QED BY <1>1, <2>1, <2>2, <2>3, LeavesBuffer, SMT
    <1>3. CASE OwnTrack(c)
        <2> DEFINE i == <<Asks[c], x, TRUE>>
        <2>1. /\ taken' = taken \cup {i} /\ Wrote(<<"taken", i>>) /\ Set(c, "idle", {}, NoTuple)
              /\ UNCHANGED <<tuples, uncommitted, decided, expired, written, inserts, takes, gone, stray>>
            BY <1>0, <1>3 DEF OwnTrack, history
        <2>2. Moved(c, "idle", {}, NoTuple, proc[c].txn)
            BY <1>1, <2>1, SetMoves DEF Steps
        <2>3. i \in Track3 /\ i[2] = x /\ i[3] /\ WasVisible(i)
            BY <1>1 DEF Track3, WasVisible
        <2>4. ASSUME NEW h \in Caller, proc'[h].pc = "untrack" /\ proc'[h].at = i
              PROVE  FALSE
            <3>1. proc'[h] = proc[h]
                BY <2>2, <2>4 DEF Moved
            <3>2. ~proc[h].at[3] /\ proc[h].at = i
                BY <2>4, <3>1 DEF SpaceInv, ProcInv
            <3> QED BY <2>3, <3>2
        <2>5. Settled(x)'
            BY <2>1, <2>3, <2>4 DEF Settled
        <2> QED BY <1>0, <1>1, <2>1, <2>2, <2>3, <2>5, JoinsTaken
    <1> QED BY <1>2, <1>3

\* Tracking a visible tuple that was taken: in an open transaction nobody is
\* about to delete the item; in any other the tuple has strayed.
LEMMA TrackStep ==
    ASSUME SpaceInv, NEW c \in Client, Track(c)
    PROVE  SpaceInv'
    <1>0. PICK x \in Tuple : x = proc[c].at
        BY DEF SpaceInv, Caller, Track, ProcInv
    <1> DEFINE i == <<Asks[c], x, FALSE>>
    <1>1. /\ SpaceType /\ c \in Caller /\ ProcInv(c) /\ {} \in SUBSET Things
          /\ Asks[c] \in Txn /\ inserts[x] > 0
        BY <1>0 DEF SpaceInv, Caller, Things, Track, ProcInv
    <1>2. /\ taken' = taken \cup {i} /\ Wrote(<<"taken", i>>) /\ Set(c, "idle", {}, NoTuple)
          /\ stray' = IF decided[Asks[c]] = "open" THEN stray ELSE stray \cup {x}
          /\ UNCHANGED <<tuples, uncommitted, decided, expired, written, inserts, takes, gone>>
        BY <1>0 DEF Track
    <1>3. Moved(c, "idle", {}, NoTuple, proc[c].txn)
        BY <1>1, <1>2, SetMoves DEF Steps
    <1>4. i \in Track3 /\ i[1] = Asks[c] /\ i[2] = x /\ WasVisible(i)
        BY <1>1 DEF Track3, WasVisible
    <1>5. Settled(x)'
        <2>1. CASE decided[Asks[c]] = "open"
            <3>1. ASSUME NEW h \in Caller, proc'[h].pc = "untrack" /\ proc'[h].at = i
                  PROVE  FALSE
                <4>1. proc'[h] = proc[h]
                    BY <1>3, <3>1 DEF Moved
                <4>2. proc[h].at = i /\ decided[i[1]] # "open"
                    BY <3>1, <4>1 DEF SpaceInv, ProcInv
                <4> QED BY <1>4, <2>1, <4>2
            <3> QED BY <1>2, <1>4, <3>1 DEF Settled
        <2>2. CASE decided[Asks[c]] # "open"
            BY <1>2, <2>2 DEF Settled
        <2> QED BY <2>1, <2>2
    <1> QED BY <1>0, <1>1, <1>2, <1>3, <1>4, <1>5, JoinsTaken

\* Deleting from the visible table keeps it, if a take holds the tuple or it is gone.
LEMMA LeavesTuples ==
    ASSUME SpaceInv, NEW c \in Caller, NEW l, NEW T, NEW y, NEW t, Moved(c, l, T, y, t), NEW x \in tuples,
           tuples' = tuples \ {x}, Wrote(<<"tuples", x>>),
           takes' \in [Tuple -> Nat], takes'[x] <= takes[x] + 1, \A z \in Tuple \ {x} : takes'[z] = takes[z],
           UNCHANGED <<uncommitted, taken, decided, expired, written, inserts, stray>>, gone \subseteq gone',
           x \in gone' \/ (c \in Client /\ l = "track" /\ y = x),
           ProcInv(c)', l \notin {"unbuffer", "untrack"}, proc[c].pc \notin {"track", "own_track"}
    PROVE  SpaceInv'
    <1>1. SpaceType /\ late' \subseteq late \cup {<<"tuples", x>>} /\ x \in Tuple
        BY WroteItem DEF SpaceInv, SpaceType
    <1>2. SpaceType' /\ Grow
        BY <1>1, SMT DEF SpaceType, Grow, Moved, LateItem
    <1>3. \A d \in Caller : ProcInv(d)'
        BY <1>2, ProcsStay
    <1>4. UncommittedIsHidden'
        BY DEF SpaceInv, UncommittedIsHidden
    <1>5. CountInv'
        <2>1. /\ takes[x] < inserts[x] /\ takes \in [Tuple -> Nat] /\ inserts \in [Tuple -> Nat]
              /\ CountInv
            BY <1>1 DEF SpaceInv, CountInv, SpaceType
        <2> QED BY <1>1, <2>1, SMT DEF CountInv
    <1>6. TrackInv'
        BY <1>1, <1>2, TrackStays
    <1>7. \A z \in Tuple : Settled(z) => Settled(z)'
        BY SettledStays, SMT
    <1>8. KeepInv'
        BY <1>7, KeepStays
    <1> QED BY <1>2, <1>3, <1>4, <1>5, <1>6, <1>8 DEF SpaceInv

\* The conditional deletes of take_match.
LEMMA TakeTryStep ==
    ASSUME SpaceInv, NEW c \in Client, TakeTry(c)
    PROVE  SpaceInv'
    <1>1. /\ SpaceType /\ c \in Caller /\ ProcInv(c) /\ {} \in SUBSET Things /\ Tuple \subseteq Things
          /\ proc[c].pc = "try" /\ proc[c].todo \subseteq Tuple
          /\ UNCHANGED <<uncommitted, taken, decided, expired, written, inserts, stray>>
        BY DEF SpaceInv, Caller, Things, TakeTry, ProcInv
    <1>2. ASSUME NEW x \in proc[c].todo \cap tuples, tuples' = tuples \ {x}, Wrote(<<"tuples", x>>),
                 takes' = [takes EXCEPT ![x] = @ + 1],
                 IF Asks[c] = NoTxn THEN gone' = gone \cup {x} /\ Set(c, "idle", {}, NoTuple)
                 ELSE Set(c, "track", {}, x) /\ UNCHANGED gone
          PROVE  SpaceInv'
        <2>0. /\ takes' \in [Tuple -> Nat] /\ takes'[x] <= takes[x] + 1
              /\ \A z \in Tuple \ {x} : takes'[z] = takes[z]
            BY <1>1, <1>2, SMT DEF SpaceType
        <2>1. CASE Asks[c] = NoTxn
            <3>1. Moved(c, "idle", {}, NoTuple, proc[c].txn)
                BY <1>1, <1>2, <2>1, SetMoves DEF Steps
            <3>2. ProcInv(c)'
                BY <3>1 DEF ProcInv, Moved
            <3>3. x \in tuples /\ gone \subseteq gone' /\ x \in gone'
                BY <1>2, <2>1
            <3> QED BY <1>1, <1>2, <2>0, <3>1, <3>2, <3>3, LeavesTuples, SMT
        <2>2. CASE Asks[c] # NoTxn
            <3>1. Moved(c, "track", {}, x, proc[c].txn)
                BY <1>1, <1>2, <2>2, SetMoves DEF Steps
            <3>2. inserts[x] > 0 /\ Asks[c] \in Txn /\ x \in Tuple
                BY <1>1, <1>2, <2>2, DynamoSpaceAssumption, SMT DEF SpaceInv, CountInv, SpaceType
            <3>3. ProcInv(c)'
                BY <1>1, <3>1, <3>2 DEF ProcInv, Moved
            <3>4. x \in tuples /\ gone \subseteq gone'
                BY <1>2, <2>2
            <3> QED BY <1>1, <1>2, <2>0, <3>1, <3>3, <3>4, LeavesTuples, SMT
        <2> QED BY <2>1, <2>2
    <1>3. ASSUME NEW l \in {"try", "idle"}, NEW T \in SUBSET proc[c].todo, Set(c, l, T, NoTuple),
                 UNCHANGED <<tuples, late, takes, gone>>
          PROVE  SpaceInv'
        <2>1. Moved(c, l, T, NoTuple, proc[c].txn)
            BY <1>1, <1>3, SetMoves DEF Steps
        <2>2. ProcInv(c)'
            BY <1>1, <1>3, <2>1 DEF ProcInv, Moved
        <2>3. Grow
            BY <1>1, SMT DEF Grow, SpaceType
        <2> QED BY <1>1, <1>3, <2>1, <2>2, <2>3, QuietStep DEF tables
    <1>4. ASSUME NEW x \in proc[c].todo \ tuples, Set(c, "try", proc[c].todo \ {x}, NoTuple),
                 UNCHANGED <<tuples, late, takes, gone>>
          PROVE  SpaceInv'
        BY <1>3, <1>4
    <1>5. CASE proc[c].todo = {} /\ Set(c, "idle", {}, NoTuple) /\ UNCHANGED <<tuples, late, takes, gone>>
        BY <1>3, <1>5
    <1> QED BY <1>2, <1>4, <1>5 DEF TakeTry

\* Inserting keeps it, if the tuple was visible before or its transaction commits.
LEMMA JoinsTuples ==
    ASSUME SpaceInv, NEW c \in Caller, NEW l, NEW T, NEW y, NEW t, Moved(c, l, T, y, t), NEW x \in Tuple,
           Insert(x), UNCHANGED <<uncommitted, taken, decided, expired, written, takes, gone, stray>>,
           inserts[x] > 0 \/ decided[Context[x]] = "commit",
           ProcInv(c)', (l = "unbuffer" /\ y = x) \/ (l = "untrack" /\ y[2] = x),
           proc[c].pc \notin {"track", "own_track"}
    PROVE  SpaceInv'
    <1>1. /\ tuples' = tuples \cup {x} /\ inserts' \in [Tuple -> Nat]
          /\ \A z \in Tuple \ {x} : inserts'[z] = inserts[z]
          /\ late' \subseteq late \cup {<<"tuples", x>>} /\ late' \subseteq LateItem
          /\ CountInv' /\ Grow
        BY Inserted
    <1>2. SpaceType'
        BY <1>1 DEF SpaceInv, SpaceType, Moved
    <1>3. \A d \in Caller : ProcInv(d)'
        BY <1>1, ProcsStay
    <1>4. UncommittedIsHidden'
        BY <1>1, HiddenStays
    <1>5. TrackInv'
        BY <1>1, TrackStays
    <1>6. \A z \in Tuple : Settled(z) => Settled(z)'
        BY <1>1, SettledStays
    <1>7. Settled(x)'
        BY <1>1 DEF Settled
    <1>8. KeepInv'
        BY <1>6, <1>7, KeepStays
    <1> QED BY <1>1, <1>2, <1>3, <1>4, <1>5, <1>8 DEF SpaceInv

\* commit_txn and abort_txn start, and read what the transaction has written ...
LEMMA EndStep ==
    ASSUME SpaceInv, NEW h \in Handler, NEW t \in Txn, NEW how \in {"commit", "abort"}, End(h, t, how)
    PROVE  SpaceInv'
    <1>1. SpaceType /\ h \in Caller
        BY DEF SpaceInv, Caller
    <1>2. PICK S \in QueryWrites(t) :
             proc' = [proc EXCEPT ![h] = [pc |-> "writes", todo |-> S, at |-> NoTuple, txn |-> t]]
        BY DEF End
    <1>3. /\ proc[h].pc = "idle" /\ decided[t] \in {"open", how} /\ decided' = [decided EXCEPT ![t] = how]
          /\ UNCHANGED <<tables, expired, history>>
        BY DEF End
    <1>4. \A x \in S : x \in Tuple /\ Context[x] = t
        BY QueryItems
    <1>5. Moved(h, "writes", S, NoTuple, t)
        <2> DEFINE r == [pc |-> "writes", todo |-> S, at |-> NoTuple, txn |-> t]
        <2>1. r \in Procs
            BY <1>4 DEF Procs, Steps, Things
        <2> QED BY <1>1, <1>2, <2>1, EntryMoves
    <1>6. Grow /\ decided'[t] # "open"
        BY <1>1, <1>3, SMT DEF Grow, SpaceType, history
    <1>7. ProcInv(h)'
        BY <1>4, <1>5, <1>6 DEF ProcInv, Moved
    <1> QED BY <1>1, <1>3, <1>5, <1>6, <1>7, QuietStep, SMT DEF history

\* ... which commit_txn inserts and then deletes, and abort_txn deletes.
LEMMA WritesSteps ==
    ASSUME SpaceInv, NEW h \in Handler, Flush(h) \/ Unbuffer(h) \/ Discard(h)
    PROVE  SpaceInv'
    <1> DEFINE T == proc[h].todo
               t == proc[h].txn
    <1>1. /\ SpaceType /\ h \in Caller /\ ProcInv(h) /\ proc[h].pc \in {"writes", "unbuffer"}
          /\ T \in SUBSET Things /\ t \in Txn /\ decided[t] # "open"
          /\ \A x \in T : x \in Tuple /\ Context[x] = t
        BY DEF SpaceInv, Caller, Things, ProcInv, Flush, Unbuffer, Discard
    <1>2. ASSUME Flush(h) PROVE SpaceInv'
        <2>1. PICK x \in T : Insert(x) /\ Set(h, "unbuffer", T, x)
            BY <1>2 DEF Flush
        <2>2. Moved(h, "unbuffer", T, x, t)
            BY <1>1, <2>1, SetMoves DEF Steps, Things
        <2>3. /\ decided[Context[x]] = "commit"
              /\ UNCHANGED <<uncommitted, taken, decided, expired, written, takes, gone, stray>>
            BY <1>1, <1>2 DEF Flush
        <2>4. ProcInv(h)'
            BY <1>1, <2>2, <2>3 DEF ProcInv, Moved
        <2> QED BY <1>1, <2>1, <2>2, <2>3, <2>4, JoinsTuples
    <1>3. ASSUME NEW x \in T, uncommitted' = uncommitted \ {x}, Wrote(<<"uncommitted", x>>),
                 Set(h, "writes", T \ {x}, NoTuple), gone \subseteq gone', Settled(x)',
                 UNCHANGED <<tuples, taken, decided, expired, written, inserts, takes, stray>>
          PROVE  SpaceInv'
        <2>1. Moved(h, "writes", T \ {x}, NoTuple, t)
            BY <1>1, <1>3, SetMoves DEF Steps
        <2>2. ProcInv(h)'
            BY <1>1, <1>3, <2>1 DEF ProcInv, Moved
        <2> QED BY <1>1, <1>3, <2>1, <2>2, LeavesBuffer, SMT
    <1>4. ASSUME Unbuffer(h) PROVE SpaceInv'
        <2>1. PICK x \in T : x = proc[h].at
            BY <1>1, <1>4 DEF ProcInv, Unbuffer
        <2>2. /\ uncommitted' = uncommitted \ {x} /\ Wrote(<<"uncommitted", x>>)
              /\ Set(h, "writes", T \ {x}, NoTuple)
              /\ UNCHANGED <<tuples, taken, decided, expired, written, inserts, takes, gone, stray>>
            BY <1>4, <2>1 DEF Unbuffer, history
        <2>3. Settled(x)
            BY <1>1, <1>4, <2>1 DEF Unbuffer, SpaceInv, KeepInv
        <2>4. Moved(h, "writes", T \ {x}, NoTuple, t)
            BY <1>1, <2>2, SetMoves DEF Steps
        <2>5. Settled(x)'
            BY <1>1, <1>4, <2>2, <2>3, <2>4, SettledStays DEF Unbuffer
        <2> QED BY <1>3, <2>2, <2>5
    <1>5. ASSUME Discard(h) PROVE SpaceInv'
        <2>1. PICK x \in T : /\ uncommitted' = uncommitted \ {x} /\ Wrote(<<"uncommitted", x>>)
                             /\ gone' = gone \cup {x} /\ Set(h, "writes", T \ {x}, NoTuple)
            BY <1>5 DEF Discard
        <2>2. Settled(x)' /\ UNCHANGED <<tuples, taken, decided, expired, written, inserts, takes, stray>>
            BY <1>5, <2>1 DEF Settled, Discard
        <2> QED BY <1>3, <2>1, <2>2
    <1> QED BY <1>2, <1>4, <1>5

\* Then they read what it has taken ...
LEMMA EndTakenStep ==
    ASSUME SpaceInv, NEW h \in Handler, EndTaken(h)
    PROVE  SpaceInv'
    <1> DEFINE t == proc[h].txn
    <1>1. /\ SpaceType /\ h \in Caller /\ ProcInv(h) /\ proc[h].pc = "writes"
          /\ t \in Txn /\ decided[t] # "open" /\ TrackInv
        BY DEF SpaceInv, Caller, ProcInv, EndTaken
    <1>2. PICK S \in Seen("taken", {i \in taken : i[1] = t}) : Set(h, "takes", {i \in S : i[1] = t}, NoTuple)
        BY DEF EndTaken
    <1> DEFINE T == {i \in S : i[1] = t}
    <1>3. UNCHANGED <<tables, decided, expired, history>> /\ Grow
        BY <1>1, SMT DEF EndTaken, Grow, SpaceType, history
    <1>4. \A i \in T : i \in Track3 /\ i[1] = t /\ WasVisible(i)
        <2>1. \A i \in S : i \in taken \/ <<"taken", i>> \in late
            BY SeenItem, SMT
        <2>2. \A i \in S : i \in Track3
            BY <1>1, <2>1 DEF SpaceType, LateItem
        <2> QED BY <1>1, <2>1, <2>2 DEF TrackInv
    <1>5. Moved(h, "takes", T, NoTuple, t)
        BY <1>1, <1>2, <1>4, SetMoves DEF Steps, Things
    <1>6. ProcInv(h)'
        <2>1. \A i \in T : WasVisible(i)'
            BY <1>3, <1>4 DEF WasVisible, history
        <2> QED BY <1>1, <1>3, <1>4, <1>5, <2>1 DEF ProcInv, Moved
    <1> QED BY <1>1, <1>3, <1>5, <1>6, QuietStep, SMT DEF history

\* ... which commit_txn untracks, and abort_txn restores and untracks.
LEMMA TakesSteps ==
    ASSUME SpaceInv, NEW h \in Handler, Restore(h) \/ Untrack(h) \/ Finalize(h)
    PROVE  SpaceInv'
    <1> DEFINE T == proc[h].todo
               t == proc[h].txn
    <1>1. /\ SpaceType /\ h \in Caller /\ ProcInv(h) /\ proc[h].pc \in {"takes", "untrack"}
          /\ T \in SUBSET Things /\ t \in Txn /\ decided[t] # "open"
          /\ \A i \in T : i \in Track3 /\ i[1] = t /\ WasVisible(i)
        BY DEF SpaceInv, Caller, Things, ProcInv, Restore, Untrack, Finalize
    <1>2. ASSUME Restore(h) PROVE SpaceInv'
        <2>1. PICK i \in T : ~i[3] /\ Insert(i[2]) /\ Set(h, "untrack", T, i)
            BY <1>2 DEF Restore
        <2>2. Moved(h, "untrack", T, i, t)
            BY <1>1, <2>1, SetMoves DEF Steps, Things
        <2>3. /\ i[2] \in Tuple /\ inserts[i[2]] > 0
              /\ UNCHANGED <<uncommitted, taken, decided, expired, written, takes, gone, stray>>
            BY <1>1, <1>2, <2>1 DEF Restore, WasVisible, Track3
        <2>4. \A j \in T : WasVisible(j)'
            <3>1. Grow
                BY <2>1, <2>3, Inserted
            <3> QED BY <1>1, <3>1, VisibleStays
        <2>5. ProcInv(h)'
            BY <1>1, <2>1, <2>2, <2>3, <2>4 DEF ProcInv, Moved
        <2> QED BY <1>1, <2>1, <2>2, <2>3, <2>5, JoinsTuples
    <1>3. ASSUME NEW i \in T, taken' = taken \ {i}, Wrote(<<"taken", i>>), gone \subseteq gone',
                 i[2] \in gone' \/ (proc[h].pc = "untrack" /\ proc[h].at = i),
                 Set(h, "takes", T \ {i}, NoTuple),
                 UNCHANGED <<tuples, uncommitted, decided, expired, written, inserts, takes, stray>>
          PROVE  SpaceInv'
        <2>1. Moved(h, "takes", T \ {i}, NoTuple, t)
            BY <1>1, <1>3, SetMoves DEF Steps
        <2>2. ProcInv(h)'
            BY <1>1, <1>3, <2>1 DEF ProcInv, Moved, WasVisible
        <2>3. i \in Track3 /\ WasVisible(i) /\ h \in Caller /\ proc[h].pc \notin {"track", "own_track"}
            BY <1>1, <1>3
        <2> QED BY <1>3, <2>1, <2>2, <2>3, LeavesTaken, SMT
    <1>4. ASSUME Untrack(h) PROVE SpaceInv'
        <2>1. PICK i \in IF proc[h].pc = "untrack" THEN {proc[h].at} ELSE {j \in T : j[3]} :
                 /\ taken' = taken \ {i} /\ Wrote(<<"taken", i>>)
                 /\ gone' = IF proc[h].pc = "untrack" THEN gone ELSE gone \cup {i[2]}
                 /\ Set(h, "takes", T \ {i}, NoTuple)
            BY <1>4 DEF Untrack
        <2>2. i \in T
            BY <1>1, <2>1 DEF ProcInv
        <2> QED BY <1>3, <1>4, <2>1, <2>2 DEF Untrack
    <1>5. ASSUME Finalize(h) PROVE SpaceInv'
        BY <1>3, <1>5 DEF Finalize
    <1> QED BY <1>2, <1>4, <1>5

\* remove_by_lease: the visible tuple, the buffered one, or the item.
LEMMA RemoveSteps ==
    ASSUME SpaceInv, NEW r \in Remover,
           RemoveQuery(r) \/ Remove(r) \/ RemoveUncommitted(r) \/ RemoveTaken(r)
    PROVE  SpaceInv'
    <1>1. /\ SpaceType /\ r \in Caller /\ ProcInv(r) /\ {} \in SUBSET Things /\ NoTuple \in Things \cup {NoTuple}
          /\ Tuple \subseteq Things /\ proc[r].pc \in {"idle", "remove", "buffers", "taken"}
          /\ UNCHANGED <<decided, inserts, takes, written, expired, stray>>
        BY DEF SpaceInv, Caller, Things, RemoveQuery, Remove, RemoveUncommitted, RemoveTaken, history
    <1>2. Grow
        BY <1>1, SMT DEF Grow, SpaceType
    <1>3. ASSUME NEW l \in {"idle", "remove", "buffers", "taken"}, NEW x \in Tuple \cup {NoTuple},
                 Set(r, l, {}, x), l # "idle" => x \in Tuple
          PROVE  Moved(r, l, {}, x, proc[r].txn) /\ ProcInv(r)'
        <2>1. Moved(r, l, {}, x, proc[r].txn)
            BY <1>1, <1>3, SetMoves DEF Steps
        <2> QED BY <1>3, <2>1 DEF ProcInv, Moved
    <1>4. ASSUME NEW l \in {"idle", "remove", "buffers", "taken"}, NEW x \in Tuple \cup {NoTuple},
                 Set(r, l, {}, x), l # "idle" => x \in Tuple, UNCHANGED <<tables, gone>>
          PROVE  SpaceInv'
        <2>1. Moved(r, l, {}, x, proc[r].txn) /\ ProcInv(r)'
            BY <1>3, <1>4
        <2> QED BY <1>1, <1>2, <1>4, <2>1, QuietStep
    <1>5. ASSUME RemoveQuery(r) PROVE SpaceInv'
        <2>1. PICK x \in expired, S \in Seen("tuples", tuples) :
                 Set(r, IF x \in S THEN "remove" ELSE "buffers", {}, x)
            BY <1>5 DEF RemoveQuery
        <2>2. x \in Tuple /\ UNCHANGED <<tables, gone>>
            BY <1>1, <1>5 DEF RemoveQuery, SpaceType, history
        <2> QED BY <1>4, <2>1, <2>2
    <1>6. ASSUME Remove(r) PROVE SpaceInv'
        <2>1. PICK x \in Tuple : x = proc[r].at
            BY <1>1, <1>6 DEF Remove, ProcInv
        <2>2. CASE x \in tuples
            <3>1. /\ tuples' = tuples \ {x} /\ Wrote(<<"tuples", x>>) /\ gone' = gone \cup {x}
                  /\ Set(r, "idle", {}, NoTuple) /\ UNCHANGED <<uncommitted, taken>>
                BY <1>6, <2>1, <2>2 DEF Remove
            <3>2. Moved(r, "idle", {}, NoTuple, proc[r].txn) /\ ProcInv(r)'
                BY <1>3, <3>1
            <3>3. takes' \in [Tuple -> Nat] /\ takes'[x] <= takes[x] + 1
                BY <1>1, SMT DEF SpaceType
            <3>4. /\ \A z \in Tuple \ {x} : takes'[z] = takes[z]
                  /\ UNCHANGED <<uncommitted, taken, decided, expired, written, inserts, stray>>
                  /\ gone \subseteq gone' /\ x \in gone'
                BY <1>1, <3>1
            <3>5. r \in Caller /\ proc[r].pc \notin {"track", "own_track"} /\ "idle" \notin {"unbuffer", "untrack"}
                BY <1>1
            <3> QED BY <2>2, <3>1, <3>2, <3>3, <3>4, <3>5, LeavesTuples
        <2>3. CASE x \notin tuples
            BY <1>4, <1>6, <2>1, <2>3 DEF Remove, tables
        <2> QED BY <2>2, <2>3
    <1>7. ASSUME RemoveUncommitted(r) PROVE SpaceInv'
        <2>1. PICK x \in Tuple : x = proc[r].at
            BY <1>1, <1>7 DEF RemoveUncommitted, ProcInv
        <2>2. CASE /\ uncommitted' = uncommitted \ {x} /\ Wrote(<<"uncommitted", x>>)
                   /\ gone' = gone \cup {x} /\ Set(r, "idle", {}, NoTuple)
            <3>1. Moved(r, "idle", {}, NoTuple, proc[r].txn) /\ ProcInv(r)'
                BY <1>3, <2>2
            <3>2. Settled(x)' /\ UNCHANGED <<tuples, taken>>
                BY <1>7, <2>2 DEF Settled, RemoveUncommitted
            <3> QED BY <1>1, <2>2, <3>1, <3>2, LeavesBuffer, SMT
        <2>3. CASE Set(r, "taken", {}, x) /\ UNCHANGED <<uncommitted, late, gone>>
            BY <1>4, <1>7, <2>3 DEF RemoveUncommitted, tables
        <2> QED BY <1>7, <2>1, <2>2, <2>3 DEF RemoveUncommitted
    <1>8. ASSUME RemoveTaken(r) PROVE SpaceInv'
        <2>1. PICK x \in Tuple : x = proc[r].at
            BY <1>1, <1>8 DEF RemoveTaken, ProcInv
        <2>2. Set(r, "idle", {}, NoTuple) /\ UNCHANGED <<tuples, uncommitted>>
            BY <1>8 DEF RemoveTaken
        <2>3. Moved(r, "idle", {}, NoTuple, proc[r].txn) /\ ProcInv(r)'
            BY <1>3, <2>2
        <2>4. ASSUME NEW i \in taken, i[2] = x, taken' = taken \ {i}, Wrote(<<"taken", i>>), gone' = gone \cup {x}
              PROVE  SpaceInv'
            <3>1. i \in Track3 /\ WasVisible(i)
                BY <1>1, <2>4 DEF SpaceInv, SpaceType, TrackInv
            <3> QED BY <1>1, <2>2, <2>3, <2>4, <3>1, LeavesTaken, SMT
        <2>5. CASE UNCHANGED <<taken, late, gone>>
            BY <1>4, <2>2, <2>5 DEF tables
        <2> QED BY <1>8, <2>1, <2>4, <2>5 DEF RemoveTaken
    <1> QED BY <1>5, <1>6, <1>7, <1>8

\* A call that ends, is interrupted, or is none: a lease that runs out, and a
\* replica that catches up.
LEMMA OtherSteps ==
    ASSUME SpaceInv
    PROVE  /\ \A h \in Handler : EndReturns(h) => SpaceInv'
           /\ \A c \in Caller : Interrupt(c) => SpaceInv'
           /\ \A x \in Tuple : Expire(x) => SpaceInv'
           /\ Settle => SpaceInv'
    <1>1. SpaceType /\ Idle \in Procs
        BY DEF SpaceInv, Idle, Procs, Steps
    <1>2. ASSUME NEW c \in Caller, proc' = [proc EXCEPT ![c] = Idle],
                 UNCHANGED <<tables, decided, expired, written, inserts, takes, stray>>, gone \subseteq gone',
                 proc[c].pc \in {"track", "own_track"} => proc[c].at \in gone'
          PROVE  SpaceInv'
        <2>1. Moved(c, "idle", {}, NoTuple, NoTxn)
            BY <1>1, <1>2, EntryMoves DEF Idle
        <2>2. ProcInv(c)' /\ Grow
            BY <1>1, <1>2, <2>1, SMT DEF ProcInv, Moved, Grow, SpaceType
        <2> QED BY <1>2, <2>1, <2>2, QuietStep, SMT
    <1>3. ASSUME NEW h \in Handler, EndReturns(h) PROVE SpaceInv'
        BY <1>2, <1>3 DEF EndReturns, history, Caller
    <1>4. ASSUME NEW c \in Caller, Interrupt(c) PROVE SpaceInv'
        BY <1>2, <1>4 DEF Interrupt
    <1>5. ASSUME UNCHANGED <<tuples, uncommitted, taken, proc, decided, history>>,
                 late' \subseteq late, expired' \subseteq Tuple
          PROVE  SpaceInv'
        <2>1. SpaceType' /\ CountInv' /\ TrackInv' /\ UncommittedIsHidden'
            BY <1>5 DEF SpaceInv, SpaceType, CountInv, TrackInv, WasVisible, UncommittedIsHidden, history
        <2>2. \A c \in Caller : ProcInv(c)'
            <3>1. Grow
                BY <1>1, <1>5, SMT DEF Grow, SpaceType, history
            <3> QED BY <1>5, <3>1, ProcStays DEF SpaceInv
        <2>3. \A x : Settled(x) => Settled(x)'
            BY <1>5 DEF Settled, history
        <2>4. KeepInv'
            BY <1>5, <2>3 DEF SpaceInv, KeepInv, history
        <2> QED BY <2>1, <2>2, <2>4 DEF SpaceInv
    <1>6. ASSUME NEW x \in Tuple, Expire(x) PROVE SpaceInv'
        BY <1>1, <1>5, <1>6 DEF Expire, tables, SpaceType
    <1>7. ASSUME Settle PROVE SpaceInv'
        BY <1>1, <1>5, <1>7 DEF Settle, SpaceType
    <1> QED BY <1>3, <1>4, <1>6, <1>7

\* So every request of every call keeps it, interrupted or not.
LEMMA SpaceStep ==
    ASSUME SpaceInv, SpaceNext
    PROVE  SpaceInv'
    <1>1. ASSUME NEW c \in Client,
                 TakeQuery(c) \/ OwnDelete(c) \/ OwnTrack(c) \/ TakeScan(c) \/ TakeTry(c) \/ Track(c)
          PROVE  SpaceInv'
        BY <1>1, TakeReads, OwnSteps, TakeTryStep, TrackStep
    <1>2. ASSUME NEW h \in Handler,
                 \/ \E t \in Txn, how \in {"commit", "abort"} : End(h, t, how)
                 \/ Flush(h) \/ Unbuffer(h) \/ Discard(h) \/ EndTaken(h)
                 \/ Restore(h) \/ Untrack(h) \/ Finalize(h) \/ EndReturns(h)
          PROVE  SpaceInv'
        BY <1>2, EndStep, WritesSteps, EndTakenStep, TakesSteps, OtherSteps
    <1>3. ASSUME NEW x \in Tuple, Write(x) \/ Expire(x) PROVE SpaceInv'
        BY <1>3, WriteStep, OtherSteps
    <1> QED BY <1>1, <1>2, <1>3, RemoveSteps, OtherSteps DEF SpaceNext

\* The steps of others leave it alone.
LEMMA SpaceStutters ==
    ASSUME SpaceInv, UNCHANGED spaceVars
    PROVE  SpaceInv'
    <1>1. UNCHANGED <<tuples, uncommitted, taken, late, proc, decided, expired,
                      written, inserts, takes, gone, stray, used>>
        BY DEF spaceVars, tables, history
    <1>2. \A x \in Things : Settled(x)' <=> Settled(x)
        BY <1>1 DEF Settled
    <1>3. \A c \in Caller : ProcInv(c)' <=> ProcInv(c)
        BY <1>1, SMT DEF ProcInv, WasVisible
    <1>4. CountInv' /\ TrackInv' /\ UncommittedIsHidden'
        BY <1>1 DEF SpaceInv, CountInv, TrackInv, WasVisible, UncommittedIsHidden
    <1>5. SpaceType'
        BY <1>1 DEF SpaceInv, SpaceType
    <1>6. KeepInv'
        BY <1>1, SMT DEF SpaceInv, KeepInv, Settled
    <1> QED BY <1>3, <1>4, <1>5, <1>6 DEF SpaceInv

\* It holds of the empty tables, ...
LEMMA SpaceBoot == SpaceInit => SpaceInv
    <1> SUFFICES ASSUME SpaceInit PROVE SpaceInv
        OBVIOUS
    <1>1. Idle \in Procs
        BY DEF Idle, Procs, Steps
    <1>2. SpaceType
        BY <1>1 DEF SpaceInit, SpaceType
    <1>3. \A c \in Caller : ProcInv(c) /\ proc[c].pc = "idle"
        BY DEF SpaceInit, ProcInv, Idle
    <1>4. CountInv
        <2>1. tuples = {} /\ \A x \in Tuple : takes[x] = 0 /\ inserts[x] = 0
            BY DEF SpaceInit
        <2> QED BY <2>1, SMT DEF CountInv
    <1>5. TrackInv /\ UncommittedIsHidden
        <2>1. \A x \in Tuple : ~(inserts[x] > 0)
            BY SMT DEF SpaceInit
        <2> QED BY <2>1 DEF SpaceInit, TrackInv, UncommittedIsHidden
    <1>6. KeepInv
        BY <1>3 DEF SpaceInit, KeepInv
    <1> QED BY <1>2, <1>3, <1>4, <1>5, <1>6 DEF SpaceInv

\* ... and a tuple that is buffered or settled is accounted for.
LEMMA SpaceKept == SpaceInv => TakenOncePerInsert /\ UncommittedIsHidden /\ Conservation
    <1> SUFFICES ASSUME SpaceInv PROVE TakenOncePerInsert /\ UncommittedIsHidden /\ Conservation
        OBVIOUS
    <1>1. TakenOncePerInsert
        BY DEF SpaceInv, CountInv, TakenOncePerInsert
    <1>2. Conservation
        BY SMT DEF SpaceInv, KeepInv, Settled, Conservation
    <1> QED BY <1>1, <1>2 DEF SpaceInv

\* Over DynamoDB the tables of the tuple space and the calls on them keep their
\* invariant, however late a read is and wherever a call is interrupted.
THEOREM DynamoSpaceSafety == SpaceSpec => []SpaceInv
    <1>1. SpaceInv /\ [SpaceNext]_spaceVars => SpaceInv'
        BY SpaceStep, SpaceStutters
    <1> QED BY <1>1, SpaceBoot, PTL DEF SpaceSpec

\* No tuple is taken from the visible table more often than it was put there
\* (the conditional delete of take_match), for any number of takers.
THEOREM TakenOncePerInsertHolds == SpaceSpec => []TakenOncePerInsert
    BY SpaceKept, DynamoSpaceSafety, PTL

\* A write of a transaction is visible only once the transaction was told to
\* commit (insert_uncommitted, commit_txn).
THEOREM UncommittedIsHiddenHolds == SpaceSpec => []UncommittedIsHidden
    BY SpaceKept, DynamoSpaceSafety, PTL

\* A stored tuple stays in a table or with the call that takes it until it was
\* handed out, removed, discarded, or lost in one of the ways the model names.
THEOREM DynamoConservationHolds == SpaceSpec => []Conservation
    BY SpaceKept, DynamoSpaceSafety, PTL

-----------------------------------------------------------------------------
(***************************************************************************)
(* The cascade and the orphan sweep.                                       *)
(***************************************************************************)

\* One action: sending on the broadcast keeps it within its capacity, and what
\* is in it afterwards was there or is what was sent.
LEMMA SendBounded ==
    ASSUME TypeOK, NEW l \in Lease, send(l)
    PROVE  /\ channel' \in Seq(Lease) /\ Len(channel') <= Capacity
           /\ lagged' \in BOOLEAN
           /\ \A i \in DOMAIN channel' : channel'[i] = l \/ \E j \in DOMAIN channel : channel'[i] = channel[j]
<1>1. CASE Len(channel) < Capacity
  BY <1>1, SweepAssumption, SMT DEF TypeOK, send
<1>2. CASE ~(Len(channel) < Capacity)
  <2>1. Len(channel) = Capacity /\ channel \in Seq(Lease) /\ channel # <<>>
    BY <1>2, SweepAssumption, SMT DEF TypeOK
  <2>2. /\ Tail(channel) \in Seq(Lease) /\ Len(Tail(channel)) = Len(channel) - 1
        /\ \A i \in 1 .. Len(channel) - 1 : Tail(channel)[i] = channel[i + 1]
    BY <2>1, SMT
  <2>3. channel' = Append(Tail(channel), l) /\ lagged' = TRUE
    BY <1>2 DEF send
  <2> QED
    BY <2>1, <2>2, <2>3, SweepAssumption, SMT
<1> QED
  BY <1>1, <1>2

\* Receiving takes the oldest reclaim out of the channel.
LEMMA TailKept ==
    ASSUME TypeOK, channel # <<>>
    PROVE  /\ Tail(channel) \in Seq(Lease) /\ Len(Tail(channel)) <= Capacity
           /\ Head(channel) \in Lease /\ Head(channel) = channel[1] /\ 1 \in DOMAIN channel
           /\ \A i \in DOMAIN Tail(channel) : \E j \in DOMAIN channel : Tail(channel)[i] = channel[j]
<1>1. channel \in Seq(Lease) /\ Len(channel) \in Nat \ {0} /\ Len(channel) <= Capacity
  BY SweepAssumption, SMT DEF TypeOK
<1>2. /\ Tail(channel) \in Seq(Lease) /\ Len(Tail(channel)) = Len(channel) - 1
      /\ \A i \in 1 .. Len(channel) - 1 : Tail(channel)[i] = channel[i + 1]
  BY <1>1, SMT
<1> QED
  BY <1>1, <1>2, SweepAssumption, SMT

\* Every variable keeps its type, and the channel its capacity.
THEOREM TypeCorrect == Spec => []TypeOK
<1>1. Init => TypeOK
  <2> SUFFICES ASSUME Init PROVE TypeOK
    OBVIOUS
  <2>1. channel \in Seq(Lease) /\ Len(channel) <= Capacity
    BY SweepAssumption, SMT DEF Init
  <2>2. lagged \in BOOLEAN
    BY DEF Init
  <2> QED
    BY <2>1, <2>2, SweepAssumption, SMT DEF Init, TypeOK
<1>2. TypeOK /\ [Next]_vars => TypeOK'
  <2> SUFFICES ASSUME TypeOK, [Next]_vars PROVE TypeOK'
    OBVIOUS
  <2> USE SweepAssumption DEF TypeOK, leases, cascade, pass, faults
  <2>1. ASSUME NEW l \in Lease, Grant(l) PROVE TypeOK'
    BY <2>1 DEF Grant
  <2>2. ASSUME NEW l \in Lease, InsertResource(l) PROVE TypeOK'
    BY <2>2 DEF InsertResource
  <2>3. ASSUME NEW l \in Lease, Dropped(l) PROVE TypeOK'
    BY <2>3 DEF Dropped
  <2>4. ASSUME NEW l \in Lease, Reclaim(l) PROVE TypeOK'
    <3>1. channel' \in Seq(Lease) /\ Len(channel') <= Capacity /\ lagged' \in BOOLEAN
      BY <2>4, SendBounded DEF Reclaim
    <3> QED
      BY <3>1, <2>4 DEF Reclaim
  <2>5. ASSUME NEW l \in Lease, ReclaimUnseen(l) PROVE TypeOK'
    BY <2>5, SMT DEF ReclaimUnseen
  <2>6. ASSUME NEW l \in Lease, Clean(l) PROVE TypeOK'
    BY <2>6 DEF Clean
  <2>7. CASE Receive
    <3>1. channel # <<>> /\ channel' = Tail(channel) /\ cleaning' = cleaning \cup {Head(channel)}
      BY <2>7 DEF Receive
    <3>2. Tail(channel) \in Seq(Lease) /\ Len(Tail(channel)) <= Capacity /\ Head(channel) \in Lease
      BY <3>1, TailKept
    <3> HIDE DEF TypeOK
    <3>3. channel' \in Seq(Lease) /\ Len(channel') <= Capacity /\ cleaning' \subseteq Lease
      BY <3>1, <3>2 DEF TypeOK
    <3> QED
      BY <3>3, <2>7 DEF Receive, TypeOK
  <2>8. CASE ReceiveLagged
    BY <2>8 DEF ReceiveLagged
  <2>9. CASE SweepList \/ Tally \/ SweepDone
    BY <2>9 DEF SweepList, Tally, SweepDone
  <2>10. ASSUME NEW l \in Lease, Lookup(l) PROVE TypeOK'
    BY <2>10, SMT DEF Lookup
  <2>11. ASSUME NEW l \in Lease, SweepReclaim(l) PROVE TypeOK'
    BY <2>11, SMT DEF SweepReclaim
  <2>12. CASE SweepListFails
    BY <2>12, SMT DEF SweepListFails
  <2>13. CASE Crash
    <3>1. channel' \in Seq(Lease) /\ Len(channel') <= Capacity
      BY <2>13, SMT DEF Crash
    <3>2. lagged' \in BOOLEAN
      BY <2>13 DEF Crash
    <3> QED
      BY <3>1, <3>2, <2>13, SMT DEF Crash
  <2>14. CASE UNCHANGED vars
    BY <2>14 DEF vars
  <2> QED
    BY <2>1, <2>2, <2>3, <2>4, <2>5, <2>6, <2>7, <2>8, <2>9, <2>10, <2>11, <2>12, <2>13, <2>14
    DEF Next, CascadeStep, SweepStep
<1> QED
  BY <1>1, <1>2, PTL DEF Spec

\* What the sweep suspects is readable by its next pass, and what it has
\* confirmed, and what the cascade was told of, is gone.
THEOREM SweepInvHolds == Spec => []SweepInv
<1>1. Init => SweepInv
  BY SMT DEF Init, SweepInv
<1>2. TypeOK /\ SweepInv /\ [Next]_vars => SweepInv'
  <2> SUFFICES ASSUME TypeOK, SweepInv, [Next]_vars PROVE SweepInv'
    OBVIOUS
  <2> USE DEF TypeOK, SweepInv, leases, cascade, pass, faults
  <2>1. ASSUME NEW l \in Lease, Grant(l) PROVE SweepInv'
    BY <2>1, SMT DEF Grant
  <2>2. ASSUME NEW l \in Lease, InsertResource(l) PROVE SweepInv'
    BY <2>2 DEF InsertResource
  <2>3. ASSUME NEW l \in Lease, Dropped(l) PROVE SweepInv'
    BY <2>3 DEF Dropped
  <2>4. ASSUME NEW l \in Lease, Reclaim(l) PROVE SweepInv'
    <3>1. \A i \in DOMAIN channel' : channel'[i] = l \/ \E j \in DOMAIN channel : channel'[i] = channel[j]
      BY <2>4, SendBounded DEF Reclaim
    <3>2. status'[l] = "gone" /\ \A m \in Lease : m # l => status'[m] = status[m]
      BY <2>4 DEF Reclaim
    <3>3. \A j \in DOMAIN channel : channel[j] \in Lease
      BY SMT
    <3>4. \A i \in DOMAIN channel' : status'[channel'[i]] = "gone"
      BY <3>1, <3>2, <3>3, SMT
    <3> QED
      BY <3>2, <3>4, <2>4 DEF Reclaim
  <2>5. ASSUME NEW l \in Lease, ReclaimUnseen(l) PROVE SweepInv'
    BY <2>5, SMT DEF ReclaimUnseen
  <2>6. ASSUME NEW l \in Lease, Clean(l) PROVE SweepInv'
    BY <2>6 DEF Clean
  <2>7. CASE Receive
    <3>1. status[Head(channel)] = "gone" /\ \A i \in DOMAIN Tail(channel) : status[Tail(channel)[i]] = "gone"
      BY <2>7, TailKept, SMT DEF Receive
    <3> QED
      BY <3>1, <2>7 DEF Receive
  <2>8. CASE ReceiveLagged
    BY <2>8 DEF ReceiveLagged
  <2>9. CASE SweepList
    BY <2>9 DEF SweepList
  <2>10. CASE Tally
    BY <2>10 DEF Tally
  <2>11. CASE SweepDone
    BY <2>11 DEF SweepDone
  <2>12. ASSUME NEW l \in Lease, Lookup(l) PROVE SweepInv'
    BY <2>12 DEF Lookup
  <2>13. ASSUME NEW l \in Lease, SweepReclaim(l) PROVE SweepInv'
    BY <2>13 DEF SweepReclaim
  <2>14. CASE SweepListFails
    BY <2>14 DEF SweepListFails
  <2>15. CASE Crash
    BY <2>15, SMT DEF Crash
  <2>16. CASE UNCHANGED vars
    BY <2>16 DEF vars
  <2> QED
    BY <2>1, <2>2, <2>3, <2>4, <2>5, <2>6, <2>7, <2>8, <2>9, <2>10, <2>11, <2>12, <2>13, <2>14, <2>15, <2>16
    DEF Next, CascadeStep, SweepStep
<1> QED
  BY <1>1, <1>2, TypeCorrect, PTL DEF Spec

\* No cleanup, by cascade or sweep, ever removes a resource whose lease
\* stands: two strikes make up for lookups that lag.
THEOREM NeverReclaimsLeasedHolds == Spec => NeverReclaimsLeased
<1>1. SweepInv /\ [Next]_vars => [\A l \in held \ held' : status[l] = "gone"]_vars
  <2> SUFFICES ASSUME SweepInv, Next PROVE \A l \in held \ held' : status[l] = "gone"
    OBVIOUS
  <2> USE DEF leases, cascade, pass, faults
  <2>1. ASSUME NEW l \in Lease, Grant(l) \/ Dropped(l) \/ Reclaim(l) \/ ReclaimUnseen(l) \/ Lookup(l)
        PROVE  held' = held
    BY <2>1 DEF Grant, Dropped, Reclaim, ReclaimUnseen, Lookup
  <2>2. ASSUME NEW l \in Lease, InsertResource(l) PROVE held \subseteq held'
    BY <2>2 DEF InsertResource
  <2>3. ASSUME NEW l \in Lease, Clean(l) \/ SweepReclaim(l)
        PROVE  held \ held' \subseteq {l} /\ status[l] = "gone"
    BY <2>3 DEF Clean, SweepReclaim, SweepInv
  <2>4. ASSUME CascadeStep \/ SweepList \/ Tally \/ SweepDone \/ SweepListFails \/ Crash
        PROVE  held' = held
    BY <2>4 DEF CascadeStep, Receive, ReceiveLagged, SweepList, Tally, SweepDone, SweepListFails, Crash
  <2> QED
    BY <2>1, <2>2, <2>3, <2>4 DEF Next, SweepStep
<1> QED
  BY <1>1, SweepInvHolds, PTL DEF Spec, NeverReclaimsLeased
=============================================================================
