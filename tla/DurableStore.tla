---------------------------- MODULE DurableStore ----------------------------
(***************************************************************************)
(* The event store of the ledger crate (crates/tpt-erp-ledger): an         *)
(* in-memory log, authoritative for reads and version checks, mirrored row *)
(* by row to a Postgres table and hydrated from it (PostgresEventStore     *)
(* over InMemoryEventStore).                                               *)
(*                                                                         *)
(* A node is a process that owns one store; `&mut self` lets it run one    *)
(* call at a time.  An append is two steps, the in-memory one and the      *)
(* database write, and the process may die between them.                   *)
(***************************************************************************)
EXTENDS Integers, Sequences, FiniteSets, Functions

CONSTANTS
  Node,          \* processes with a store over the one database
  Client,        \* callers that read a stream and append on what they read
  Agg,           \* aggregates
  Ev,            \* events: each is appended at most once (bound)
  Ops,           \* the operations in use, a subset of AllOps
  HasOutbox,     \* whether with_outbox() attached an outbox
  DbFails,       \* whether a database write may fail
  MaxLog,        \* longest log a second load() leaves in memory (bound)
  MaxCrash       \* most process crashes (bound)

AllOps == {"append", "append_async", "append_versioned"}

ASSUME StoreConstants ==
  /\ Ops \subseteq AllOps
  /\ HasOutbox \in BOOLEAN /\ DbFails \in BOOLEAN
  /\ MaxLog \in Nat /\ MaxCrash \in Nat

VARIABLES
  log,           \* InMemoryEventStore::log of each node
  version,       \* InMemoryEventStore::versions
  failures,      \* PostgresEventStore::durability_failures
  db,            \* the rows of the `events` table
  pc,            \* where each node is: down, idle, mirror or stage
  cur,           \* the stored event (and operation) of each node's call
  view,          \* the version and the stream each client last read
  returned,      \* the stored events that calls handed back, in that order
  used,          \* events that have been appended
  crashes

storeVars == <<log, version, failures, db, pc, cur, view, returned, used, crashes>>

Row == [agg : Agg, seq : Nat, ev : Ev]
Call == [op : AllOps, agg : Agg, seq : Nat, ev : Ev]

NoCall == [op |-> "none"]

At(n, l) == pc[n] = l
Goto(n, l) == pc' = [pc EXCEPT ![n] = l]

\* How many of the first i events of a log are of aggregate a.
Count(s, a, i) == Cardinality({j \in 1..i : s[j].agg = a})

\* stream(): the events of one aggregate, each with its number.
StreamOf(s, a) ==
  {[seq |-> s[i].seq, ev |-> s[i].ev] : i \in {j \in 1..Len(s) : s[j].agg = a}}

\* The primary key (aggregate_id, sequence) allows one row per number.
RowOf(c) == [agg |-> c.agg, seq |-> c.seq, ev |-> c.ev]

KeyTaken(c) == \E r \in db : r.agg = c.agg /\ r.seq = c.seq

Init ==
  /\ log = [n \in Node |-> <<>>]
  /\ version = [n \in Node |-> [a \in Agg |-> 0]]
  /\ failures = [n \in Node |-> 0]
  /\ db = {}
  /\ pc = [n \in Node |-> "down"]
  /\ cur = [n \in Node |-> NoCall]
  /\ view = [c \in Client |-> [a \in Agg |-> [version |-> 0, events |-> {}]]]
  /\ returned = <<>>
  /\ used = {} /\ crashes = 0

-----------------------------------------------------------------------------
(* load(): the rows, ordered by sequence, are appended to the in-memory    *)
(* log one by one, which numbers them afresh after what it already holds.  *)

\* The orders in which the query can present the rows.
Ordered(rows) ==
  \A i, j \in DOMAIN rows : i < j => rows[i] # rows[j] /\ rows[i].seq <= rows[j].seq

\* variant: the rows keep the numbers the database has for them
Numbered_asStored(v, rows) == rows

\* The rows as append() stores them when the versions are v.
Numbered(v, rows) ==
  [i \in DOMAIN rows |->
     [rows[i] EXCEPT !.seq = v[rows[i].agg] + Count(rows, rows[i].agg, i)]]

Load(n, old, v) ==
  \E rows \in [1..Cardinality(db) -> db] :
    /\ Ordered(rows)
    /\ log' = [log EXCEPT ![n] = old \o Numbered(v, rows)]
    /\ version' = [version EXCEPT ![n] = [a \in Agg |-> v[a] + Count(rows, a, Len(rows))]]

\* new(), create_table() and load(): a process starts with an empty memory.
Start(n) ==
  /\ At(n, "down")
  /\ Load(n, <<>>, [a \in Agg |-> 0])
  /\ failures' = [failures EXCEPT ![n] = 0]
  /\ Goto(n, "idle")
  /\ UNCHANGED <<db, cur, view, returned, used, crashes>>

\* load() on a store that is in use, "after reconnect".
Reload(n) ==
  /\ At(n, "idle")
  /\ Len(log[n]) + Cardinality(db) <= MaxLog
  /\ Load(n, log[n], version[n])
  /\ UNCHANGED <<failures, db, pc, cur, view, returned, used, crashes>>

\* The process dies; a write that was under way may have reached the table.
Crash(n) ==
  /\ crashes < MaxCrash /\ pc[n] # "down"
  /\ crashes' = crashes + 1
  /\ log' = [log EXCEPT ![n] = <<>>]
  /\ version' = [version EXCEPT ![n] = [a \in Agg |-> 0]]
  /\ failures' = [failures EXCEPT ![n] = 0]
  /\ cur' = [cur EXCEPT ![n] = NoCall]
  /\ Goto(n, "down")
  /\ \/ UNCHANGED db
     \/ At(n, "mirror") /\ ~KeyTaken(cur[n]) /\ db' = db \cup {RowOf(cur[n])}
  /\ UNCHANGED <<view, returned, used>>

-----------------------------------------------------------------------------
(* The in-memory append, and the calls that begin with it.                 *)

\* InMemoryEventStore::append_versioned once the version check has passed.
PushEvent(n, op, a, e) ==
  LET s == version[n][a] + 1
  IN /\ log' = [log EXCEPT ![n] = Append(@, [agg |-> a, seq |-> s, ev |-> e])]
     /\ version' = [version EXCEPT ![n][a] = s]
     /\ cur' = [cur EXCEPT ![n] = [op |-> op, agg |-> a, seq |-> s, ev |-> e]]
     /\ Goto(n, "mirror")
     /\ used' = used \cup {e}
     /\ UNCHANGED <<failures, db, view, returned, crashes>>

\* append() and append_async().
AppendEvent(n, op, a, e) ==
  /\ op \in Ops \cap {"append", "append_async"}
  /\ At(n, "idle") /\ e \notin used
  /\ PushEvent(n, op, a, e)

\* variant: an expected version behind the current one is let through
ExpectedOK_behind(expected, current) == expected <= current + 1

\* The program wants the number of the new event, not the current version.
ExpectedOK(expected, current) == expected = current + 1

\* append_versioned() and its async form, by a client that counts on the
\* stream it has read.  A conflict changes nothing.
AppendVersioned(n, c, a, e) ==
  /\ "append_versioned" \in Ops
  /\ At(n, "idle") /\ e \notin used
  /\ ExpectedOK(view[c][a].version + 1, version[n][a])
  /\ PushEvent(n, "append_versioned", a, e)

ReadStream(n, c, a) ==
  /\ "append_versioned" \in Ops
  /\ At(n, "idle")
  /\ view' = [view EXCEPT ![c][a] = [version |-> version[n][a],
                                     events |-> StreamOf(log[n], a)]]
  /\ UNCHANGED <<log, version, failures, db, pc, cur, returned, used, crashes>>

-----------------------------------------------------------------------------
(* The mirror write.  It fails when the number is taken, and it may fail   *)
(* when the database does, whether or not the row was written.             *)

\* The call hands the stored event back.
Return(n) ==
  /\ returned' = Append(returned, cur[n])
  /\ Goto(n, "idle") /\ cur' = [cur EXCEPT ![n] = NoCall]

\* append_async() goes on to the outbox, if there is one.
StageOrReturn(n) ==
  IF HasOutbox /\ cur[n].op = "append_async"
    THEN Goto(n, "stage") /\ UNCHANGED <<cur, returned>>
    ELSE Return(n)

\* variant: the write goes on in the background
MirrorOk_detached(n) ==
  /\ At(n, "mirror") /\ ~KeyTaken(cur[n])
  /\ db' \in {db, db \cup {RowOf(cur[n])}}
  /\ StageOrReturn(n)
  /\ UNCHANGED <<log, version, failures, view, used, crashes>>

MirrorOk(n) ==
  /\ At(n, "mirror") /\ ~KeyTaken(cur[n])
  /\ db' = db \cup {RowOf(cur[n])}
  /\ StageOrReturn(n)
  /\ UNCHANGED <<log, version, failures, view, used, crashes>>

WriteFails(n) ==
  \/ (DbFails \/ KeyTaken(cur[n])) /\ UNCHANGED db
  \/ DbFails /\ ~KeyTaken(cur[n]) /\ db' = db \cup {RowOf(cur[n])}

\* append_versioned() answers with the error.
Fail(n) == Goto(n, "idle") /\ cur' = [cur EXCEPT ![n] = NoCall] /\ UNCHANGED returned

\* variant: a failed write of append() is reported nowhere
MirrorError_uncounted(n) ==
  /\ At(n, "mirror") /\ WriteFails(n)
  /\ IF cur[n].op = "append_versioned"
       THEN Fail(n) /\ UNCHANGED failures
       ELSE StageOrReturn(n) /\ UNCHANGED failures
  /\ UNCHANGED <<log, version, view, used, crashes>>

\* variant: append_versioned() answers like append(), with the stored event
MirrorError_swallowed(n) ==
  /\ At(n, "mirror") /\ WriteFails(n)
  /\ failures' = [failures EXCEPT ![n] = @ + 1]
  /\ StageOrReturn(n)
  /\ UNCHANGED <<log, version, view, used, crashes>>

\* append() counts the failure and still returns the event; append_versioned()
\* returns the error.  Neither takes the event out of the in-memory log.
MirrorError(n) ==
  /\ At(n, "mirror") /\ WriteFails(n)
  /\ IF cur[n].op = "append_versioned"
       THEN Fail(n) /\ UNCHANGED failures
       ELSE StageOrReturn(n) /\ failures' = [failures EXCEPT ![n] = @ + 1]
  /\ UNCHANGED <<log, version, view, used, crashes>>

\* append_async() after the outbox answered, whatever it answered.
Staged(n) ==
  /\ At(n, "stage")
  /\ Return(n)
  /\ UNCHANGED <<log, version, failures, db, view, used, crashes>>

\* Every step but the answer of the outbox.
StoreStep(n) ==
  \/ Start(n) \/ Reload(n) \/ Crash(n)
  \/ \E a \in Agg, e \in Ev :
       \/ \E op \in AllOps : AppendEvent(n, op, a, e)
       \/ \E c \in Client : AppendVersioned(n, c, a, e)
  \/ \E c \in Client, a \in Agg : ReadStream(n, c, a)
  \/ MirrorOk(n) \/ MirrorError(n)

Next == \E n \in Node : StoreStep(n) \/ Staged(n)

Spec == Init /\ [][Next]_storeVars

-----------------------------------------------------------------------------
\* Memory, table and history have their types, and a node has a call at hand
\* exactly while it is in one.
TypeOK ==
  /\ log \in [Node -> Seq(Row)]
  /\ version \in [Node -> [Agg -> Nat]]
  /\ failures \in [Node -> Nat]
  /\ db \subseteq Row /\ IsFiniteSet(db)
  /\ pc \in [Node -> {"down", "idle", "mirror", "stage"}]
  /\ cur \in [Node -> Call \cup {NoCall}]
  /\ \A n \in Node : pc[n] \in {"mirror", "stage"} <=> cur[n] # NoCall
  /\ view \in [Client -> [Agg -> [version : Nat, events : SUBSET [seq : Nat, ev : Ev]]]]
  /\ returned \in Seq(Call) /\ used \subseteq Ev
  /\ crashes \in 0..MaxCrash

\* Each aggregate's events are numbered 1, 2, 3... in log order, without a gap,
\* and its version is the last number: also after a crash, a failed write and a
\* hydration from rows with gaps (EventStore, store.rs:14-18).
Contiguous ==
  \A n \in Node :
    /\ \A a \in Agg : version[n][a] = Count(log[n], a, Len(log[n]))
    /\ \A i \in 1..Len(log[n]) : log[n][i].seq = Count(log[n], log[n][i].agg, i)

\* What append_versioned() accepted is in the table under the number it
\* answered, and stays there, whichever writes failed, whichever process
\* crashed and however many processes write (postgres_store.rs:12-14, 221-223).
VersionedDurable ==
  \A c \in Range(returned) : c.op = "append_versioned" => RowOf(c) \in db

\* While no database write fails, every event handed back is in the table
\* under its number: a crash loses nothing that was answered.
ReturnedDurable == \A c \in Range(returned) : RowOf(c) \in db

\* A store that counts no failure and is between calls has in memory exactly
\* what the table holds, number by number (durability_failures, 83-85).
MirrorExact ==
  \A n \in Node : At(n, "idle") /\ failures[n] = 0 => Range(log[n]) = db

OnlyInMemory(n) == {x.ev : x \in Range(log[n])} \ {r.ev : r \in db}

\* Between calls, the events that append() and append_async() handed back and
\* that are in memory only are at most as many as the failures counted, with
\* several writers and crashes (durability_failures, 45-48).
FailuresCounted ==
  \A n \in Node : At(n, "idle")
    => LET plain == {c.ev : c \in {d \in Range(returned) : d.op # "append_versioned"}}
       IN Cardinality(OnlyInMemory(n) \cap plain) <= failures[n]

\* The same of every event in memory ("Non-zero signals potential divergence
\* between the in-memory log and Postgres", 46-47).
DivergenceCounted ==
  \A n \in Node : At(n, "idle") => Cardinality(OnlyInMemory(n)) <= failures[n]

\* A store's log holds the events in the order in which they were appended,
\* also after a restart: the first k of them are the state after k appends
\* (replay.rs:3-14).
AppendOrder ==
  \A n \in Node, i, j \in DOMAIN returned : \A k, l \in DOMAIN log[n] :
    i < j /\ log[n][k].ev = returned[i].ev /\ log[n][l].ev = returned[j].ev => k < l

\* append_versioned() only extends the very stream its caller has read: the
\* optimistic-concurrency guard (EventStore::append_versioned, store.rs:25-27).
NoBlindWrite ==
  [][\A n \in Node, a \in Agg, e \in Ev, c \in Client :
       AppendVersioned(n, c, a, e) => view[c][a].events = StreamOf(log[n], a)]_storeVars

=============================================================================
