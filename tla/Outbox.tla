------------------------------- MODULE Outbox -------------------------------
(***************************************************************************)
(* The transactional outbox of the ledger crate and its relay              *)
(* (crates/tpt-erp-ledger/src/outbox.rs): messages are staged as rows, and *)
(* relays fetch pending rows, publish them to the event bus in id order    *)
(* and mark each one delivered once it is published.                       *)
(*                                                                         *)
(* A batch is the set of ids a pass has fetched and not yet marked: the    *)
(* pass works through it from the smallest id up.                          *)
(***************************************************************************)
EXTENDS Integers, FiniteSets

CONSTANTS
  Stager,        \* tasks that stage messages
  Relay,         \* running OutboxRelay::run_forever loops
  Msg,           \* messages: each is staged at most once (bound)
  Poison,        \* messages the bus refuses for ever
  Limit,         \* rows fetched in one pass
  MaxId,         \* the last id there is (bound)
  InMemory,      \* InMemoryOutbox rather than PostgresOutbox
  StoreFails,    \* whether a call to the outbox may fail
  BusFails,      \* whether a publication may fail
  RelayCrashes   \* whether a relay may die and be started again

ASSUME OutboxConstants ==
  /\ Poison \subseteq Msg
  /\ Limit \in Nat \ {0} /\ MaxId \in Nat
  /\ InMemory \in BOOLEAN /\ StoreFails \in BOOLEAN
  /\ BusFails \in BOOLEAN /\ RelayCrashes \in BOOLEAN

VARIABLES
  rows,          \* the visible rows: [id, msg, delivered]
  nextId,        \* the last id drawn
  staging,       \* per stager, the row of an insert that is not visible yet
  phase,         \* per relay: sleep, publish or mark
  batch,         \* per relay, the ids its pass still has to deal with
  sent           \* ids the bus has accepted

outboxVars == <<rows, nextId, staging, phase, batch, sent>>

NoRow == [id |-> 0]

Ids(rs) == {r.id : r \in rs}
Pending == {r \in rows : ~r.delivered}
Smallest(S, i) == i \in S /\ \A j \in S : i <= j

\* Messages that are staged or being staged.
Taken == {r.msg : r \in rows} \cup {staging[s].msg : s \in {t \in Stager : staging[t] # NoRow}}

Init ==
  /\ rows = {} /\ nextId = 0
  /\ staging = [s \in Stager |-> NoRow]
  /\ phase = [r \in Relay |-> "sleep"]
  /\ batch = [r \in Relay |-> {}]
  /\ sent = {}

-----------------------------------------------------------------------------
(* stage().  In memory the id is drawn and the row pushed under one mutex; *)
(* an INSERT draws its id from the sequence first and is visible when it   *)
(* commits.                                                                *)

Id == 1..MaxId

NewRow(i, m) == [id |-> i, msg |-> m, delivered |-> FALSE]

StageNow(s, m) ==
  /\ InMemory /\ staging[s] = NoRow /\ m \notin Taken /\ nextId < MaxId
  /\ nextId' = nextId + 1
  /\ rows' = rows \cup {NewRow(nextId + 1, m)}
  /\ UNCHANGED <<staging, phase, batch, sent>>

DrawId(s, m) ==
  /\ ~InMemory /\ staging[s] = NoRow /\ m \notin Taken /\ nextId < MaxId
  /\ nextId' = nextId + 1
  /\ staging' = [staging EXCEPT ![s] = NewRow(nextId + 1, m)]
  /\ UNCHANGED <<rows, phase, batch, sent>>

CommitRow(s) ==
  /\ staging[s] # NoRow
  /\ rows' = rows \cup {staging[s]}
  /\ staging' = [staging EXCEPT ![s] = NoRow]
  /\ UNCHANGED <<nextId, phase, batch, sent>>

\* The insert fails; its id is not used again.
AbortRow(s) ==
  /\ StoreFails /\ staging[s] # NoRow
  /\ staging' = [staging EXCEPT ![s] = NoRow]
  /\ UNCHANGED <<rows, nextId, phase, batch, sent>>

-----------------------------------------------------------------------------
(* run_once(), again and again: fetch_pending(), then publish() and        *)
(* mark_delivered() for one row after the other.  Any error ends the pass. *)

\* variant: delivered rows are fetched with the others
Fetched_all(B) ==
  /\ B \subseteq Ids(rows) /\ Cardinality(B) <= Limit
  /\ \A i \in B, j \in Ids(rows) \ B : i < j
  /\ Cardinality(B) = Limit \/ B = Ids(rows)

\* variant: the rows come in any order
Fetched_unordered(B) ==
  /\ B \subseteq Ids(Pending) /\ Cardinality(B) <= Limit
  /\ Cardinality(B) = Limit \/ B = Ids(Pending)

\* The first Limit pending rows in id order.
Fetched(B) ==
  /\ B \subseteq Ids(Pending) /\ Cardinality(B) <= Limit
  /\ \A i \in B, j \in Ids(Pending) \ B : i < j
  /\ Cardinality(B) = Limit \/ B = Ids(Pending)

Fetch(r) ==
  /\ phase[r] = "sleep"
  /\ \E B \in (SUBSET Ids(rows)) \ {{}} :
       Fetched(B) /\ batch' = [batch EXCEPT ![r] = B]
  /\ phase' = [phase EXCEPT ![r] = "publish"]
  /\ UNCHANGED <<rows, nextId, staging, sent>>

\* The pass is over; run_forever() sleeps and starts another.
EndPass(r) ==
  /\ batch' = [batch EXCEPT ![r] = {}]
  /\ phase' = [phase EXCEPT ![r] = "sleep"]

Refused(i) == \E x \in rows : x.id = i /\ x.msg \in Poison

Publish(r) ==
  /\ phase[r] = "publish"
  /\ \E i \in batch[r] : /\ Smallest(batch[r], i) /\ ~Refused(i)
                         /\ sent' = sent \cup {i}
  /\ phase' = [phase EXCEPT ![r] = "mark"]
  /\ UNCHANGED <<rows, nextId, staging, batch>>

\* variant: the loop ends with its first error
PublishError_stops(r) ==
  /\ phase[r] = "publish"
  /\ \E i \in batch[r] : Smallest(batch[r], i) /\ (BusFails \/ Refused(i))
  /\ batch' = [batch EXCEPT ![r] = {}]
  /\ phase' = [phase EXCEPT ![r] = "stopped"]
  /\ UNCHANGED <<rows, nextId, staging, sent>>

\* The error may hide that the bus has taken the message.
PublishError(r) ==
  /\ phase[r] = "publish"
  /\ \E i \in batch[r] :
       /\ Smallest(batch[r], i) /\ (BusFails \/ Refused(i))
       /\ UNCHANGED sent \/ (~Refused(i) /\ sent' = sent \cup {i})
  /\ EndPass(r)
  /\ UNCHANGED <<rows, nextId, staging>>

Marked(i) == {IF x.id = i THEN [x EXCEPT !.delivered = TRUE] ELSE x : x \in rows}

Mark(r) ==
  /\ phase[r] = "mark"
  /\ \E i \in batch[r] :
       /\ Smallest(batch[r], i)
       /\ rows' = Marked(i)
       /\ IF batch[r] = {i}
            THEN EndPass(r)
            ELSE /\ batch' = [batch EXCEPT ![r] = @ \ {i}]
                 /\ phase' = [phase EXCEPT ![r] = "publish"]
  /\ UNCHANGED <<nextId, staging, sent>>

MarkError(r) ==
  /\ phase[r] = "mark" /\ StoreFails
  /\ \E i \in batch[r] : Smallest(batch[r], i) /\ rows' \in {rows, Marked(i)}
  /\ EndPass(r)
  /\ UNCHANGED <<nextId, staging, sent>>

\* The relay's process dies and another one is started.
RelayCrash(r) ==
  /\ RelayCrashes /\ phase[r] # "sleep"
  /\ EndPass(r)
  /\ UNCHANGED <<rows, nextId, staging, sent>>

Relaying(r) ==
  \/ Fetch(r) \/ Publish(r) \/ PublishError(r) \/ Mark(r) \/ MarkError(r)
  \/ RelayCrash(r)

Staging(s) ==
  \/ \E m \in Msg : StageNow(s, m) \/ DrawId(s, m)
  \/ CommitRow(s) \/ AbortRow(s)

Next == (\E s \in Stager : Staging(s)) \/ (\E r \in Relay : Relaying(r))

Spec == Init /\ [][Next]_outboxVars

\* run_forever() starts pass after pass, and an outage of the bus or of the
\* table ends: what is tried for ever succeeds some time.
Fairness ==
  \A r \in Relay : WF_outboxVars(Fetch(r)) /\ SF_outboxVars(Publish(r))
                   /\ SF_outboxVars(Mark(r))

FairSpec == Spec /\ Fairness

-----------------------------------------------------------------------------
Rows == [id : Id, msg : Msg, delivered : BOOLEAN]

\* Ids name rows; a relay has a batch exactly during a pass.
TypeOK ==
  /\ rows \subseteq Rows /\ nextId \in 0..MaxId
  /\ staging \in [Stager -> Rows \cup {NoRow}]
  /\ phase \in [Relay -> {"sleep", "publish", "mark"}]
  /\ batch \in [Relay -> SUBSET Id]
  /\ sent \subseteq Id
  /\ \A r \in Relay : batch[r] = {} <=> phase[r] = "sleep"

\* A row is marked delivered only after the bus has taken it: at least once,
\* whatever failed in between (outbox.rs:5-9, 126-128).
DeliveredWasSent == \A x \in rows : x.delivered => x.id \in sent

\* With one relay nothing is published again once it is marked: the second
\* pass of relay_publishes_pending_then_marks_delivered finds nothing to do.
NoResend ==
  [][\A r \in Relay, x \in rows :
       (Publish(r) /\ Smallest(batch[r], x.id)) => ~x.delivered]_outboxVars

\* Messages reach the bus for the first time in the order of their ids
\* ("Monotonic row id (delivery order)", outbox.rs:35).
FirstSendInOrder ==
  \A i \in sent, x \in rows : x.id < i => x.id \in sent

\* Every row the bus does not refuse is delivered some time, although relays
\* fail, die and send rows twice (run_forever, outbox.rs:140-141).
AllDelivered ==
  \A m \in Msg \ Poison :
    (\E x \in rows : x.msg = m) ~> (\E x \in rows : x.msg = m /\ x.delivered)

-----------------------------------------------------------------------------
Channel == INSTANCE AtLeastOnce WITH
             Id <- Id, accepted <- Ids(rows), settled <- Ids(rows \ Pending), sent <- sent

\* With ids that become visible in the order they are drawn, the outbox is an
\* at-least-once channel that keeps the order of first deliveries.
ChannelRefinement == Channel!Spec

=============================================================================
