---------------------------- MODULE OutboxProof ----------------------------
(* What the outbox guarantees for every number of stagers, relays and      *)
(* messages, every batch size and every pattern of failures.               *)
EXTENDS Outbox, TLAPS

-----------------------------------------------------------------------------
(* The outbox's state has its type.                                        *)

LEMMA InitType == Init => TypeOK
  BY OutboxConstants DEF Init, TypeOK, Id, Rows, NoRow

LEMMA StagingType ==
  ASSUME TypeOK, NEW s \in Stager, Staging(s)
  PROVE  TypeOK'
<1> USE OutboxConstants DEF TypeOK, Id, Rows
<1>1. ASSUME NEW m \in Msg, StageNow(s, m)
      PROVE  TypeOK'
  <2>1. nextId + 1 \in 1..MaxId
    BY <1>1 DEF StageNow
  <2>2. NewRow(nextId + 1, m) \in Rows
    BY <2>1 DEF NewRow
  <2> QED
    BY <1>1, <2>1, <2>2 DEF StageNow
<1>2. ASSUME NEW m \in Msg, DrawId(s, m)
      PROVE  TypeOK'
  <2>1. nextId + 1 \in 1..MaxId
    BY <1>2 DEF DrawId
  <2>2. NewRow(nextId + 1, m) \in Rows
    BY <2>1 DEF NewRow
  <2> QED
    BY <1>2, <2>1, <2>2 DEF DrawId
<1>3. CASE CommitRow(s)
  BY <1>3 DEF CommitRow
<1>4. CASE AbortRow(s)
  BY <1>4 DEF AbortRow
<1> QED
  BY <1>1, <1>2, <1>3, <1>4 DEF Staging

LEMMA MarkedType ==
  ASSUME NEW i, rows \subseteq Rows
  PROVE  Marked(i) \subseteq Rows
<1> SUFFICES ASSUME NEW x \in rows
             PROVE  (IF x.id = i THEN [x EXCEPT !.delivered = TRUE] ELSE x) \in Rows
  BY DEF Marked
<1>1. x \in Rows
  OBVIOUS
<1> QED
  BY <1>1 DEF Rows

LEMMA RelayingType ==
  ASSUME TypeOK, NEW r \in Relay, Relaying(r)
  PROVE  TypeOK'
<1>0. ASSUME EndPass(r)
      PROVE  /\ phase' \in [Relay -> {"sleep", "publish", "mark"}]
             /\ batch' \in [Relay -> SUBSET Id]
             /\ \A q \in Relay : batch'[q] = {} <=> phase'[q] = "sleep"
  BY <1>0 DEF EndPass, TypeOK
<1>1. CASE Fetch(r)
  <2>1. PICK B \in (SUBSET Ids(rows)) \ {{}} : batch' = [batch EXCEPT ![r] = B]
    BY <1>1 DEF Fetch
  <2>2. B \subseteq Id
    BY <2>1 DEF Ids, TypeOK, Rows
  <2> QED
    BY <1>1, <2>1, <2>2 DEF Fetch, TypeOK
<1>2. CASE Publish(r)
  BY <1>2 DEF Publish, TypeOK
<1>3. CASE PublishError(r)
  <2>1. sent' \subseteq Id
    BY <1>3 DEF PublishError, Smallest, TypeOK
  <2> QED
    BY <1>0, <1>3, <2>1 DEF PublishError, TypeOK
<1>4. CASE Mark(r)
  <2>1. rows' \subseteq Rows
    BY <1>4, MarkedType DEF Mark, TypeOK
  <2>2. PICK i \in batch[r] : IF batch[r] = {i}
                                THEN EndPass(r)
                                ELSE /\ batch' = [batch EXCEPT ![r] = @ \ {i}]
                                     /\ phase' = [phase EXCEPT ![r] = "publish"]
    BY <1>4 DEF Mark
  <2>3. CASE batch[r] = {i}
    BY <1>0, <1>4, <2>1, <2>2, <2>3 DEF Mark, TypeOK
  <2>4. CASE batch[r] # {i}
    <3>1. batch[r] \ {i} # {}
      BY <2>4
    <3> QED
      BY <1>4, <2>1, <2>2, <2>4, <3>1 DEF Mark, TypeOK
  <2> QED
    BY <2>3, <2>4
<1>5. CASE MarkError(r)
  BY <1>0, <1>5, MarkedType DEF MarkError, TypeOK
<1>6. CASE RelayCrash(r)
  BY <1>0, <1>6 DEF RelayCrash, TypeOK
<1> QED
  BY <1>1, <1>2, <1>3, <1>4, <1>5, <1>6 DEF Relaying

LEMMA TypeNext == TypeOK /\ [Next]_outboxVars => TypeOK'
<1> SUFFICES ASSUME TypeOK, [Next]_outboxVars
             PROVE  TypeOK'
  OBVIOUS
<1>1. CASE UNCHANGED outboxVars
  BY <1>1 DEF outboxVars, TypeOK
<1> QED
  BY <1>1, StagingType, RelayingType DEF Next

\* The tables, the relays' batches and phases always have their types, and a
\* relay has a batch exactly during a pass.
THEOREM OutboxType == Spec => []TypeOK
<1> QED
  BY InitType, TypeNext, PTL DEF Spec

-----------------------------------------------------------------------------
(* Only rows are dealt with, and a row is marked only after it was sent.   *)

RowsOnly ==
  /\ \A s \in Stager : staging[s] # NoRow => ~staging[s].delivered
  /\ sent \subseteq Ids(rows)
  /\ \A r \in Relay : batch[r] \subseteq Ids(rows)

\* A relay about to mark has sent the row it will mark.
SentFirst ==
  \A r \in Relay : phase[r] = "mark"
    => \A i \in batch[r] : Smallest(batch[r], i) => i \in sent

SendInv == TypeOK /\ RowsOnly /\ SentFirst /\ DeliveredWasSent

\* What marking does to the set of ids, and which rows are delivered after it.
LEMMA MarkedRows ==
  ASSUME NEW i, rows \subseteq Rows
  PROVE  /\ Ids(Marked(i)) = Ids(rows)
         /\ \A x \in Marked(i) : x.delivered =>
              x.id = i \/ (\E y \in rows : y.delivered /\ y.id = x.id)
         /\ \A x \in Marked(i) : x.delivered \/ x \in rows
         /\ \A y \in rows : y.delivered \/ y.id = i
              => \E x \in Marked(i) : x.delivered /\ x.id = y.id
<1> DEFINE M(y) == IF y.id = i THEN [y EXCEPT !.delivered = TRUE] ELSE y
<1>1. \A y \in rows : /\ M(y).id = y.id
                      /\ M(y).delivered <=> (y.id = i \/ y.delivered)
                      /\ M(y).delivered \/ M(y) = y
  <2> SUFFICES ASSUME NEW y \in rows
               PROVE  /\ M(y).id = y.id
                      /\ M(y).delivered <=> (y.id = i \/ y.delivered)
                      /\ M(y).delivered \/ M(y) = y
    OBVIOUS
  <2>1. y \in Rows
    OBVIOUS
  <2> QED
    BY <2>1 DEF Rows
<1>2. Marked(i) = {M(y) : y \in rows}
  BY DEF Marked
<1> HIDE DEF M
<1> QED
  BY <1>1, <1>2 DEF Ids

LEMMA SendInvInit == Init => SendInv
  BY InitType DEF Init, SendInv, RowsOnly, SentFirst, DeliveredWasSent, Ids

\* Staging leaves the relays alone and adds at most one row, not delivered.
Adds ==
  /\ UNCHANGED <<phase, batch, sent>>
  /\ rows' = rows \/ \E x \in Rows : rows' = rows \cup {x} /\ ~x.delivered
  /\ \A s \in Stager : staging'[s] # NoRow => ~staging'[s].delivered

LEMMA StagingAdds ==
  ASSUME TypeOK, RowsOnly, NEW s \in Stager, Staging(s)
  PROVE  Adds
<1> USE DEF TypeOK, RowsOnly, Adds
<1>1. ASSUME NEW m \in Msg, StageNow(s, m)
      PROVE  Adds
  <2>1. NewRow(nextId + 1, m) \in Rows /\ ~NewRow(nextId + 1, m).delivered
    BY <1>1, OutboxConstants DEF StageNow, NewRow, Rows, Id
  <2> QED
    BY <1>1, <2>1 DEF StageNow
<1>2. ASSUME NEW m \in Msg, DrawId(s, m)
      PROVE  Adds
  BY <1>2 DEF DrawId, NewRow
<1>3. CASE CommitRow(s)
  BY <1>3 DEF CommitRow
<1>4. CASE AbortRow(s)
  BY <1>4 DEF AbortRow
<1> QED
  BY <1>1, <1>2, <1>3, <1>4 DEF Staging

LEMMA SendInvStaging ==
  ASSUME SendInv, NEW s \in Stager, Staging(s)
  PROVE  SendInv'
<1>1. TypeOK' /\ Adds
  BY StagingType, StagingAdds DEF SendInv
<1>2. \A x \in rows' : x \in rows \/ ~x.delivered
  BY <1>1 DEF Adds
<1>3. rows \subseteq rows'
  BY <1>1 DEF Adds
<1>4. Ids(rows) \subseteq Ids(rows')
  BY <1>3 DEF Ids
<1> QED
  BY <1>1, <1>2, <1>4 DEF Adds, SendInv, RowsOnly, SentFirst, DeliveredWasSent, Smallest

LEMMA SendInvRelaying ==
  ASSUME SendInv, NEW r \in Relay, Relaying(r)
  PROVE  SendInv'
<1> USE DEF SendInv, RowsOnly, SentFirst, DeliveredWasSent
<1>0. TypeOK /\ TypeOK' /\ rows \subseteq Rows
  BY RelayingType DEF TypeOK
<1>1. CASE Fetch(r)
  <2>1. PICK B \in (SUBSET Ids(rows)) \ {{}} : batch' = [batch EXCEPT ![r] = B]
    BY <1>1 DEF Fetch
  <2> QED
    BY <1>0, <1>1, <2>1 DEF Fetch, TypeOK, Smallest
<1>2. CASE Publish(r)
  <2>1. PICK i \in batch[r] : Smallest(batch[r], i) /\ sent' = sent \cup {i}
    BY <1>2 DEF Publish
  <2>2. \A j \in batch[r] : Smallest(batch[r], j) => j = i
    BY <1>0, <2>1, OutboxConstants DEF Smallest, TypeOK, Id
  <2> QED
    BY <1>0, <1>2, <2>1, <2>2 DEF Publish, TypeOK, Smallest
<1>3. ASSUME EndPass(r), Ids(rows') = Ids(rows), UNCHANGED <<staging>>,
             sent \subseteq sent', sent' \subseteq Ids(rows),
             \A x \in rows' : x.delivered => x.id \in sent'
      PROVE  SendInv'
  BY <1>0, <1>3 DEF EndPass, TypeOK, Smallest
<1>4. CASE PublishError(r)
  <2>1. sent \subseteq sent' /\ sent' \subseteq Ids(rows)
    BY <1>4 DEF PublishError, Smallest
  <2> QED
    BY <1>3, <1>4, <2>1 DEF PublishError
<1>5. ASSUME NEW i \in batch[r], Smallest(batch[r], i), phase[r] = "mark",
             rows' = Marked(i), UNCHANGED <<sent, staging>>
      PROVE  /\ Ids(rows') = Ids(rows) /\ sent' \subseteq Ids(rows)
             /\ \A x \in rows' : x.delivered => x.id \in sent'
  BY <1>0, <1>5, MarkedRows
<1>6. CASE Mark(r)
  <2>1. PICK i \in batch[r] :
          /\ Smallest(batch[r], i) /\ rows' = Marked(i)
          /\ IF batch[r] = {i}
               THEN EndPass(r)
               ELSE /\ batch' = [batch EXCEPT ![r] = @ \ {i}]
                    /\ phase' = [phase EXCEPT ![r] = "publish"]
    BY <1>6 DEF Mark
  <2>2. /\ Ids(rows') = Ids(rows) /\ sent' \subseteq Ids(rows)
        /\ \A x \in rows' : x.delivered => x.id \in sent'
    BY <1>5, <1>6, <2>1 DEF Mark
  <2>3. CASE batch[r] = {i}
    BY <1>3, <1>6, <2>1, <2>2, <2>3 DEF Mark
  <2>4. CASE batch[r] # {i}
    BY <1>0, <1>6, <2>1, <2>2, <2>4 DEF Mark, TypeOK, Smallest
  <2> QED
    BY <2>3, <2>4
<1>7. CASE MarkError(r)
  <2>1. PICK i \in batch[r] : Smallest(batch[r], i) /\ rows' \in {rows, Marked(i)}
    BY <1>7 DEF MarkError
  <2>2. CASE rows' = rows
    BY <1>3, <1>7, <2>2 DEF MarkError
  <2>3. CASE rows' = Marked(i)
    BY <1>3, <1>5, <1>7, <2>1, <2>3 DEF MarkError
  <2> QED
    BY <2>1, <2>2, <2>3
<1>8. CASE RelayCrash(r)
  BY <1>3, <1>8 DEF RelayCrash
<1> QED
  BY <1>1, <1>2, <1>4, <1>6, <1>7, <1>8 DEF Relaying

LEMMA SendInvNext == SendInv /\ [Next]_outboxVars => SendInv'
<1>1. SendInv /\ UNCHANGED outboxVars => SendInv'
  BY DEF SendInv, TypeOK, RowsOnly, SentFirst, DeliveredWasSent, Smallest, outboxVars
<1> QED
  BY <1>1, SendInvStaging, SendInvRelaying DEF Next

\* At least once: a row is marked delivered only after the bus has taken it,
\* whichever calls failed and whichever relays died on the way (run_once).
THEOREM MarkedWasSent == Spec => []DeliveredWasSent
<1>1. SendInv => DeliveredWasSent
  BY DEF SendInv
<1> QED
  BY <1>1, SendInvInit, SendInvNext, PTL DEF Spec

-----------------------------------------------------------------------------
(* When rows become visible as their ids are drawn, the outbox is an       *)
(* at-least-once channel whose first deliveries keep the order.            *)

\* A pass leaves out no row that it would have to send first.
BatchLow ==
  \A r \in Relay : \A i \in batch[r], j \in Ids(rows) :
    j < i => j \in batch[r] \/ j \in sent

InOrder == \A i \in sent, j \in Ids(rows) : j < i => j \in sent

OrderInv ==
  /\ SendInv
  /\ \A s \in Stager : staging[s] = NoRow
  /\ \A i \in Ids(rows) : i <= nextId
  /\ BatchLow /\ InOrder

LEMMA IdsAdd == ASSUME NEW S, NEW x PROVE Ids(S \cup {x}) = Ids(S) \cup {x.id}
  BY DEF Ids

LEMMA OrderStaging ==
  ASSUME OrderInv, InMemory, NEW s \in Stager, Staging(s)
  PROVE  OrderInv' /\ \E i \in Id : Channel!Accept(i)
<1>0. PICK m \in Msg : StageNow(s, m)
  BY DEF Staging, DrawId, CommitRow, AbortRow, OrderInv
<1>1. SendInv' /\ TypeOK
  BY SendInvStaging DEF OrderInv, SendInv
<1>2. nextId \in Nat /\ nextId + 1 \in Id /\ sent \subseteq Ids(rows)
  BY <1>0, <1>1, OutboxConstants DEF StageNow, TypeOK, Id, OrderInv, SendInv, RowsOnly
<1>3. Ids(rows') = Ids(rows) \cup {nextId + 1}
  <2>1. NewRow(nextId + 1, m).id = nextId + 1
    BY DEF NewRow
  <2>2. rows' = rows \cup {NewRow(nextId + 1, m)}
    BY <1>0 DEF StageNow
  <2> QED
    BY <2>1, <2>2, IdsAdd
<1>4. Ids(rows') \subseteq Nat /\ Ids(rows) \subseteq Nat
  <2>1. rows \subseteq Rows
    BY <1>1 DEF TypeOK
  <2>2. \A x \in rows : x.id \in Nat
    BY <2>1, OutboxConstants DEF Rows, Id
  <2>3. Ids(rows) \subseteq Nat
    BY <2>2 DEF Ids
  <2> QED
    BY <1>2, <1>3, <2>3
<1>5. \A r \in Relay : batch[r] \subseteq Ids(rows)
  BY DEF OrderInv, SendInv, RowsOnly
<1>6. OrderInv'
  <2>1. nextId' = nextId + 1 /\ UNCHANGED <<staging, batch, sent>>
    BY <1>0 DEF StageNow
  <2>2. \A i \in Ids(rows) : i <= nextId /\ i < nextId + 1
    BY <1>2, <1>4 DEF OrderInv
  <2>3. BatchLow'
    <3> SUFFICES ASSUME NEW r \in Relay, NEW i \in batch[r], NEW j \in Ids(rows'), j < i
                 PROVE  j \in batch[r] \/ j \in sent
      BY <2>1 DEF BatchLow
    <3>1. i \in Ids(rows) /\ i \in Nat /\ j \in Nat
      BY <1>4, <1>5
    <3>2. j \in Ids(rows)
      BY <1>2, <1>3, <2>2, <3>1
    <3> QED
      BY <3>1, <3>2 DEF OrderInv, BatchLow
  <2>4. InOrder'
    <3> SUFFICES ASSUME NEW i \in sent, NEW j \in Ids(rows'), j < i
                 PROVE  j \in sent
      BY <2>1 DEF InOrder
    <3>1. i \in Ids(rows) /\ i \in Nat /\ j \in Nat
      BY <1>2, <1>4
    <3>2. j \in Ids(rows)
      BY <1>2, <1>3, <2>2, <3>1
    <3> QED
      BY <3>1, <3>2 DEF OrderInv, InOrder
  <2>5. \A i \in Ids(rows') : i <= nextId + 1
    BY <1>2, <1>3, <1>4, <2>2
  <2> QED
    BY <1>1, <2>1, <2>3, <2>4, <2>5 DEF OrderInv
<1>7. Channel!Accept(nextId + 1)
  <2>1. Ids(rows' \ Pending') = Ids(rows \ Pending)
    BY <1>0 DEF StageNow, NewRow, Ids, Pending
  <2>2. UNCHANGED sent /\ nextId + 1 \notin Ids(rows)
    BY <1>0, <1>2, <1>4 DEF StageNow, OrderInv
  <2>3. \A j \in sent : j < nextId + 1
    BY <1>2, <1>4 DEF OrderInv
  <2> QED
    BY <1>3, <2>1, <2>2, <2>3 DEF Channel!Accept
<1> QED
  BY <1>2, <1>6, <1>7

\* A step that publishes the smallest row of a batch.
LEMMA OrderSend ==
  ASSUME OrderInv, SendInv', NEW r \in Relay, NEW i \in batch[r],
         Smallest(batch[r], i), sent' = sent \cup {i},
         UNCHANGED <<rows, nextId, staging>>,
         \A q \in Relay : batch'[q] \subseteq batch[q],
         \A q \in Relay : q # r => batch'[q] = batch[q],
         batch'[r] \in {{}, batch[r]}
  PROVE  OrderInv' /\ \E j \in Id : Channel!Send(j)
<1>1. TypeOK /\ batch[r] \subseteq Ids(rows) /\ batch[r] \subseteq Id
  BY DEF OrderInv, SendInv, RowsOnly, TypeOK
<1>2. Ids(rows) \subseteq Nat /\ Id \subseteq Nat /\ Ids(rows') = Ids(rows)
  BY <1>1, OutboxConstants DEF TypeOK, Ids, Rows, Id
<1>3. \A j \in Ids(rows) : j < i => j \in sent
  BY <1>1, <1>2 DEF OrderInv, BatchLow, Smallest
<1>4. OrderInv'
  BY <1>1, <1>2, <1>3 DEF OrderInv, BatchLow, InOrder
<1>5. Channel!Send(i)
  BY <1>1, <1>2, <1>3 DEF Channel!Send, Pending
<1> QED
  BY <1>1, <1>4, <1>5

\* A step that marks a row that was sent, and goes on or ends the pass.
LEMMA OrderMark ==
  ASSUME OrderInv, SendInv', NEW r \in Relay, NEW i \in batch[r], i \in sent,
         rows' = Marked(i), UNCHANGED <<sent, nextId, staging>>,
         \A q \in Relay : q # r => batch'[q] = batch[q],
         batch'[r] \in {{}, batch[r] \ {i}}
  PROVE  OrderInv' /\ \E j \in Id : Channel!Settle(j)
<1>1. TypeOK /\ i \in Ids(rows) /\ i \in Id
  BY DEF OrderInv, SendInv, RowsOnly, TypeOK
<1>2. rows \subseteq Rows /\ Ids(rows') = Ids(rows)
  BY <1>1, MarkedRows DEF TypeOK
<1>3. OrderInv'
  BY <1>2 DEF OrderInv, BatchLow, InOrder
<1>4. Ids(rows' \ Pending') = Ids(rows \ Pending) \cup {i}
  <2>1. \A x \in rows' : x.delivered =>
          x.id = i \/ (\E y \in rows : y.delivered /\ y.id = x.id)
    BY <1>2, MarkedRows
  <2>2. \A y \in rows : y.delivered \/ y.id = i
          => \E x \in rows' : x.delivered /\ x.id = y.id
    BY <1>2, MarkedRows
  <2>3. \A j : j \in Ids(rows \ Pending) <=> \E y \in rows : y.delivered /\ y.id = j
    BY DEF Ids, Pending
  <2>4. \A j : j \in Ids(rows' \ Pending') <=> \E x \in rows' : x.delivered /\ x.id = j
    BY DEF Ids, Pending
  <2>5. \E y \in rows : y.id = i
    BY <1>1 DEF Ids
  <2>6. ASSUME NEW j, j \in Ids(rows' \ Pending')
        PROVE  j \in Ids(rows \ Pending) \cup {i}
    <3>1. PICK x \in rows' : x.delivered /\ x.id = j
      BY <2>4, <2>6
    <3>2. CASE x.id = i
      BY <3>1, <3>2
    <3>3. CASE \E y \in rows : y.delivered /\ y.id = x.id
      BY <2>3, <3>1, <3>3
    <3> QED
      BY <2>1, <3>1, <3>2, <3>3
  <2>7. ASSUME NEW j, j \in Ids(rows \ Pending) \cup {i}
        PROVE  j \in Ids(rows' \ Pending')
    <3>1. CASE j \in Ids(rows \ Pending)
      <4>1. PICK y \in rows : y.delivered /\ y.id = j
        BY <2>3, <3>1
      <4> QED
        BY <2>2, <2>4, <4>1
    <3>2. CASE j = i
      <4>1. PICK y \in rows : y.id = i
        BY <2>5
      <4>2. PICK x \in rows' : x.delivered /\ x.id = i
        BY <2>2, <4>1
      <4> QED
        BY <2>4, <3>2, <4>2
    <3> QED
      BY <2>7, <3>1, <3>2
  <2> QED
    BY <2>6, <2>7
<1> QED
  BY <1>1, <1>2, <1>3, <1>4 DEF Channel!Settle

\* A step that sends and marks nothing.
LEMMA OrderQuiet ==
  ASSUME OrderInv, SendInv', UNCHANGED <<rows, sent, nextId, staging>>, BatchLow'
  PROVE  OrderInv' /\ UNCHANGED Channel!alo
  BY DEF OrderInv, InOrder, Channel!alo, Pending

LEMMA OrderRelaying ==
  ASSUME OrderInv, NEW r \in Relay, Relaying(r)
  PROVE  OrderInv' /\ [Channel!Next]_(Channel!alo)
<1> USE DEF Channel!Next
<1>0. SendInv /\ SendInv' /\ TypeOK
  BY SendInvRelaying DEF OrderInv, SendInv
<1>1. ASSUME EndPass(r)
      PROVE  /\ \A q \in Relay : q # r => batch'[q] = batch[q]
             /\ batch'[r] = {}
  BY <1>0, <1>1 DEF EndPass, TypeOK
<1>2. CASE Fetch(r)
  <2>1. PICK B : Fetched(B) /\ batch' = [batch EXCEPT ![r] = B]
    BY <1>2 DEF Fetch
  <2>2. \A i \in B, j \in Ids(rows) : j < i => j \in B \/ j \in sent
    <3> SUFFICES ASSUME NEW i \in B, NEW x \in rows, x.id < i, x.id \notin B
                 PROVE  x.id \in sent
      BY DEF Ids
    <3>1. i \in Nat /\ x.id \in Nat
      BY <1>0, <2>1, OutboxConstants DEF Fetched, Ids, Pending, TypeOK, Rows, Id
    <3>2. x \notin Pending
      BY <2>1, <3>1 DEF Fetched, Ids
    <3> QED
      BY <1>0, <3>2 DEF Pending, SendInv, DeliveredWasSent
  <2>3. BatchLow'
    BY <1>0, <1>2, <2>1, <2>2 DEF Fetch, BatchLow, OrderInv, TypeOK
  <2> QED
    BY <1>0, <1>2, <2>3, OrderQuiet DEF Fetch
<1>3. CASE Publish(r)
  <2>1. PICK i \in batch[r] : Smallest(batch[r], i) /\ sent' = sent \cup {i}
    BY <1>3 DEF Publish
  <2> QED
    BY <1>0, <1>3, <2>1, OrderSend DEF Publish
<1>4. CASE PublishError(r)
  <2>1. PICK i \in batch[r] : Smallest(batch[r], i) /\ sent' \in {sent, sent \cup {i}}
    BY <1>4 DEF PublishError
  <2>2. CASE sent' = sent \cup {i}
    BY <1>0, <1>1, <1>4, <2>1, <2>2, OrderSend DEF PublishError
  <2>3. CASE sent' = sent
    <3>1. BatchLow'
      BY <1>1, <1>4, <2>3 DEF PublishError, BatchLow, OrderInv
    <3> QED
      BY <1>0, <1>4, <2>3, <3>1, OrderQuiet DEF PublishError
  <2> QED
    BY <2>1, <2>2, <2>3
<1>5. ASSUME phase[r] = "mark", NEW i \in batch[r], Smallest(batch[r], i)
      PROVE  i \in sent
  BY <1>0, <1>5 DEF SendInv, SentFirst
<1>6. CASE Mark(r)
  <2>1. PICK i \in batch[r] :
          /\ Smallest(batch[r], i) /\ rows' = Marked(i)
          /\ IF batch[r] = {i}
               THEN EndPass(r)
               ELSE /\ batch' = [batch EXCEPT ![r] = @ \ {i}]
                    /\ phase' = [phase EXCEPT ![r] = "publish"]
    BY <1>6 DEF Mark
  <2>2. i \in sent
    BY <1>5, <1>6, <2>1 DEF Mark
  <2>3. /\ \A q \in Relay : q # r => batch'[q] = batch[q]
        /\ batch'[r] \in {{}, batch[r] \ {i}}
    BY <1>0, <1>1, <2>1 DEF TypeOK
  <2> QED
    BY <1>0, <1>6, <2>1, <2>2, <2>3, OrderMark DEF Mark
<1>7. CASE MarkError(r)
  <2>1. PICK i \in batch[r] : Smallest(batch[r], i) /\ rows' \in {rows, Marked(i)}
    BY <1>7 DEF MarkError
  <2>2. i \in sent
    BY <1>5, <1>7, <2>1 DEF MarkError
  <2>3. CASE rows' = Marked(i)
    BY <1>0, <1>1, <1>7, <2>1, <2>2, <2>3, OrderMark DEF MarkError
  <2>4. CASE rows' = rows
    <3>1. BatchLow'
      BY <1>1, <1>7, <2>4 DEF MarkError, BatchLow, OrderInv
    <3> QED
      BY <1>0, <1>7, <2>4, <3>1, OrderQuiet DEF MarkError
  <2> QED
    BY <2>1, <2>3, <2>4
<1>8. CASE RelayCrash(r)
  <2>1. BatchLow'
    BY <1>1, <1>8 DEF RelayCrash, BatchLow, OrderInv
  <2> QED
    BY <1>0, <1>8, <2>1, OrderQuiet DEF RelayCrash
<1> QED
  BY <1>2, <1>3, <1>4, <1>6, <1>7, <1>8 DEF Relaying

LEMMA OrderInit == Init => OrderInv /\ Channel!Init
  BY SendInvInit, OutboxConstants
  DEF Init, OrderInv, BatchLow, InOrder, Ids, Pending, Channel!Init

LEMMA OrderNext ==
  ASSUME InMemory
  PROVE  OrderInv /\ [Next]_outboxVars => OrderInv' /\ [Channel!Next]_(Channel!alo)
<1>1. OrderInv /\ UNCHANGED outboxVars => OrderInv' /\ UNCHANGED Channel!alo
  <2> SUFFICES ASSUME OrderInv, UNCHANGED outboxVars
               PROVE  OrderInv' /\ UNCHANGED Channel!alo
    OBVIOUS
  <2>1. SendInv' /\ BatchLow'
    BY SendInvNext DEF outboxVars, OrderInv, BatchLow
  <2> QED
    BY <2>1, OrderQuiet DEF outboxVars
<1> QED
  BY <1>1, OrderStaging, OrderRelaying DEF Next, Channel!Next

\* With the in-memory outbox, messages reach the bus for the first time in
\* the order of their ids, however many relays run and whatever fails.
THEOREM FirstSendsKeepOrder == ASSUME InMemory PROVE Spec => []FirstSendInOrder
<1>1. OrderInv => FirstSendInOrder
  BY DEF OrderInv, InOrder, FirstSendInOrder, Ids
<1>2. OrderInv /\ [Next]_outboxVars => OrderInv'
  BY OrderNext
<1> QED
  BY <1>1, <1>2, OrderInit, PTL DEF Spec

\* With the in-memory outbox, staging, passes, failures and relay deaths are
\* steps of an ordered at-least-once channel, or leave it alone.
THEOREM OutboxIsChannel == ASSUME InMemory PROVE Spec => ChannelRefinement
<1>1. OrderInv /\ [Next]_outboxVars => OrderInv' /\ [Channel!Next]_(Channel!alo)
  BY OrderNext
<1> QED
  BY <1>1, OrderInit, PTL DEF Spec, ChannelRefinement, Channel!Spec

-----------------------------------------------------------------------------
(* With one relay nothing is published again once it is marked.  Two       *)
(* relays may well do that: each fetches before the other marks.           *)

\* An id names one row, seen or still to be seen.
IdsName ==
  /\ \A x, y \in rows : x.id = y.id => x = y
  /\ \A x \in rows : x.id <= nextId
  /\ \A s \in Stager : staging[s] # NoRow =>
       /\ staging[s].id <= nextId /\ staging[s].id \notin Ids(rows)
       /\ \A t \in Stager : staging[t] # NoRow /\ staging[t].id = staging[s].id => t = s

\* What is left of a pass is still pending.
BatchPending == \A r \in Relay, x \in rows : x.id \in batch[r] => ~x.delivered

ResendInv == SendInv /\ IdsName /\ BatchPending

LEMMA ResendStaging ==
  ASSUME ResendInv, SendInv', NEW s \in Stager, Staging(s)
  PROVE  ResendInv'
<1>0. TypeOK /\ nextId \in Nat /\ \A x \in rows : x.id \in Nat
  BY OutboxConstants DEF ResendInv, SendInv, TypeOK, Rows, Id
<1>1. ASSUME NEW m \in Msg, StageNow(s, m)
      PROVE  ResendInv'
  <2> DEFINE new == NewRow(nextId + 1, m)
  <2>1. new.id = nextId + 1 /\ ~new.delivered /\ new # NoRow
    BY <1>0 DEF NewRow, NoRow
  <2> HIDE DEF new
  <2>2. /\ rows' = rows \cup {new} /\ nextId' = nextId + 1 /\ UNCHANGED <<staging, batch>>
        /\ \A x \in rows : x.id # nextId + 1
        /\ \A t \in Stager : staging[t] # NoRow => staging[t].id # nextId + 1 /\ staging[t].id \in Nat
    BY <1>0, <1>1, OutboxConstants DEF StageNow, new, ResendInv, IdsName, TypeOK, Rows, Id
  <2>3. IdsName'
    BY <1>0, <2>1, <2>2, IdsAdd DEF ResendInv, IdsName
  <2>4. BatchPending'
    BY <2>1, <2>2 DEF ResendInv, BatchPending
  <2> QED
    BY <2>3, <2>4 DEF ResendInv
<1>2. ASSUME NEW m \in Msg, DrawId(s, m)
      PROVE  ResendInv'
  <2> DEFINE new == NewRow(nextId + 1, m)
  <2>1. new.id = nextId + 1 /\ ~new.delivered /\ new # NoRow
    BY <1>0 DEF NewRow, NoRow
  <2> HIDE DEF new
  <2>2. /\ staging' = [staging EXCEPT ![s] = new] /\ nextId' = nextId + 1 /\ UNCHANGED <<rows, batch>>
        /\ \A x \in rows : x.id # nextId + 1
        /\ \A t \in Stager : staging[t] # NoRow => staging[t].id # nextId + 1 /\ staging[t].id \in Nat
    BY <1>0, <1>2, OutboxConstants DEF DrawId, new, ResendInv, IdsName, TypeOK, Rows, Id
  <2>3. IdsName'
    BY <1>0, <2>1, <2>2 DEF ResendInv, IdsName, Ids, TypeOK
  <2>4. BatchPending'
    BY <2>2 DEF ResendInv, BatchPending
  <2> QED
    BY <2>3, <2>4 DEF ResendInv
<1>3. CASE CommitRow(s)
  <2>1. /\ rows' = rows \cup {staging[s]} /\ staging' = [staging EXCEPT ![s] = NoRow]
        /\ UNCHANGED <<nextId, batch>> /\ staging[s] # NoRow /\ ~staging[s].delivered
        /\ staging[s].id \notin Ids(rows)
    BY <1>3 DEF CommitRow, ResendInv, SendInv, RowsOnly, IdsName
  <2>2. IdsName'
    BY <1>0, <2>1, IdsAdd DEF ResendInv, IdsName, Ids, TypeOK
  <2>3. BatchPending'
    BY <2>1 DEF ResendInv, BatchPending
  <2> QED
    BY <2>2, <2>3 DEF ResendInv
<1>4. CASE AbortRow(s)
  BY <1>0, <1>4 DEF AbortRow, ResendInv, IdsName, BatchPending, Ids, TypeOK
<1> QED
  BY <1>1, <1>2, <1>3, <1>4 DEF Staging

\* Marking a row leaves the others as they are.
LEMMA MarkedOne ==
  ASSUME NEW i, rows \subseteq Rows, NEW x \in Marked(i)
  PROVE  \E y \in rows : /\ y.id = x.id
                         /\ (x.id # i => x = y)
                         /\ (x.id = i => x = [y EXCEPT !.delivered = TRUE])
<1>1. PICK y \in rows : x = IF y.id = i THEN [y EXCEPT !.delivered = TRUE] ELSE y
  BY DEF Marked
<1>2. y \in Rows
  OBVIOUS
<1>3. x.id = y.id
  BY <1>1, <1>2 DEF Rows
<1> QED
  BY <1>1, <1>3

LEMMA ResendRelaying ==
  ASSUME ResendInv, SendInv', NEW r \in Relay, Relaying(r), \A q \in Relay : q = r
  PROVE  ResendInv'
<1>0. /\ TypeOK /\ rows \subseteq Rows /\ UNCHANGED <<nextId, staging>>
  BY DEF ResendInv, SendInv, TypeOK, Relaying, Fetch, Publish, PublishError, Mark, MarkError, RelayCrash
<1>1. ASSUME EndPass(r) PROVE \A q \in Relay : batch'[q] = {}
  BY <1>0, <1>1 DEF EndPass, TypeOK
<1>2. ASSUME rows' = rows PROVE IdsName'
  BY <1>0, <1>2 DEF ResendInv, IdsName, Ids
<1>3. ASSUME NEW i, rows' = Marked(i) PROVE IdsName'
  <2>1. Ids(rows') = Ids(rows)
    BY <1>0, <1>3, MarkedRows
  <2>2. ASSUME NEW x \in rows'
        PROVE  \E y \in rows : /\ y.id = x.id
                              /\ (x.id # i => x = y)
                              /\ (x.id = i => x = [y EXCEPT !.delivered = TRUE])
    BY <1>0, <1>3, MarkedOne
  <2>3. ASSUME NEW x \in rows', NEW y \in rows', x.id = y.id PROVE x = y
    <3>1. PICK u \in rows : /\ u.id = x.id /\ (x.id # i => x = u)
                           /\ (x.id = i => x = [u EXCEPT !.delivered = TRUE])
      BY <2>2
    <3>2. PICK v \in rows : /\ v.id = y.id /\ (y.id # i => y = v)
                           /\ (y.id = i => y = [v EXCEPT !.delivered = TRUE])
      BY <2>2
    <3>3. u = v
      BY <2>3, <3>1, <3>2 DEF ResendInv, IdsName
    <3> QED
      BY <2>3, <3>1, <3>2, <3>3
  <2>4. ASSUME NEW x \in rows' PROVE x.id <= nextId
    <3>1. PICK u \in rows : u.id = x.id
      BY <2>2
    <3> QED
      BY <3>1 DEF ResendInv, IdsName
  <2> QED
    BY <1>0, <2>1, <2>3, <2>4 DEF ResendInv, IdsName
<1>4. CASE Fetch(r)
  <2>1. PICK B : B \subseteq Ids(Pending) /\ batch' = [batch EXCEPT ![r] = B]
    BY <1>4 DEF Fetch, Fetched
  <2>2. rows' = rows
    BY <1>4 DEF Fetch
  <2>3. \A x \in rows : x.id \in B => ~x.delivered
    BY <2>1 DEF Ids, Pending, ResendInv, IdsName
  <2>4. BatchPending'
    BY <1>0, <2>1, <2>2, <2>3 DEF BatchPending, TypeOK
  <2> QED
    BY <1>2, <2>2, <2>4 DEF ResendInv
<1>5. CASE Publish(r)
  BY <1>2, <1>5 DEF Publish, ResendInv, BatchPending
<1>6. CASE PublishError(r) \/ RelayCrash(r)
  BY <1>1, <1>2, <1>6 DEF PublishError, RelayCrash, ResendInv, BatchPending
<1>7. CASE Mark(r)
  <2>1. PICK i \in batch[r] :
          /\ rows' = Marked(i)
          /\ (EndPass(r) \/ batch' = [batch EXCEPT ![r] = @ \ {i}])
    BY <1>7 DEF Mark
  <2>2. \A q \in Relay : batch'[q] \subseteq batch[q] \ {i}
    BY <1>0, <1>1, <2>1 DEF TypeOK
  <2>3. ASSUME NEW x \in rows', x.id # i PROVE x \in rows
    <3>1. PICK u \in rows : u.id = x.id /\ (x.id # i => x = u)
      BY <1>0, <2>1, MarkedOne
    <3> QED
      BY <2>3, <3>1
  <2>4. ASSUME NEW q \in Relay, NEW x \in rows', x.id \in batch'[q] PROVE ~x.delivered
    BY <2>2, <2>3, <2>4 DEF ResendInv, BatchPending
  <2>5. BatchPending'
    BY <2>4 DEF BatchPending
  <2>6. IdsName'
    BY <1>3, <2>1
  <2> QED
    BY <2>5, <2>6 DEF ResendInv
<1>8. CASE MarkError(r)
  BY <1>1, <1>2, <1>3, <1>8 DEF MarkError, ResendInv, BatchPending
<1> QED
  BY <1>4, <1>5, <1>6, <1>7, <1>8 DEF Relaying

\* One relay, which fetches again only when its pass is over, publishes no row that
\* it has marked, whatever it fails at and however often it dies (run_once).
THEOREM OneRelayNeverResends ==
  ASSUME \A q, r \in Relay : q = r
  PROVE  Spec => NoResend
<1>1. Init => ResendInv
  BY SendInvInit DEF Init, ResendInv, IdsName, BatchPending
<1>2. ResendInv /\ [Next]_outboxVars => ResendInv'
  <2> SUFFICES ASSUME ResendInv, [Next]_outboxVars PROVE ResendInv'
    OBVIOUS
  <2>1. SendInv'
    BY SendInvNext DEF ResendInv
  <2>2. CASE UNCHANGED outboxVars
    BY <2>1, <2>2 DEF outboxVars, ResendInv, IdsName, BatchPending, Ids
  <2>3. ASSUME NEW r \in Relay, Relaying(r) PROVE ResendInv'
    BY <2>1, <2>3, ResendRelaying
  <2> QED
    BY <2>1, <2>2, <2>3, ResendStaging DEF Next
<1>3. ResendInv /\ [Next]_outboxVars =>
        [\A r \in Relay, x \in rows :
           (Publish(r) /\ Smallest(batch[r], x.id)) => ~x.delivered]_outboxVars
  BY DEF ResendInv, BatchPending, Smallest
<1> QED
  BY <1>1, <1>2, <1>3, PTL DEF Spec, NoResend

=============================================================================
