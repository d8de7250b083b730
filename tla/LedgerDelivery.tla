--------------------------- MODULE LedgerDelivery ---------------------------
(***************************************************************************)
(* The event store with an outbox attached (PostgresEventStore::           *)
(* with_outbox): append_async() stages the event after its mirror write,   *)
(* and relays deliver what is staged.  Store and outbox are two tables of  *)
(* one database, written by two statements.                                *)
(***************************************************************************)
EXTENDS DurableStore

CONSTANTS Relay, Limit, MaxId, BusFails

VARIABLES rows, nextId, staging, phase, batch, sent

\* The stagers are the stores' processes, the messages their events.
OB == INSTANCE Outbox WITH Stager <- Node, Msg <- Ev, Poison <- {},
        InMemory <- FALSE, StoreFails <- DbFails, RelayCrashes <- FALSE

outbox == <<rows, nextId, staging, phase, batch, sent>>
deliveryVars == <<storeVars, outbox>>

DInit == Init /\ OB!Init

-----------------------------------------------------------------------------
\* variant: the event is staged while its mirror write is under way
StageBegins_early(n) ==
  /\ pc[n] \in {"mirror", "stage"} /\ OB!DrawId(n, cur[n].ev)
  /\ UNCHANGED storeVars

\* append_async() calls stage() for the event it has just stored.
StageBegins(n) ==
  /\ At(n, "stage") /\ OB!DrawId(n, cur[n].ev)
  /\ UNCHANGED storeVars

\* variant: append_async() does not wait for stage()
StageEnds_detached(n) ==
  \/ At(n, "stage") /\ staging[n] = OB!NoRow /\ Staged(n) /\ UNCHANGED outbox
  \/ OB!CommitRow(n) /\ Staged(n)

\* stage() answers; its error is logged, and the append returns all the same.
StageEnds(n) == (OB!CommitRow(n) \/ OB!AbortRow(n)) /\ Staged(n)

\* The process dies; an INSERT under way commits or not.
CrashWhileStaging(n) ==
  /\ staging[n] # OB!NoRow
  /\ rows' \in {rows, rows \cup {staging[n]}}
  /\ staging' = [staging EXCEPT ![n] = OB!NoRow]
  /\ UNCHANGED <<nextId, phase, batch, sent>>

StoreOrCrash(n) ==
  \/ Crash(n) /\ (CrashWhileStaging(n) \/ (staging[n] = OB!NoRow /\ UNCHANGED outbox))
  \/ StoreStep(n) /\ ~Crash(n) /\ UNCHANGED outbox

DNext ==
  \/ \E n \in Node : StoreOrCrash(n) \/ StageBegins(n) \/ StageEnds(n)
  \/ \E r \in Relay : OB!Relaying(r) /\ UNCHANGED storeVars

DSpec == DInit /\ [][DNext]_deliveryVars

\* Append calls go on once they have begun, a process that is down is started
\* again, the relay runs, and an outage of the bus ends.
DFairSpec ==
  /\ DSpec
  /\ \A n \in Node : /\ WF_deliveryVars(Start(n) /\ UNCHANGED outbox)
                     /\ WF_deliveryVars((MirrorOk(n) \/ MirrorError(n)) /\ UNCHANGED outbox)
                     /\ WF_deliveryVars(StageBegins(n)) /\ WF_deliveryVars(StageEnds(n))
  /\ \A r \in Relay : /\ WF_deliveryVars(OB!Fetch(r) /\ UNCHANGED storeVars)
                      /\ SF_deliveryVars(OB!Publish(r) /\ UNCHANGED storeVars)
                      /\ SF_deliveryVars(OB!Mark(r) /\ UNCHANGED storeVars)

-----------------------------------------------------------------------------
StagedEvents == {r.msg : r \in rows}

\* What the bus is told of is in the events table: while no write fails, an
\* event is staged only once its row is there, wherever a process dies
\* ("the `events` table is the source of truth", outbox.rs:10-11).
StagedIsDurable == StagedEvents \subseteq {r.ev : r \in db}

\* Between calls every event that was appended is staged ("every appended
\* event is first staged into an outbox table", outbox.rs:6-7, and
\* with_outbox, postgres_store.rs:77-78).
EveryEventStaged ==
  (\A n \in Node : At(n, "idle")) => {r.ev : r \in db} \subseteq StagedEvents

\* The same while no process has died: nothing but a crash comes between the
\* mirror write of append_async() and the answer of stage().
StagedBarCrash == crashes = 0 => EveryEventStaged

\* Every event append_async() has handed back reaches the bus and is marked,
\* with the bus failing for a while and processes that die.
ReturnedIsDelivered ==
  \A e \in Ev :
    (\E c \in Range(returned) : c.ev = e)
      ~> (\E x \in rows : x.msg = e /\ x.delivered /\ x.id \in sent)

=============================================================================
