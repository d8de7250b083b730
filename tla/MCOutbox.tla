------------------------------ MODULE MCOutbox ------------------------------
(* Both outboxes for TLC: the in-memory one, and PostgresOutbox with       *)
(* concurrent inserts (prefix Pg).  One of the two, chosen at the start,   *)
(* runs; the other stays as it begins, when no relay has anything to do.   *)
EXTENDS Outbox

CONSTANTS PgStager, PgRelay, PgMsg, PgMaxId

VARIABLES kind, pgRows, pgNextId, pgStaging, pgPhase, pgBatch, pgSent

pgVars == <<pgRows, pgNextId, pgStaging, pgPhase, pgBatch, pgSent>>

Pg == INSTANCE Outbox WITH
        Stager <- PgStager, Relay <- PgRelay, Msg <- PgMsg, Poison <- {}, MaxId <- PgMaxId,
        InMemory <- FALSE, StoreFails <- TRUE,
        rows <- pgRows, nextId <- pgNextId, staging <- pgStaging, phase <- pgPhase,
        batch <- pgBatch, sent <- pgSent

BothInit == kind \in {"memory", "postgres"} /\ Init /\ Pg!Init

BothNext ==
  /\ UNCHANGED kind
  /\ \/ kind = "memory" /\ Next /\ UNCHANGED pgVars
     \/ kind = "postgres" /\ Pg!Next /\ UNCHANGED outboxVars

BothSpec ==
  /\ BothInit /\ [][BothNext]_<<kind, outboxVars, pgVars>>
  /\ Fairness /\ Pg!Fairness

-----------------------------------------------------------------------------
\* Of a Postgres outbox every committed row is delivered some time, whatever
\* fails for a while and in whatever order the rows appear (outbox.rs:126-149).
CommittedIsDelivered == Pg!AllDelivered

\* The one relay of a Postgres outbox sends no row again that it has marked.
NoRowTwice == Pg!NoResend

=============================================================================
