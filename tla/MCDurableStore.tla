-------------------------- MODULE MCDurableStore --------------------------
(* DurableStore for TLC, twice: processes that share a table whose writes  *)
(* may fail, and one process with an outbox over a reliable database       *)
(* (prefix own).  One of the two, chosen at the start, runs.  Processes,   *)
(* clients, aggregates and events are interchangeable.                     *)
EXTENDS DurableStore, TLC

CONSTANTS OwnNode, OwnClient, OwnAgg, OwnEv

VARIABLES
  kind, ownLog, ownVersion, ownFailures, ownDb, ownPc, ownCur, ownView, ownReturned, ownUsed,
  ownCrashes

ownVars == <<ownLog, ownVersion, ownFailures, ownDb, ownPc, ownCur, ownView, ownReturned,
             ownUsed, ownCrashes>>

Own == INSTANCE DurableStore WITH
         Node <- OwnNode, Client <- OwnClient, Agg <- OwnAgg, Ev <- OwnEv,
         Ops <- AllOps, HasOutbox <- TRUE, DbFails <- FALSE, MaxLog <- 0, MaxCrash <- 2,
         log <- ownLog, version <- ownVersion, failures <- ownFailures, db <- ownDb,
         pc <- ownPc, cur <- ownCur, view <- ownView, returned <- ownReturned,
         used <- ownUsed, crashes <- ownCrashes

Symmetry == Permutations(Node) \cup Permutations(Ev) \cup Permutations(OwnClient)
            \cup Permutations(OwnAgg) \cup Permutations(OwnEv)

BothInit == kind \in {"shared", "own"} /\ Init /\ Own!Init

BothNext ==
  /\ UNCHANGED kind
  /\ \/ kind = "shared" /\ Next /\ UNCHANGED ownVars
     \/ kind = "own" /\ Own!Next /\ UNCHANGED storeVars

BothSpec == BothInit /\ [][BothNext]_<<kind, storeVars, ownVars>>

-----------------------------------------------------------------------------
\* While no write fails nothing that was answered is lost in a crash
\* (postgres_store.rs:191-229).
AnsweredSurvives == Own!ReturnedDurable

\* While no write fails, memory and table agree between calls, also after a
\* crash half way through an append (postgres_store.rs:110-131).
TableIsMirror == Own!MirrorExact

\* A versioned append only extends the stream its caller has read, over
\* crashes and hydrations in between (store.rs:77-103).
ExtendsWhatWasRead == Own!NoBlindWrite

=============================================================================
