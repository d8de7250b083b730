----------------------------- MODULE DurableBus -----------------------------
(***************************************************************************)
(* NatsBus (crates/tpt-erp-bus/src/nats_impl.rs): one JetStream stream for *)
(* everything and a durable pull consumer per subject, whose messages are  *)
(* acknowledged by the handler that processed them (Message::ack, lib.rs). *)
(* JetStream is external: it keeps what is not acknowledged and redelivers *)
(* it.  One subject is modelled.                                           *)
(***************************************************************************)
EXTENDS Integers, Sequences, FiniteSets, SequencesExt

CONSTANTS
  MaxStored,   \* messages published (bound)
  MaxCrashes   \* crashes of the consumer and failed acknowledgements (bound)

ASSUME DurableBusAssumption == MaxStored \in Nat /\ MaxCrashes \in Nat

VARIABLES
  stored,    \* JetStream: the number of messages stored
  pending,   \* JetStream: positions not yet acknowledged
  working,   \* positions the consumer holds
  handled,   \* positions whose handling completed
  crashes    \* crashes and failed acknowledgements so far

dvars == <<stored, pending, working, handled, crashes>>

DInit == stored = 0 /\ pending = {} /\ working = {} /\ handled = {} /\ crashes = 0

\* NatsBus::publish returns when JetStream has stored the message.
Store ==
  /\ stored < MaxStored
  /\ stored' = stored + 1
  /\ pending' = pending \union {stored + 1}
  /\ UNCHANGED <<working, handled, crashes>>

\* The consumer's stream yields a message, with its acknowledgement deferred.  An
\* error of the stream yields an empty message that acknowledges nothing: no
\* stored message has moved.
Fetch(i) ==
  /\ i \in pending \ working
  /\ working' = working \union {i}
  /\ UNCHANGED <<stored, pending, handled, crashes>>

\* The handler ends; Message::ack spawns the acknowledgement.
Handle(i) ==
  /\ i \in working \ handled
  /\ handled' = handled \union {i}
  /\ UNCHANGED <<stored, pending, working, crashes>>

\* variant: the task ends before its acknowledgement is out
AckArrives_lost(i) ==
  /\ i \in working \intersect handled
  /\ working' = working \ {i}
  /\ UNCHANGED <<stored, pending, handled, crashes>>

\* The spawned acknowledgement reaches the stream.
AckArrives(i) ==
  /\ i \in working \intersect handled
  /\ pending' = pending \ {i} /\ working' = working \ {i}
  /\ UNCHANGED <<stored, handled, crashes>>

\* The acknowledgement fails, and the error is dropped: the message is redelivered
\* when its ack wait runs out.
AckFails(i) ==
  /\ i \in working \intersect handled /\ crashes < MaxCrashes
  /\ crashes' = crashes + 1 /\ working' = working \ {i}
  /\ UNCHANGED <<stored, pending, handled>>

\* The consumer crashes, or its ack wait runs out: what it held is redelivered,
\* even if the handling had completed.
Redeliver ==
  /\ crashes < MaxCrashes /\ working # {}
  /\ crashes' = crashes + 1 /\ working' = {}
  /\ handled' = handled
  /\ UNCHANGED <<stored, pending>>

DNext ==
  \/ Store \/ Redeliver
  \/ \E i \in 1..MaxStored : Fetch(i) \/ Handle(i) \/ AckArrives(i) \/ AckFails(i)

\* The consumer's task and the spawned acknowledgements run.
DFairness == \A i \in 1..MaxStored : WF_dvars(Fetch(i) \/ Handle(i) \/ AckArrives(i))

DSpec == DInit /\ [][DNext]_dvars /\ DFairness

-----------------------------------------------------------------------------
(* Properties.                                                             *)

\* A message leaves the consumer only once its handler has completed: a crash
\* between receipt and handling cannot lose it.
UnhandledIsPending == (1..stored) \ handled \subseteq pending

\* Every stored message is handled and acknowledged, whatever crashes or fails.
EventuallyHandled == \A i \in 1..MaxStored : i \in 1..stored ~> (i \in handled /\ i \notin pending)

\* What the durable bus promises although consumers crash: a stored message is
\* pending until handled, and is handled some time.
HandledOrPending ==
  /\ []UnhandledIsPending
  /\ EventuallyHandled
=============================================================================
