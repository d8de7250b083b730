------------------------------- MODULE Ingest -------------------------------
(***************************************************************************)
(* The two sensor pipelines, examples/wms/src/ingest.rs and                *)
(* examples/tms/src/ingest.rs: frames are decoded, counted and buffered,   *)
(* and a full buffer is published as one message.  The warehouse buffers   *)
(* frames it cannot parse, the transport pipeline drops them.  The result  *)
(* of the publish is discarded.                                            *)
(***************************************************************************)
EXTENDS Integers, Sequences, FiniteSets, SequencesExt

CONSTANTS
  Batches,    \* the batch sizes run_pipeline is called with
  MaxFrames,  \* frames of the source (bound)
  MaxOutages  \* publishes that fail (bound)

ASSUME IngestAssumption == Batches \subseteq Nat /\ MaxFrames \in Nat /\ MaxOutages \in Nat

VARIABLES
  pipeline,  \* "wms" or "tms", and the batch size: they never change
  batch,
  ingestAt,  \* "read", "publish", or "end"
  drained,   \* the source has ended
  buf,       \* the events buffered, by number of their frame
  stats,     \* IngestStats
  kept,      \* history: the frames that became events, in order
  arrived,   \* history: the messages the bus took
  refused    \* history: the messages the bus did not take

ivars == <<pipeline, batch, ingestAt, drained, buf, stats, kept, arrived, refused>>

IInit ==
  /\ pipeline \in {"wms", "tms"} /\ batch \in Batches
  /\ ingestAt = "read" /\ drained = FALSE /\ buf = <<>>
  /\ stats = [decoded |-> 0, unparsed |-> 0, published |-> 0]
  /\ kept = <<>> /\ arrived = <<>> /\ refused = {}

\* decode(): whether a frame parses, and whether it becomes an event.
Keeps(parses) == parses \/ pipeline = "wms"

\* The loop of run_pipeline up to the test of the buffer's length.
ReadFrame(parses) ==
  LET n == stats.decoded + stats.unparsed + 1
      filled == IF Keeps(parses) THEN Append(buf, n) ELSE buf
  IN /\ ingestAt = "read" /\ ~drained /\ n <= MaxFrames
     /\ stats' = IF parses THEN [stats EXCEPT !.decoded = @ + 1] ELSE [stats EXCEPT !.unparsed = @ + 1]
     /\ buf' = filled
     /\ kept' = IF Keeps(parses) THEN Append(kept, n) ELSE kept
     /\ ingestAt' = IF Len(filled) >= batch THEN "publish" ELSE "read"
     /\ UNCHANGED <<pipeline, batch, drained, arrived, refused>>

\* variant: what is left in the buffer when the source ends is not published
EndSource_dropping ==
  /\ ingestAt = "read" /\ ~drained
  /\ drained' = TRUE /\ ingestAt' = "end"
  /\ UNCHANGED <<pipeline, batch, buf, stats, kept, arrived, refused>>

\* The source ends: what is left is published.
EndSource ==
  /\ ingestAt = "read" /\ ~drained
  /\ drained' = TRUE
  /\ ingestAt' = IF buf # <<>> THEN "publish" ELSE "end"
  /\ UNCHANGED <<pipeline, batch, buf, stats, kept, arrived, refused>>

\* publish_batch, whose outcome is discarded, and the counters after it.
PublishBatch(ok) ==
  /\ ingestAt = "publish" /\ (~ok => Cardinality(refused) < MaxOutages)
  /\ IF ok THEN arrived' = Append(arrived, buf) /\ UNCHANGED refused
     ELSE refused' = refused \union {buf} /\ UNCHANGED arrived
  /\ stats' = [stats EXCEPT !.published = @ + Len(buf)]
  /\ buf' = <<>>
  /\ ingestAt' = IF drained THEN "end" ELSE "read"
  /\ UNCHANGED <<pipeline, batch, drained, kept>>

INext == EndSource \/ \E b \in BOOLEAN : ReadFrame(b) \/ PublishBatch(b)

\* A publish is a plain call: it comes back.
IFairness == WF_ivars(\E b \in BOOLEAN : PublishBatch(b))
ISpec == IInit /\ [][INext]_ivars /\ IFairness

-----------------------------------------------------------------------------
(* Properties.                                                             *)

\* Every event leaves in order, in one message, which the bus took or refused:
\* what arrived is what was kept but for the refused messages and the buffer.
\* `published`, "number of events published to the bus" (wms ingest.rs 70-71, tms
\* ingest.rs 62-63), never misses an event the bus took and is exact as long as
\* the bus has refused none.
EventsLeaveOnce ==
  LET lost == UNION {Range(m) : m \in refused} \union Range(buf)
      out == FoldLeft(LAMBDA all, m : all \o m, <<>>, arrived)
  IN /\ out = SelectSeq(kept, LAMBDA n : n \notin lost)
     /\ stats.published >= Len(out)
     /\ refused = {} => stats.published = Len(out)

\* No message is longer than the batch size (one, when that is 0).
BatchesBounded ==
  \A m \in Range(arrived) \union refused : Len(m) <= IF batch = 0 THEN 1 ELSE batch

\* The pipeline ends when its source does, and by then every event it kept has
\* been given to the bus, the last batch too, however short.
Given == UNION {Range(m) : m \in Range(arrived) \union refused}
PipelineEnds == drained ~> (ingestAt = "end" /\ Range(kept) = Given)

\* What the pipelines promise for every batch size, source and bus outage: each event
\* leaves once, in order, in a bounded batch, and the pipeline ends with its source.
EventsReachBus ==
  /\ []EventsLeaveOnce
  /\ []BatchesBounded
  /\ PipelineEnds
=============================================================================
