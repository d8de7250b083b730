-------------------------------- MODULE Flow --------------------------------
(***************************************************************************)
(* run_flow_on (examples/flow/src/lib.rs): one order goes through four     *)
(* verticals that only talk over a bus.  The WMS handler picks on          *)
(* oms.order.created, the TMS handler plans on wms.pick.done, the GL       *)
(* handler posts the cost on tms.dispatch.done and wakes the caller.  Each *)
(* handler serves the first message it can decode and stops, whoever       *)
(* published it.  A publish reaches every stream in one step: Bus.tla has  *)
(* the steps, and a flow never comes near a channel's capacity.            *)
(***************************************************************************)
EXTENDS Integers, Sequences, FiniteSets

CONSTANTS
  Flows, BusNames,
  Ordered,     \* flow |-> qty
  UnitCost,    \* flow |-> unit_cost
  Strangers    \* what other publishers of oms.order.created send: [bus, kind]

VARIABLES
  busOf,     \* flow |-> the bus its caller supplied
  stage,     \* flow |-> where run_flow_on is
  stream,    \* flow |-> vertical |-> the messages its handler has yet to take
  handler,   \* flow |-> vertical |-> "none", "on", "done" or "panicked"
  consumed,  \* flow |-> the units its own warehouse gave out
  cogs,      \* flow |-> the amounts its own ledger posted
  report,    \* flow |-> the report it returned
  strangers  \* what the others have sent
flvars == <<busOf, stage, stream, handler, consumed, cogs, report, strangers>>

Verticals == {"wms", "tms", "gl"}
\* The subject each vertical's handler reads.
OrderOf(qty) == [kind |-> "order", qty |-> qty]
NoReport == [picked |-> 0, amount |-> 0]

FlInit ==
  /\ busOf \in [Flows -> BusNames]
  /\ stage = [f \in Flows |-> "new"]
  /\ stream = [f \in Flows |-> [v \in Verticals |-> <<>>]]
  /\ handler = [f \in Flows |-> [v \in Verticals |-> "none"]]
  /\ consumed = [f \in Flows |-> 0] /\ cogs = [f \in Flows |-> <<>>]
  /\ report = [f \in Flows |-> NoReport] /\ strangers = {}

Hears(f, b) == busOf[f] = b

\* publish on bus b: every stream of the subject that is still open gets it.
Delivered(b, v, msg) ==
  [f \in Flows |-> IF Hears(f, b) /\ handler[f][v] = "on"
                   THEN [stream[f] EXCEPT ![v] = Append(@, msg)] ELSE stream[f]]

\* The stock is reserved and confirmed, and the three subjects subscribed.
SubscribeAll(f) ==
  /\ stage[f] = "new"
  /\ stage' = [stage EXCEPT ![f] = "subscribed"]
  /\ handler' = [handler EXCEPT ![f] = [v \in Verticals |-> "on"]]
  /\ UNCHANGED <<busOf, stream, consumed, cogs, report, strangers>>

\* The order is published, and the caller waits for the completion channel.
PlaceOrder(f) ==
  /\ stage[f] = "subscribed"
  /\ stage' = [stage EXCEPT ![f] = "awaiting"]
  /\ stream' = Delivered(busOf[f], "wms", OrderOf(Ordered[f]))
  /\ UNCHANGED <<busOf, handler, consumed, cogs, report, strangers>>

\* Another publisher of the bus sends what no handler can decode, or an
\* order whose ids do not parse.
Intrude(s) ==
  /\ s \in Strangers \ strangers
  /\ strangers' = strangers \union {s}
  /\ stream' = Delivered(s.bus, "wms", [kind |-> s.kind, qty |-> 0])
  /\ UNCHANGED <<busOf, stage, handler, consumed, cogs, report>>

Waiting(f, v) == handler[f][v] = "on" /\ stream[f][v] # <<>>
Message(f, v) == Head(stream[f][v])

\* variant: Err(_) => break
SkipMessage_breaking(f, v) ==
  /\ Waiting(f, v) /\ Message(f, v).kind = "junk"
  /\ handler' = [handler EXCEPT ![f][v] = "done"]
  /\ UNCHANGED <<busOf, stage, stream, consumed, cogs, report, strangers>>

\* Err(_) => continue
SkipMessage(f, v) ==
  /\ Waiting(f, v) /\ Message(f, v).kind = "junk"
  /\ stream' = [stream EXCEPT ![f][v] = Tail(@)]
  /\ UNCHANGED <<busOf, stage, handler, consumed, cogs, report, strangers>>

\* .expect("valid wms sku id"): the task dies, and nobody tells the caller.
WmsPanics(f) ==
  /\ Waiting(f, "wms") /\ Message(f, "wms").kind = "badId"
  /\ handler' = [handler EXCEPT ![f]["wms"] = "panicked"]
  /\ UNCHANGED <<busOf, stage, stream, consumed, cogs, report, strangers>>

\* What a handler publishes goes out before it breaks off its loop.
Relays(f, v, next) ==
  /\ Waiting(f, v) /\ Message(f, v).kind = "order"
  /\ handler' = [handler EXCEPT ![f][v] = "done"]
  /\ stream' = Delivered(busOf[f], next, OrderOf(Message(f, v).qty))
  /\ UNCHANGED busOf

\* The goods are received and picked; whatever that gave, the quantity of
\* the message goes on as picked.
WmsPicks(f) ==
  /\ Relays(f, "wms", "tms")
  /\ consumed' = [consumed EXCEPT ![f] = @ + Message(f, "wms").qty]
  /\ UNCHANGED <<stage, cogs, report, strangers>>

TmsPlans(f) ==
  /\ Relays(f, "tms", "gl")
  /\ UNCHANGED <<stage, consumed, cogs, report, strangers>>

\* The cost is the message's quantity at this flow's unit cost.
GlPosts(f) ==
  LET qty == Message(f, "gl").qty IN
  /\ Waiting(f, "gl") /\ Message(f, "gl").kind = "order"
  /\ handler' = [handler EXCEPT ![f]["gl"] = "done"]
  /\ cogs' = [cogs EXCEPT ![f] = Append(@, qty * UnitCost[f])]
  /\ report' = [report EXCEPT ![f] = [picked |-> qty, amount |-> qty * UnitCost[f]]]
  /\ UNCHANGED <<busOf, stage, stream, consumed, strangers>>

\* done_rx.recv()
FlowDone(f) ==
  /\ stage[f] = "awaiting" /\ handler[f]["gl"] = "done"
  /\ stage' = [stage EXCEPT ![f] = "returned"]
  /\ UNCHANGED <<busOf, stream, handler, consumed, cogs, report, strangers>>

FlowStep(f) ==
  \/ PlaceOrder(f) \/ FlowDone(f)
  \/ WmsPicks(f) \/ TmsPlans(f) \/ GlPosts(f) \/ WmsPanics(f)
  \/ \E v \in Verticals : SkipMessage(f, v)
FlNext == (\E f \in Flows : SubscribeAll(f) \/ FlowStep(f)) \/ (\E s \in Strangers : Intrude(s))

\* Once a flow has begun, its task and the three handler tasks are scheduled.
FlFairness == \A f \in Flows : WF_flvars(FlowStep(f))
FlSpec == FlInit /\ [][FlNext]_flvars /\ FlFairness

-----------------------------------------------------------------------------
Alone(f) == \A g \in Flows \ {f} : busOf[g] # busOf[f]

(* A flow that shares its bus with no other reports its own order: one     *)
(* posting, of its quantity at its cost, for goods its warehouse gave out  *)
(* (lib.rs 95-96: every step executed in sequence).  With two    *)
(* flows on a bus it may report the other's.                               *)
ReportsOwnOrder ==
  \A f \in Flows : stage[f] = "returned" /\ Alone(f) =>
    /\ report[f] = [picked |-> Ordered[f], amount |-> Ordered[f] * UnitCost[f]]
    /\ cogs[f] = <<report[f].amount>> /\ consumed[f] = Ordered[f]

(* Every flow comes to an end, whoever else uses the bus, unless an order  *)
(* whose ids do not parse has killed a handler (lib.rs 158-159: no event   *)
(* is missed before a handler is listening).                               *)
FlowReturns ==
  \A f \in Flows :
    (stage[f] = "awaiting") ~>
      (stage[f] = "returned" \/ \E s \in strangers : s.bus = busOf[f] /\ s.kind = "badId")

\* What the flow promises: alone on its bus it reports its own order, and it returns
\* whoever else publishes.
FlowsComplete ==
  /\ []ReportsOwnOrder
  /\ FlowReturns
=============================================================================
