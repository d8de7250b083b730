----------------------------- MODULE ShopFloor -----------------------------
(***************************************************************************)
(* The manufacturing example: the life of a unit on the floor and its      *)
(* inspections (examples/mes/src/wip.rs, rework.rs, defects.rs), the       *)
(* parallel explosion of a bill of materials (mrp.rs), and the counters of *)
(* a machine (telemetry.rs, oee.rs).                                       *)
(*                                                                         *)
(* A unit is driven by run_rework_loop or step by step by a caller, who    *)
(* may call any operation in any state; a refused transition leaves the    *)
(* state, and what was done before it, in place.                           *)
(***************************************************************************)
EXTENDS Integers, Sequences, FiniteSets, SequencesExt, FiniteSetsExt

CONSTANTS
  FindingLists, \* what an inspection finds: sequences of "Minor", "Major", "Critical"
  MaxSteps,     \* calls on the unit (bound)
  Nodes,        \* the nodes of a bill of materials, 1 the root
  Trees,        \* bills considered: [parent, part, qty, lead, stock] of each node
  Demands,      \* finished units asked for
  MaxSamples    \* telemetry samples (bound)

ASSUME ShopFloorAssumption ==
  /\ MaxSteps \in Nat /\ MaxSamples \in Nat /\ Demands \subseteq Nat
  /\ Nodes \subseteq Nat \ {0} /\ 1 \in Nodes
  /\ \A t \in Trees : \A n \in Nodes \ {1} : t[n].parent \in Nodes /\ t[n].parent < n

VARIABLES
  unit,      \* WipItem: state and rework_count
  looping,   \* where run_rework_loop is, "no" when a caller drives the unit
  defects,   \* WipItem::defects, the severities
  inspected, \* history: what inspections found while the unit stood inspected
  bypassed,  \* history: times the unit was moved to Reworking by advance()
  reworked,  \* history: times the unit came to Reworking
  steps,
  bill,      \* the bill being exploded, or <<>>
  demand,
  exploding, \* explode_node calls yet to add their demand: <<node, multiplier>>
  gross,     \* the accumulator: part to gross demand
  machine,   \* MachineState, with `samples` as history
  samples

mvars == <<unit, looping, defects, inspected, bypassed, reworked, steps, bill, demand,
           exploding, gross, machine, samples>>
unitVars == <<unit, looping, defects, inspected, bypassed, reworked, steps>>
billVars == <<bill, demand, exploding, gross>>
machineVars == <<machine, samples>>

MaxRework == 3  \* MAX_REWORK_CYCLES
Edges == {<<"Raw", "Machined">>, <<"Raw", "Welded">>, <<"Machined", "Assembled">>,
          <<"Welded", "Assembled">>, <<"Assembled", "Inspected">>, <<"Inspected", "Finished">>,
          <<"Inspected", "Scrapped">>, <<"Inspected", "Quarantined">>, <<"Inspected", "Reworking">>,
          <<"Reworking", "Assembled">>, <<"Reworking", "Quarantined">>}

MInit ==
  /\ unit = [state |-> "Raw", count |-> 0] /\ looping = "no" /\ defects = {} /\ inspected = {}
  /\ bypassed = 0 /\ reworked = 0 /\ steps = 0
  /\ bill = <<>> /\ demand = 0 /\ exploding = {} /\ gross = <<>>
  /\ machine = [good |-> 0, total |-> 0, run |-> 0] /\ samples = <<>>

-----------------------------------------------------------------------------
(* One unit.                                                               *)

Moves(to) == <<unit.state, to>> \in Edges
OnceMore == Min({reworked + 1, MaxSteps})  \* history, capped
OneCall == steps < MaxSteps /\ steps' = steps + 1

\* advance(), and finish(), scrap(), quarantine(), complete_rework() with it: any
\* edge of the graph.
Advance(to) ==
  /\ looping = "no" /\ Moves(to) /\ OneCall
  /\ unit' = [unit EXCEPT !.state = to]
  /\ bypassed' = IF to = "Reworking" THEN bypassed + 1 ELSE bypassed
  /\ reworked' = IF to = "Reworking" THEN OnceMore ELSE reworked
  /\ UNCHANGED <<looping, defects, inspected, billVars, machineVars>>

\* record_defect(): a finding, in any state and without a disposition.
RecordDefect(severity) ==
  /\ looping = "no" /\ OneCall
  /\ defects' = defects \union {severity}
  /\ UNCHANGED <<unit, looping, inspected, bypassed, reworked, billVars, machineVars>>

\* recommended_disposition: the worst severity wins.
Recommended(found) ==
  IF "Critical" \in Range(found) THEN "Scrap"
  ELSE IF "Major" \in Range(found) THEN "Rework" ELSE "UseAsIs"

\* enter_rework(): within the budget, along the graph.
EnterRework == Moves("Reworking") /\ unit.count < MaxRework
Reworking == [state |-> "Reworking", count |-> unit.count + 1]

\* variant: a rework that is refused goes on to the next inspection as well
LoopGoesOn_anyway(d, accepted) == d = "Rework"

\* run_rework_loop() inspects again after a rework that was accepted.
LoopGoesOn(d, accepted) == d = "Rework" /\ accepted

\* inspect_unit(): the findings are recorded first, so a unit that cannot take the
\* disposition keeps them and its state.  In a loop, a refusal ends the loop, and
\* a rework goes on to the next inspection.
InspectUnit(found, driver) ==
  LET d == Recommended(found)
      accepted == CASE d = "Scrap" -> Moves("Scrapped")
                    [] d = "UseAsIs" -> Moves("Finished")
                    [] d = "Rework" -> EnterRework
  IN /\ looping = driver
     /\ IF driver = "no" THEN OneCall ELSE UNCHANGED steps
     /\ defects' = defects \union Range(found)
     /\ inspected' = IF unit.state = "Inspected" THEN inspected \union Range(found) ELSE inspected
     /\ unit' = IF ~accepted THEN unit
                ELSE IF d = "Rework" THEN Reworking
                ELSE [unit EXCEPT !.state = IF d = "Scrap" THEN "Scrapped" ELSE "Finished"]
     /\ reworked' = IF accepted /\ d = "Rework" THEN OnceMore ELSE reworked
     /\ looping' = IF driver = "no" THEN "no"
                   ELSE IF LoopGoesOn(d, accepted) THEN "reinspect" ELSE "ended"
     /\ UNCHANGED <<bypassed, billVars, machineVars>>

\* run_rework_loop() calls produce(): Machined, Assembled, Inspected; on a unit
\* that is not raw it fails at once.
Produced(s) == IF s = "Raw" THEN "Inspected" ELSE s
StartLoop ==
  /\ looping = "no" /\ OneCall
  /\ unit' = [unit EXCEPT !.state = Produced(@)]
  /\ looping' = IF unit.state = "Raw" THEN "inspect" ELSE "ended"
  /\ UNCHANGED <<defects, inspected, bypassed, reworked, billVars, machineVars>>

\* reinspect(): Reworking, Assembled, Inspected.
Reinspect(driver) ==
  /\ looping = driver /\ unit.state = "Reworking"
  /\ IF driver = "no" THEN OneCall ELSE UNCHANGED steps
  /\ unit' = [unit EXCEPT !.state = "Inspected"]
  /\ looping' = IF driver = "no" THEN "no" ELSE "inspect"
  /\ UNCHANGED <<defects, inspected, bypassed, reworked, billVars, machineVars>>

-----------------------------------------------------------------------------
(* A bill of materials.                                                    *)

ChildrenOf(t, n) == {c \in Nodes \ {1} : t[c].parent = n}
Parts(t) == {t[n].part : n \in Nodes}

\* MrpEngine::explode: the root is exploded for the demand.
Explode(t, d) ==
  /\ bill = <<>> /\ bill' = t /\ demand' = d
  /\ exploding' = {<<1, d>>} /\ gross' = [p \in Parts(t) |-> 0]
  /\ UNCHANGED <<unitVars, machineVars>>

\* explode_node: the demand is added under the lock, then the children are
\* exploded in parallel.
ExplodeNode(n, multiplier) ==
  LET g == bill[n].qty * multiplier IN
  /\ <<n, multiplier>> \in exploding
  /\ gross' = [gross EXCEPT ![bill[n].part] = @ + g]
  /\ exploding' = (exploding \ {<<n, multiplier>>}) \union {<<c, g>> : c \in ChildrenOf(bill, n)}
  /\ UNCHANGED <<bill, demand, unitVars, machineVars>>

\* part_info(): the last node of a part, in depth-first order, gives its stock.
InfoNode(t, p) == Max({n \in Nodes : t[n].part = p})
Requirement(t, g, p) ==
  LET stock == t[InfoNode(t, p)].stock
      net == Max({0, g[p] - stock})
  IN [gross |-> g[p], net |-> net, shortage |-> net > 0, lead |-> t[InfoNode(t, p)].lead]
\* critical_path(), from the leaves up: node numbers grow downwards.
CriticalPath(t) ==
  LET path[n \in Nodes] == t[n].lead + Max({0} \union {path[c] : c \in ChildrenOf(t, n)}) IN path[1]

-----------------------------------------------------------------------------
(* Telemetry.                                                              *)

\* record(), under the store's lock.
Recorded(m, sample) ==
  CASE sample = "good" -> [m EXCEPT !.total = @ + 1, !.good = @ + 1]
    [] sample = "scrap" -> [m EXCEPT !.total = @ + 1]
    [] sample = "run" -> [m EXCEPT !.run = @ + 1]
Record(sample) ==
  /\ Len(samples) < MaxSamples
  /\ machine' = Recorded(machine, sample) /\ samples' = Append(samples, sample)
  /\ UNCHANGED <<unitVars, billVars>>

\* oee(): each factor a fraction <<over, under>>, clamped to one; a division by
\* zero is not finite and counts as zero.
Factor(over, under) == IF under = 0 THEN <<0, 1>> ELSE <<Min({over, under}), under>>
Oee(m, planned, ideal) ==
  [availability |-> Factor(m.run, planned), performance |-> Factor(ideal * m.total, m.run),
   quality |-> Factor(m.good, m.total)]

UnitNext ==
  \/ \E to \in {e[2] : e \in Edges} : Advance(to)
  \/ \E severity \in UNION {Range(f) : f \in FindingLists} : RecordDefect(severity)
  \/ \E found \in FindingLists : InspectUnit(found, "no") \/ InspectUnit(found, "inspect")
  \/ StartLoop \/ Reinspect("no") \/ Reinspect("reinspect")
BillNext ==
  \/ \E t \in Trees, d \in Demands : Explode(t, d)
  \/ \E e \in exploding : ExplodeNode(e[1], e[2])
MachineNext == \E s \in {"good", "scrap", "run"} : Record(s)
MNext == UnitNext \/ BillNext \/ MachineNext

\* The loop is a plain call: it runs on.
MFairness ==
  WF_mvars(Reinspect("reinspect") \/ \E found \in FindingLists : InspectUnit(found, "inspect"))
MSpec == MInit /\ [][MNext]_mvars /\ MFairness

-----------------------------------------------------------------------------
(* Properties.                                                             *)

\* A unit with a critical finding ships only if no inspection ever saw that
\* finding on it while it stood inspected: an inspection that does scraps it, and
\* no later call brings it back (rework.rs 38-56).  One that record_defect()
\* notes, or that an inspection meets in another state, ships with the unit.
CriticalNeverShips ==
  /\ unit.state = "Finished" /\ "Critical" \in defects => "Critical" \notin inspected
  /\ "Critical" \in inspected => unit.state = "Scrapped"

\* The rework budget (wip.rs 9-11): enter_rework() spends at most three cycles,
\* and its count is the number of times the unit came to Reworking (wip.rs 75),
\* both only as long as nobody moves the unit there with advance().
ReworkBudget ==
  /\ unit.count <= MaxRework
  /\ bypassed = 0 => reworked = unit.count

\* The loop ends, in an accepted unit or with the budget spent.
LoopEnds == looping \in {"inspect", "reinspect"} ~> looping = "ended"

\* Once every node has been added, in whatever order the threads came, a part's
\* gross demand is the demand multiplied along each of its paths, and the critical
\* path is the longest of them.
PlanMatchesPaths ==
  (bill # <<>> /\ exploding = {}) =>
    LET up[n \in Nodes] == {n} \union (IF n = 1 THEN {} ELSE up[bill[n].parent])
        along(n) == FoldLeft(LAMBDA q, k : q * bill[k].qty, demand, SetToSeq(up[n]))
        days(n) == FoldLeft(LAMBDA d, k : d + bill[k].lead, 0, SetToSeq(up[n]))
    IN /\ \A p \in Parts(bill) :
            Requirement(bill, gross, p).gross = MapThenSumSet(along, {n \in Nodes : bill[n].part = p})
       /\ CriticalPath(bill) = Max({days(n) : n \in Nodes})
       /\ \A p \in Parts(bill) : LET r == Requirement(bill, gross, p) IN r.shortage <=> r.net > 0

\* No order of samples makes a machine better than perfect, and its quality is the
\* share of the good cycles sampled.
OeeFollowsSamples ==
  LET of(s) == Cardinality({i \in DOMAIN samples : samples[i] = s})
      o == Oee(machine, 2, 1)
  IN /\ o.quality = Factor(of("good"), of("good") + of("scrap"))
     /\ \A f \in DOMAIN o : 0 <= o[f][1] /\ o[f][1] <= o[f][2]

\* What the floor promises: what an inspection finds critical does not ship, rework
\* is counted and bounded, its loop ends, and the parallel explosion and the counters
\* come out the same in any order.
FloorSound ==
  /\ []CriticalNeverShips
  /\ []ReworkBudget
  /\ []PlanMatchesPaths
  /\ []OeeFollowsSamples
  /\ LoopEnds
=============================================================================
