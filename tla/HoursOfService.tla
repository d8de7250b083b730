--------------------------- MODULE HoursOfService ---------------------------
(***************************************************************************)
(* Hours of service (examples/tms/src/hos.rs): a driver's duty intervals,  *)
(* once accumulated by HosClock as they come and once recomputed by HosLog *)
(* from the whole series, and the escalations published for a dispatcher.  *)
(*                                                                         *)
(* Time is in half hours.  An interval may overlap its predecessor:        *)
(* HosLog::append compares it with no other.                               *)
(***************************************************************************)
EXTENDS Integers, Sequences, FiniteSets, SequencesExt, FiniteSetsExt

CONSTANTS
  Lengths,      \* lengths of the intervals considered
  Gaps,         \* from the end of an interval to the start of the next
  MaxIntervals, \* intervals logged (bound)
  MaxRounds     \* rounds of publish_escalations (bound)

ASSUME HosAssumption ==
  Lengths \subseteq Nat /\ Gaps \subseteq Int /\ MaxIntervals \in Nat /\ MaxRounds \in Nat

VARIABLES
  clock,       \* HosClock: status and window
  log,         \* HosLog::intervals
  outgoing,    \* the escalations publish_escalations has still to publish
  rounds,
  told,        \* history: the escalations published by the last round
  lastRound    \* history: "none", "ok" or "failed"

hvars == <<clock, log, outgoing, rounds, told, lastRound>>

Status == {"OffDuty", "OnDuty", "Driving", "SleeperBerth"}
Legal == {<<"OffDuty", "OnDuty">>, <<"OnDuty", "OffDuty">>, <<"OnDuty", "Driving">>,
          <<"Driving", "OnDuty">>, <<"OnDuty", "SleeperBerth">>, <<"SleeperBerth", "OnDuty">>,
          <<"Driving", "SleeperBerth">>, <<"SleeperBerth", "OffDuty">>}

HInit ==
  /\ clock = [status |-> "OffDuty", driving |-> 0, onDuty |-> 0]
  /\ log = <<>> /\ outgoing = <<>> /\ rounds = 0 /\ told = {} /\ lastRound = "none"

Length(iv) == iv.end - iv.start
Working(s) == s \in {"OnDuty", "Driving"}
\* A rest that closes the window: 10 hours off duty, 8 in the berth.
Resets(status, length) ==
  \/ status = "OffDuty" /\ length >= 20
  \/ status = "SleeperBerth" /\ length >= 16

-----------------------------------------------------------------------------
(* HosClock.                                                               *)

\* The window after a period: HosClock::apply.
Accrued(c, s, length) ==
  IF Resets(s, length) THEN [status |-> s, driving |-> 0, onDuty |-> 0]
  ELSE [status |-> s,
        driving |-> c.driving + (IF s = "Driving" THEN length ELSE 0),
        onDuty |-> c.onDuty + (IF Working(s) THEN length ELSE 0)]

-----------------------------------------------------------------------------
(* HosLog: every limit recomputed from the series.                         *)

Total(ivs, S) == FoldLeft(LAMBDA t, iv : IF iv.status \in S THEN t + Length(iv) ELSE t, 0, ivs)
\* The intervals after the last one that satisfies Rest.
Since(ivs, Rest(_)) ==
  LET at == Max({0} \union {i \in DOMAIN ivs : Rest(ivs[i])}) IN SubSeq(ivs, at + 1, Len(ivs))

\* scan_window: back to a qualifying rest.
Window(ivs) == Since(ivs, LAMBDA iv : Resets(iv.status, Length(iv)))

\* variant: any half hour off driving is a break
SinceBreak_anyStop(ivs) ==
  Total(Since(ivs, LAMBDA iv : iv.status # "Driving" /\ Length(iv) >= 1), {"Driving"})
\* driving_since_break: half an hour off duty or in the berth.
SinceBreak(ivs) ==
  Total(Since(ivs, LAMBDA iv : ~Working(iv.status) /\ Length(iv) >= 1), {"Driving"})

AsOf(ivs) == Last(ivs).end
\* on_duty_in_days: clipped to the window that ends with the last interval.
InDays(ivs, days) ==
  LET clip(iv) == Max({0, Min({iv.end, AsOf(ivs)}) - Max({iv.start, AsOf(ivs) - 48 * days})})
  IN FoldLeft(LAMBDA t, iv : IF Working(iv.status) THEN t + clip(iv) ELSE t, 0, ivs)

\* violations(), in the order they are reported.
Violations(ivs) ==
  LET Found(breached, v) == IF breached THEN <<v>> ELSE <<>>
  IN Found(Total(Window(ivs), {"Driving"}) > 22, "DrivingLimit")
     \o Found(Total(Window(ivs), {"OnDuty", "Driving"}) > 28, "OnDutyLimit")
     \o Found(SinceBreak(ivs) >= 16, "BreakRequired")
     \o Found(ivs # <<>> /\ (InDays(ivs, 7) > 120 \/ InDays(ivs, 8) > 140), "CycleLimit")

-----------------------------------------------------------------------------
(* Steps.                                                                  *)

\* An interval is appended to the log, and its period applied to the clock: both
\* refuse a status the graph does not allow.
LogInterval(s, gap, length) ==
  LET start == IF log = <<>> THEN 0 ELSE AsOf(log) + gap IN
  /\ outgoing = <<>> /\ Len(log) < MaxIntervals
  /\ <<clock.status, s>> \in Legal
  /\ log' = Append(log, [status |-> s, start |-> start, end |-> start + length])
  /\ clock' = Accrued(clock, s, length)
  /\ UNCHANGED <<outgoing, rounds, told, lastRound>>

\* publish_escalations: one record per violation, in order.
StartEscalating ==
  /\ outgoing = <<>> /\ rounds < MaxRounds /\ Violations(log) # <<>>
  /\ outgoing' = Violations(log) /\ rounds' = rounds + 1
  /\ told' = {} /\ lastRound' = "none"
  /\ UNCHANGED <<clock, log>>

\* The first publish that fails ends the round: later violations stay untold.
PublishEscalation(ok) ==
  /\ outgoing # <<>>
  /\ IF ok THEN /\ told' = told \union {Head(outgoing)} /\ outgoing' = Tail(outgoing)
                /\ lastRound' = IF outgoing' = <<>> THEN "ok" ELSE "none"
     ELSE /\ outgoing' = <<>> /\ lastRound' = "failed" /\ UNCHANGED told
  /\ UNCHANGED <<clock, log, rounds>>

HNext ==
  \/ \E s \in Status, g \in Gaps, n \in Lengths : LogInterval(s, g, n)
  \/ StartEscalating
  \/ \E ok \in BOOLEAN : PublishEscalation(ok)

HSpec == HInit /\ [][HNext]_hvars

-----------------------------------------------------------------------------
(* Properties.                                                             *)

\* The accumulator and the recomputation agree on the window, whatever the order
\* of rests and work, overlapping intervals included.
ClockAgreesWithLog ==
  /\ clock.driving = Total(Window(log), {"Driving"})
  /\ clock.onDuty = Total(Window(log), {"OnDuty", "Driving"})

\* A violation that has come about stays until a rest of its kind ends it: neither
\* more work nor a shorter rest nor a publish lifts it.
BreachStands ==
  [][log' # log =>
       LET now == Last(log') IN
       /\ ~Resets(now.status, Length(now)) =>
            Range(Violations(log)) \intersect {"DrivingLimit", "OnDutyLimit"} \subseteq Range(Violations(log'))
       /\ Working(now.status) =>
            ("BreakRequired" \in Range(Violations(log)) => "BreakRequired" \in Range(Violations(log')))]_hvars

\* A round of escalations that reports success has told every violation there is.
RoundTellsAll == [][lastRound' = "ok" /\ lastRound # "ok" => Range(Violations(log)) \subseteq told']_hvars

\* What the driver's log promises: the two ways to compute the clock agree, a breach
\* stands until its rest, and a successful round told all of them.
HoursStand ==
  /\ []ClockAgreesWithLog
  /\ BreachStands
  /\ RoundTellsAll
=============================================================================
