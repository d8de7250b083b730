----------------------------- MODULE PluginHost -----------------------------
(***************************************************************************)
(* Plugins: the registry of signed components and the runtime that runs    *)
(* them (crates/tpt-erp-wasm), with the engine that scores delivery stops  *)
(* through one (examples/tms dispatch.rs).  A plugin is known by its code; *)
(* what the code does when it runs is a constant.  Signatures are records  *)
(* of who signed what.                                                     *)
(*                                                                         *)
(* The engine is behind one mutex, so one run is under way at a time; the  *)
(* epoch ticker is a thread of its own.  A guest runs step by step, each   *)
(* step burning one unit of fuel.                                          *)
(***************************************************************************)
EXTENDS Naturals, FiniteSets, Functions, FiniteSetsExt, TLC

CONSTANTS
  Publisher, SigningKey, PluginName, Code,
  Behaviour,     \* code |-> "scores", "loops", "fails" or "invalid"
  TooLarge,      \* code above max_module_bytes
  StepsOf,       \* code |-> the fuel a run of it takes
  Stop, StopDemands, Weights,
  Fuel,          \* RuntimeConfig::fuel_per_call
  MaxEpoch, MaxRuns, MaxEdits,
  NoCode, NoValue

VARIABLES
  trusted,    \* PluginRegistry::publishers
  plugins,    \* PluginRegistry::plugins
  everTrusted,\* history: the keys a publisher has had
  handle,     \* the code of the PluginHandle, or NoCode
  fuel,       \* what the store of the handle has left
  stopDemand,     \* TmsDispatchHost::demand, shared with every clone of the host
  seen,       \* what the host the guest reads from answers, per stop
  epoch,
  running,    \* the run under way
  meter,      \* UsageMeter: [calls, fuel] of the tenant of the host
  ran,        \* history: the runs that ended, the fuel they burnt, and how many of
              \* them were cut short
  answers,    \* history: the scores given, with the demand at that time
  runs, edits
phvars == <<trusted, plugins, everTrusted, handle, fuel, stopDemand, seen, epoch, running, meter, ran,
            answers, runs, edits>>
registry == <<trusted, plugins, everTrusted>>
engineState == <<handle, fuel, stopDemand, seen, epoch, running, meter, ran, answers, runs>>

NoRun == [on |-> FALSE, stop |-> NoValue, weight |-> 0, left |-> 0, deadline |-> 0, score |-> NoValue]

PhInit ==
  /\ trusted = <<>> /\ plugins = <<>> /\ everTrusted = {}
  /\ handle = NoCode /\ fuel = 0
  /\ stopDemand = <<>> /\ seen = <<>>
  /\ epoch = 0 /\ running = NoRun
  /\ meter = [calls |-> 0, fuel |-> 0] /\ ran = [runs |-> 0, fuel |-> 0, cut |-> 0]
  /\ answers = {} /\ runs = 0 /\ edits = 0

Edits == edits < MaxEdits /\ edits' = edits + 1

-----------------------------------------------------------------------------
(* The registry.                                                           *)

\* SignedPlugin::sign
Signed(name, publisher, code, key) ==
  [name |-> name, publisher |-> publisher, code |-> code, key |-> key, signature |-> <<key, code>>]

RegisterPublisher(p, key) ==
  /\ Edits
  /\ trusted' = (p :> key) @@ trusted
  /\ everTrusted' = everTrusted \union {<<p, key>>}
  /\ UNCHANGED <<plugins, engineState>>

Authentic(a) ==
  /\ a.publisher \in DOMAIN trusted
  /\ a.key = trusted[a.publisher]
  /\ a.signature = <<trusted[a.publisher], a.code>>

Publish(a) ==
  /\ Edits
  /\ Authentic(a) /\ a.name \notin DOMAIN plugins
  /\ plugins' = (a.name :> a) @@ plugins
  /\ UNCHANGED <<trusted, everTrusted, engineState>>

\* The artifacts publishers bring: signed, or changed after the signing.
Artifacts ==
  {Signed(n, p, c, k) : n \in PluginName, p \in Publisher, c \in Code, k \in SigningKey}
  \union {[Signed(n, p, c, k) EXCEPT !.signature = <<k, d>>] :
            n \in PluginName, p \in Publisher, c \in Code, k \in SigningKey, d \in Code}

VerifyAll == \A n \in DOMAIN plugins : plugins[n].signature = <<plugins[n].key, plugins[n].code>>

-----------------------------------------------------------------------------
(* The engine: loading, swapping and the demand of the stops.              *)

\* PluginRuntime::load: the size first, then the compilation.
Loads(c) == c \notin TooLarge /\ Behaviour[c] # "invalid"

\* clone_box shares the map: what a clone made earlier answers after a change.
CloneSees(old) == stopDemand'

\* DispatchEngine::with_plugin and swap_module, on a fetched plugin; a module
\* that does not load leaves the handle as it is.
Deploy(n) ==
  /\ Edits /\ ~running.on /\ n \in DOMAIN plugins
  /\ IF Loads(plugins[n].code)
     THEN handle' = plugins[n].code /\ fuel' = Fuel /\ seen' = stopDemand
     ELSE UNCHANGED <<handle, fuel, seen>>
  /\ UNCHANGED <<registry, stopDemand, epoch, running, meter, ran, answers, runs>>

\* set_stop_demand, which takes the engine's mutex.
SetDemand(s, d) ==
  /\ Edits /\ ~running.on
  /\ stopDemand' = (s :> d) @@ stopDemand
  /\ seen' = CloneSees(seen)
  /\ UNCHANGED <<registry, handle, fuel, epoch, running, meter, ran, answers, runs>>

-----------------------------------------------------------------------------
(* A run.                                                                  *)

\* reset_store: a fresh budget before every run.
ResetStore == fuel' = Fuel

\* score_stop
StartRun(s, w) ==
  /\ ~running.on /\ handle # NoCode /\ runs < MaxRuns
  /\ runs' = runs + 1
  /\ ResetStore
  /\ running' = [on |-> TRUE, stop |-> s, weight |-> w, left |-> StepsOf[handle],
                 deadline |-> epoch + 1, score |-> NoValue]
  /\ UNCHANGED <<registry, handle, stopDemand, seen, epoch, meter, ran, answers, edits>>

\* The guest's score: higher demand first, the weight discounts it.
Priority(d, w) == IF d * 10 > w \div 100 THEN d * 10 - w \div 100 ELSE 0

\* The guest reads the demand of the stop on its first step; a stop the host
\* does not know counts as zero.
Score(s, w) == Priority(IF s \in DOMAIN seen THEN seen[s] ELSE 0, w)

GuestStep ==
  /\ running.on /\ epoch < running.deadline /\ fuel > 0
  /\ Behaviour[handle] = "loops" \/ running.left > 0
  /\ fuel' = fuel - 1
  /\ running' = [running EXCEPT
       !.left = IF Behaviour[handle] = "loops" THEN @ ELSE @ - 1,
       !.score = IF @ = NoValue THEN Score(running.stop, running.weight) ELSE @]
  /\ UNCHANGED <<registry, handle, stopDemand, seen, epoch, meter, ran, answers, runs, edits>>

\* A run that ends before the metering.
CutShort ==
  /\ running' = NoRun
  /\ ran' = [runs |-> ran.runs + 1, fuel |-> ran.fuel + (Fuel - fuel), cut |-> ran.cut + 1]
  /\ UNCHANGED <<registry, handle, fuel, stopDemand, seen, epoch, meter, answers, runs, edits>>

\* The component cannot be instantiated: it is no plugin, or asks for more memory
\* than the limiter gives.
InstantiateFails == running.on /\ running.score = NoValue /\ fuel = Fuel /\ CutShort

\* The host call panics: TmsDispatchHost::stock_level takes a blocking_lock,
\* which a task of a tokio runtime may not.
HostPanics == running.on /\ running.score = NoValue /\ CutShort

\* variant: only the epoch interrupts a guest
Trap_epochOnly ==
  /\ running.on /\ epoch >= running.deadline
  /\ Behaviour[handle] = "loops" \/ running.left > 0
  /\ CutShort

\* Out of fuel or past the deadline: a trap, returned before the metering.
Trap ==
  /\ running.on /\ (epoch >= running.deadline \/ fuel = 0)
  /\ Behaviour[handle] = "loops" \/ running.left > 0
  /\ CutShort

\* call_run came back: metered, whether the guest answered or failed.
EndRun ==
  /\ running.on /\ running.left = 0 /\ Behaviour[handle] # "loops"
  /\ meter' = [calls |-> meter.calls + 1, fuel |-> meter.fuel + (Fuel - fuel)]
  /\ ran' = [ran EXCEPT !.runs = @ + 1, !.fuel = @ + StepsOf[handle]]
  /\ answers' = IF Behaviour[handle] = "scores"
                THEN answers \union
                       {[score |-> running.score, weight |-> running.weight,
                         stopDemand |-> IF running.stop \in DOMAIN stopDemand THEN stopDemand[running.stop] ELSE 0]}
                ELSE answers
  /\ running' = NoRun
  /\ UNCHANGED <<registry, handle, fuel, stopDemand, seen, epoch, runs, edits>>

\* The epoch ticker, whenever its interval is over.
TickEpoch ==
  /\ epoch < MaxEpoch /\ epoch' = epoch + 1
  /\ UNCHANGED <<registry, handle, fuel, stopDemand, seen, running, meter, ran, answers, runs, edits>>

PhNext ==
  \/ \E p \in Publisher, k \in SigningKey : RegisterPublisher(p, k)
  \/ \E a \in Artifacts : Publish(a)
  \/ \E n \in PluginName : Deploy(n)
  \/ \E s \in Stop, d \in StopDemands : SetDemand(s, d)
  \/ \E s \in Stop, w \in Weights : StartRun(s, w)
  \/ InstantiateFails \/ GuestStep \/ HostPanics \/ Trap \/ EndRun \/ TickEpoch

PhSpec == PhInit /\ [][PhNext]_phvars
\* A run that is under way is given the processor.
PhFairness == WF_phvars(GuestStep \/ Trap \/ EndRun)

-----------------------------------------------------------------------------
(* Whatever is in the registry was signed, as it is, under a key that the  *)
(* registry trusted for the publisher it names (registry.rs 85-90), and    *)
(* the periodic sweep finds nothing wrong.                                 *)
OnlyTrustedCode ==
  /\ VerifyAll
  /\ \A n \in DOMAIN plugins : <<plugins[n].publisher, plugins[n].key>> \in everTrusted

(* A run is billed at most once and for no more than it burnt, over any    *)
(* number of runs and swaps (billing.rs 3-10), and the bill is exact as    *)
(* long as no run was cut short.  "Number of plugin run invocations"       *)
(* (billing.rs 17) has no such exception: a run that traps, or does not    *)
(* get as far as the guest, returns before it is recorded (runtime.rs      *)
(* 315-321).                                                               *)
BillIsExact ==
  /\ meter.calls <= ran.runs /\ meter.fuel <= ran.fuel
  /\ ran.cut = 0 => meter = [calls |-> ran.runs, fuel |-> ran.fuel]

(* A score follows the demand as it was set last, although the plugin was  *)
(* given its own clone of the host when it was loaded (dispatch.rs 37-62). *)
ScoresSeeDemand ==
  \A a \in answers : a.score = Priority(a.stopDemand, a.weight)

(* A guest that never returns does not keep the engine: the fuel and the   *)
(* epoch end every run, if the guest is given the processor (runtime.rs    *)
(* 33-52).                                                                 *)
EveryRunEnds == running.on ~> ~running.on

\* What the plugin host promises over loads, swaps and runs: only trusted code is
\* kept, nothing is billed twice, scores see the current demand, and every run ends.
PluginsContained ==
  /\ []OnlyTrustedCode
  /\ []BillIsExact
  /\ []ScoresSeeDemand
  /\ EveryRunEnds
=============================================================================
