----------------------------- MODULE MCPlatform -----------------------------
(* The caches, the tenant layers, the generated API, the buses, the flow   *)
(* over them, the sensor pipelines, the shop floor and the plugins, for    *)
(* TLC: one of the parts, chosen at the start, runs; the others stay as    *)
(* they begin.  No fair action of a part is enabled in its initial state,  *)
(* so fairness asks nothing of the parts that stay.                        *)
EXTENDS SessionCache, RedisCache, TenantScope, EntityApi, Ingest, ShopFloor, Bus, DurableBus, Flow,
        PluginHost, TLC

CONSTANTS q1, q2

VARIABLE part

(* SessionCache and RedisCache: three read models of two tenants; two sessions of one. *)
MCViews == {[tenant |-> t, model |-> m, key |-> "k"] :
              <<t, m>> \in {<<"t", "m">>, <<"t", "n">>, <<"u", "m">>}}
MCTenantOf == [s \in {"s1", "s2"} |-> "t"]

(* TenantScope: every way to name a tenant, on both kinds of route and layer. *)
MCFolded == [s \in {"acme", "ACME", "globex", "a b"} |-> IF s = "ACME" THEN "acme" ELSE s]
            @@ (Nothing :> Nothing)
Token(k, t, e) == Issue(k, [tenant |-> t, exp |-> e, iss |-> "erp", aud |-> {"api"}])
Ask(h, x, t, r, l) == [host |-> h, header |-> x, token |-> t, route |-> r, layer |-> l]
MCAsks == {
  Ask("ACME", Nothing, Nothing, "open", "request"),
  Ask(Nothing, "globex", Nothing, "open", "request"),
  Ask(Nothing, "a b", Nothing, "open", "call"),
  Ask("acme", Nothing, Token("k", "globex", 1), "verified", "request"),
  Ask("acme", Nothing, Token("k", "globex", 1), "verified", "call"),
  Ask(Nothing, Nothing, Token("other", "acme", Nothing), "verified", "request"),
  Ask(Nothing, Nothing, Token("k", "acme", Nothing), "open", "call"),
  Ask(Nothing, Nothing, Nothing, "verified", "call")}
Calls == [r \in Req |-> Ask(Nothing, "a b", Nothing, "open", "call")]

(* EntityApi: valid and invalid entities, and filters of every kind. *)
Body(i, n, q, o) == [id |-> i, name |-> n, qty |-> q, note |-> o]
MCBodies == {Body(1, "ada", 1, "o"), Body(2, "ada", 1, "o"), Body(3, "bob", 2, "o"), Body(3, "bob", 9, "o"),
             Body(2, "", 1, "o"), Body(1, "bob", 2, Unset)}
MCTypes == [name |-> "String", qty |-> "i64", note |-> "Option"]
Rule(r, a, b) == [rule |-> r, min |-> a, max |-> b]
MCDirectives == [name |-> {Rule("required", 0, 0), Rule("len", 1, 3)},
                 qty |-> {Rule("range", 0, 5), Rule("email", 0, 0)},
                 note |-> {Rule("required", 0, 0), Rule("len", 2, 3)}]
MCFacts == [s \in {"ada", "bob", ""} |->
              [length |-> IF s = "" THEN 0 ELSE 3, blank |-> s = "", email |-> FALSE,
               contains |-> {s, "b"} \ {"ada"}, prefixes |-> {"a"}]]
Test(f, t, v) == [field |-> f, test |-> t, value |-> v]
MCFilters == {{}, {Test("name", "contains", "b")},
              {Test("qty", "min", 1), Test("qty", "max", 1), Test("name", "prefix", "a"),
               Test("name", "equals", "ada"), Test("name", "min", 3)}}

(* Bus: a pattern of one subject and one of all. *)
MCMatching == {<<"a", "a">>, <<"all", "a">>, <<"all", "b">>}

(* Flow: an order of one unit and one of two, and what others publish. *)
MCOrdered == "f1" :> 1 @@ "f2" :> 2
MCUnitCost == "f1" :> 10 @@ "f2" :> 7
MCStrangers == {[bus |-> "x", kind |-> "badId"], [bus |-> "y", kind |-> "junk"]}

(* ShopFloor: findings of every disposition, and bills in which the part b *)
(* occurs twice, at the root, below the first b or below c.                *)
MCFindingLists == {<<>>, <<"Minor", "Major">>, <<"Minor", "Critical">>}
Node(p, part_, q, l, s) == [parent |-> p, part |-> part_, qty |-> q, lead |-> l, stock |-> s]
MCTrees == {<<Node(0, "a", 1, 1, 0), Node(1, "b", 2, x, 3), Node(1, "c", 1, 1, 0),
              Node(p, "b", 3, 1, y), Node(3, "d", y, 2, 1)>> : x \in {1, 3}, p \in 1..3, y \in 0..2}

(* PluginHost: code that scores, code that never ends and code that does not compile. *)
MCBehaviour == "good" :> "scores" @@ "spin" :> "loops" @@ "junk" :> "invalid"
MCStepsOf == [c \in Code |-> 2]

Init ==
  /\ part \in {"sessions", "views", "redis sessions", "redis views", "tenant", "api", "ingest", "unit",
              "bill", "machine", "bus", "nats", "flow", "plugin"}
  /\ ScInit /\ RcInit
  /\ TnInit /\ (part # "tenant" => asks = Calls)
  /\ ApiInit /\ (part # "api" => policy = "StaffAuth")
  /\ IInit /\ (part # "ingest" => pipeline = "wms" /\ batch = 1)
  /\ MInit /\ BInit /\ DInit
  /\ FlInit /\ busOf["f1"] = "x" /\ (part # "flow" => busOf["f2"] = "x")
  /\ PhInit

stores == <<scvars, rcvars, tnvars, apivars>>
works == <<ivars, mvars, bvars, dvars, flvars, phvars>>

Next ==
  /\ UNCHANGED part
  /\ \/ part = "sessions" /\ (SessionStep \/ Tick) /\ UNCHANGED <<rcvars, tnvars, apivars, works>>
     \/ part = "views" /\ (ViewStep \/ Tick) /\ UNCHANGED <<rcvars, tnvars, apivars, works>>
     \/ part = "redis sessions" /\ (RSessionStep \/ RTick) /\ UNCHANGED <<scvars, tnvars, apivars, works>>
     \/ part = "redis views" /\ RViewStep /\ UNCHANGED <<scvars, tnvars, apivars, works>>
     \/ part = "tenant" /\ TnNext /\ UNCHANGED <<scvars, rcvars, apivars, works>>
     \/ part = "api" /\ ApiNext /\ UNCHANGED <<scvars, rcvars, tnvars, works>>
     \/ part = "ingest" /\ INext /\ UNCHANGED <<stores, mvars, bvars, dvars, flvars, phvars>>
     \/ part = "unit" /\ UnitNext /\ UNCHANGED <<stores, ivars, bvars, dvars, flvars, phvars>>
     \/ part = "bill" /\ BillNext /\ UNCHANGED <<stores, ivars, bvars, dvars, flvars, phvars>>
     \/ part = "machine" /\ MachineNext /\ UNCHANGED <<stores, ivars, bvars, dvars, flvars, phvars>>
     \/ part = "bus" /\ BNext /\ UNCHANGED <<stores, ivars, mvars, dvars, flvars, phvars>>
     \/ part = "nats" /\ DNext /\ UNCHANGED <<stores, ivars, mvars, bvars, flvars, phvars>>
     \/ part = "flow" /\ FlNext /\ UNCHANGED <<stores, ivars, mvars, bvars, dvars, phvars>>
     \/ part = "plugin" /\ PhNext /\ UNCHANGED <<stores, ivars, mvars, bvars, dvars, flvars>>

Spec ==
  /\ Init /\ [][Next]_<<part, stores, works>>
  /\ IFairness /\ MFairness /\ BFairness /\ DFairness /\ FlFairness /\ PhFairness
=============================================================================
