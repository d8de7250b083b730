---------------------------- MODULE TenantScope ----------------------------
(***************************************************************************)
(* The tenant crate: how a request gets its tenant (identification.rs,     *)
(* web.rs, auth.rs) and how its statements are confined to that tenant's   *)
(* rows (rls.rs, db.rs and web.rs's TenantDb).  A request passes the       *)
(* context layer, the auth layer when its route asks for one, and one of   *)
(* two database layers: "request" is tenant_db_middleware, one transaction *)
(* around the handler, opened and closed by plain SQL, for the tenant in   *)
(* the request's context; "call" is tenant_rls_middleware, one sqlx        *)
(* transaction per call of with_rls, for the tenant it resolves from the   *)
(* raw headers again, whatever the auth layer has verified.                *)
(* Connections go back to a pool and keep what the last user left in them. *)
(* A client may go away at any await point, which drops the handler.       *)
(***************************************************************************)
EXTENDS Naturals, FiniteSets

CONSTANTS
  Req, Conn,        \* requests, and the connections of the pool
  Asks,             \* what requests may carry: see Ask
  Folded,           \* the spelling of a slug |-> its lower-case form
  ValidSlugs,       \* the lower-case forms TenantSlug::validate accepts
  JwtKey, Issuer, Audience,   \* the JwtConfig; Anyone stands for None
  Anyone, Nothing,
  MaxClock, MaxStatements, MaxAbandoned

ASSUME TenantAssumption ==
  /\ Nothing \notin Conn
  /\ \A a \in Asks : a.layer \in {"request", "call"}

\* A token as `issue` mints it, under the key of its issuer.
Issue(key, claims) ==
  [alg |-> "HS256", key |-> key, tenant |-> claims.tenant,
   exp |-> claims.exp, iss |-> claims.iss, aud |-> claims.aud]

VARIABLES
  clock,
  asks,       \* request |-> its headers, its route and its database layer
  at,         \* request |-> the layer it is in
  ctx,        \* the TenantContext in its extensions, or Nothing
  principal,  \* the tenant of the verified Principal, or Nothing
  held,       \* request |-> the connection it holds, or Nothing
  answer,     \* "none", "success" or "failure"
  statements, \* how many statements a request has run
  txn,        \* connection |-> the transaction Postgres has open on it
  rows        \* committed rows: the tenant of the row and who wrote it

requestVars == <<asks, at, ctx, principal, held, answer, statements>>
tnvars == <<clock, requestVars, txn, rows>>

NoTxn == [state |-> "idle", scope |-> Nothing, rows |-> {}, opener |-> Nothing]

Resolved(slug) == IF slug \in ValidSlugs THEN slug ELSE Nothing

\* resolve_slug: Host subdomain, then X-Tenant-Id, then the unverified claim.
ResolveSlug(ask) ==
  CASE ask.host # Nothing   -> Folded[ask.host]
    [] ask.host = Nothing /\ ask.header # Nothing -> Folded[ask.header]
    [] ask.host = Nothing /\ ask.header = Nothing /\ ask.token # Nothing
                            -> Folded[ask.token.tenant]
    [] OTHER                -> Nothing

\* JwtConfig::verify: the tenant of a token that passes every test.
Verified(token, time) ==
  IF /\ token.alg = "HS256"
     /\ token.key = JwtKey
     /\ token.exp # Nothing => time < token.exp
     /\ Issuer # Anyone => token.iss = Issuer
     /\ Audience # Anyone => Audience \in token.aud
     /\ token.tenant # Nothing
  THEN Resolved(Folded[token.tenant])
  ELSE Nothing

TnInit ==
  /\ clock = 0
  /\ asks \in [Req -> Asks]
  /\ at = [r \in Req |-> "context"]
  /\ ctx = [r \in Req |-> Nothing]
  /\ principal = [r \in Req |-> Nothing]
  /\ held = [r \in Req |-> Nothing]
  /\ answer = [r \in Req |-> "none"]
  /\ statements = [r \in Req |-> 0]
  /\ txn = [c \in Conn |-> NoTxn]
  /\ rows = {}

Free == Conn \ {held[r] : r \in Req}

\* What resolve_slug makes of the raw headers, and the tenant a database layer
\* takes: the context, or TenantDb.tenant.
HeaderTenant(r) == Resolved(ResolveSlug(asks[r]))
LayerTenant(r) == IF asks[r].layer = "call" THEN HeaderTenant(r) ELSE ctx[r]

\* tenant_context_middleware
ContextLayer(r) ==
  /\ at[r] = "context"
  /\ ctx' = [ctx EXCEPT ![r] = HeaderTenant(r)]
  /\ at' = [at EXCEPT ![r] = IF asks[r].route = "verified" THEN "auth" ELSE "pool"]
  /\ UNCHANGED <<clock, asks, principal, held, answer, statements, txn, rows>>

AuthVerdict(r) ==
  IF asks[r].token = Nothing THEN Nothing ELSE Verified(asks[r].token, clock)

\* auth_middleware: a 401, or the principal and the context of the token.
AuthLayer(r) ==
  /\ at[r] = "auth"
  /\ principal' = [principal EXCEPT ![r] = AuthVerdict(r)]
  /\ ctx' = [ctx EXCEPT ![r] = IF AuthVerdict(r) = Nothing THEN @ ELSE AuthVerdict(r)]
  /\ at' = [at EXCEPT ![r] = IF AuthVerdict(r) = Nothing THEN "done" ELSE "pool"]
  /\ answer' = [answer EXCEPT ![r] = IF AuthVerdict(r) = Nothing THEN "failure" ELSE @]
  /\ UNCHANGED <<clock, asks, held, statements, txn, rows>>

\* The database layer: tenant_rls_middleware puts the tenant of the headers into
\* the context, over the one that is there.
Recontext(r) == ctx' = [ctx EXCEPT ![r] = IF LayerTenant(r) = Nothing THEN @ ELSE LayerTenant(r)]

\* No tenant or no connection: the extractors of the handler refuse (400, 500),
\* and tenant_db_middleware itself when the pool gives nothing (503).
Unserved(r) ==
  /\ at[r] = "pool" /\ (LayerTenant(r) = Nothing \/ Free = {})
  /\ Recontext(r)
  /\ at' = [at EXCEPT ![r] = "done"]
  /\ answer' = [answer EXCEPT ![r] = "failure"]
  /\ UNCHANGED <<clock, asks, principal, held, statements, txn, rows>>

Acquire(r, c) ==
  /\ at[r] = "pool" /\ LayerTenant(r) # Nothing /\ c \in Free
  /\ Recontext(r)
  /\ held' = [held EXCEPT ![r] = c]
  /\ at' = [at EXCEPT ![r] = "begin"]
  /\ UNCHANGED <<clock, asks, principal, answer, statements, txn, rows>>

\* BEGIN fails in a failed transaction, which stays on the connection, and is
\* only a warning in an open one.
Begin(r) ==
  LET c == held[r] IN
  /\ at[r] = "begin"
  /\ IF txn[c].state = "failed"
     THEN /\ at' = [at EXCEPT ![r] = "done"]
          /\ answer' = [answer EXCEPT ![r] = "failure"]
          /\ held' = [held EXCEPT ![r] = Nothing]
          /\ UNCHANGED txn
     ELSE /\ at' = [at EXCEPT ![r] = "scope"]
          /\ txn' = IF txn[c].state = "open" THEN txn
                    ELSE [txn EXCEPT ![c] = [NoTxn EXCEPT !.state = "open", !.opener = r]]
          /\ UNCHANGED <<answer, held>>
  /\ UNCHANGED <<clock, asks, ctx, principal, statements, rows>>

\* variant: a connection that has a scope already is taken as scoped
SetTenant_once(r) ==
  /\ at[r] = "scope"
  /\ at' = [at EXCEPT ![r] = "handler"]
  /\ txn' = [txn EXCEPT ![held[r]].scope = IF @ = Nothing THEN LayerTenant(r) ELSE @]
  /\ UNCHANGED <<clock, asks, ctx, principal, held, answer, statements, rows>>

\* set_config('app.tenant_id', .., true) with ctx.id or TenantDb.tenant
SetTenant(r) ==
  /\ at[r] = "scope"
  /\ at' = [at EXCEPT ![r] = "handler"]
  /\ txn' = [txn EXCEPT ![held[r]].scope = LayerTenant(r)]
  /\ UNCHANGED <<clock, asks, ctx, principal, held, answer, statements, rows>>

\* The query fails: the transaction is failed.  tenant_db_middleware ignores
\* the error; with_rls returns it, and the dropped transaction is rolled back.
SetTenantFails(r) ==
  /\ at[r] = "scope"
  /\ IF asks[r].layer = "request"
     THEN /\ at' = [at EXCEPT ![r] = "handler"]
          /\ txn' = [txn EXCEPT ![held[r]].state = "failed"]
     ELSE /\ at' = [at EXCEPT ![r] = "reply"]
          /\ txn' = [txn EXCEPT ![held[r]] = NoTxn]
  /\ UNCHANGED <<clock, asks, ctx, principal, held, answer, statements, rows>>

\* A write under the policy: it lands in the tenant of the scope, or fails.
Statement(r, works) ==
  LET c == held[r] IN
  /\ at[r] = "handler" /\ statements[r] < MaxStatements
  /\ statements' = [statements EXCEPT ![r] = @ + 1]
  /\ txn' = IF works /\ txn[c].state = "open" /\ txn[c].scope # Nothing
            THEN [txn EXCEPT ![c].rows = @ \union {[tenant |-> txn[c].scope, by |-> r]}]
            ELSE [txn EXCEPT ![c].state = "failed"]
  /\ UNCHANGED <<clock, asks, at, ctx, principal, held, answer, rows>>

\* COMMIT keeps the rows of an open transaction; of a failed one it is a
\* ROLLBACK, without an error.
Commit(c) ==
  /\ rows' = IF txn[c].state = "open" THEN rows \union txn[c].rows ELSE rows
  /\ txn' = [txn EXCEPT ![c] = NoTxn]

Rollback(c) ==
  /\ txn' = [txn EXCEPT ![c] = NoTxn]
  /\ UNCHANGED rows

\* The end of tenant_db_middleware; a COMMIT that fails becomes a ROLLBACK and
\* the response goes out as it is.
Finalize(r, status) ==
  \/ status = "success" /\ Commit(held[r])
  \/ Rollback(held[r])

\* The handler of a "request" route answers.
Respond(r, status) ==
  /\ at[r] = "handler" /\ asks[r].layer = "request"
  /\ Finalize(r, status)
  /\ at' = [at EXCEPT ![r] = "done"]
  /\ held' = [held EXCEPT ![r] = Nothing]
  /\ answer' = [answer EXCEPT ![r] = status]
  /\ UNCHANGED <<clock, asks, ctx, principal, statements>>

\* The closure of with_rls ends: committed when it returned Ok.
EndCall(r, ok) ==
  /\ at[r] = "handler" /\ asks[r].layer = "call"
  /\ IF ok THEN Commit(held[r]) ELSE Rollback(held[r])
  /\ at' = [at EXCEPT ![r] = "reply"]
  /\ UNCHANGED <<clock, asks, ctx, principal, held, answer, statements>>

\* A "call" handler may call again, or answer whatever it likes.
NextCall(r) ==
  /\ at[r] = "reply" /\ statements[r] < MaxStatements
  /\ at' = [at EXCEPT ![r] = "begin"]
  /\ UNCHANGED <<clock, asks, ctx, principal, held, answer, statements, txn, rows>>

Reply(r, status) ==
  /\ at[r] = "reply"
  /\ at' = [at EXCEPT ![r] = "done"]
  /\ held' = [held EXCEPT ![r] = Nothing]
  /\ answer' = [answer EXCEPT ![r] = status]
  /\ UNCHANGED <<clock, asks, ctx, principal, statements, txn, rows>>

Abandoned == {r \in Req : at[r] = "gone"}

\* The client goes away: the handler is dropped and the connection returned.
\* sqlx rolls back the transaction it opened; it knows of no plain BEGIN.
Abandon(r) ==
  /\ held[r] # Nothing /\ Cardinality(Abandoned) < MaxAbandoned
  /\ at' = [at EXCEPT ![r] = "gone"]
  /\ held' = [held EXCEPT ![r] = Nothing]
  /\ txn' = IF asks[r].layer = "call" /\ at[r] \in {"scope", "handler"}
            THEN [txn EXCEPT ![held[r]] = NoTxn] ELSE txn
  /\ UNCHANGED <<clock, asks, ctx, principal, answer, statements, rows>>

Pass == clock < MaxClock /\ clock' = clock + 1 /\ UNCHANGED <<requestVars, txn, rows>>

TnNext ==
  \/ Pass
  \/ \E r \in Req :
       \/ ContextLayer(r) \/ AuthLayer(r) \/ Unserved(r) \/ Begin(r)
       \/ SetTenant(r) \/ SetTenantFails(r) \/ NextCall(r) \/ Abandon(r)
       \/ \E c \in Conn : Acquire(r, c)
       \/ \E works \in BOOLEAN : Statement(r, works) \/ EndCall(r, works)
       \/ \E status \in {"success", "failure"} : Respond(r, status) \/ Reply(r, status)

TnSpec == TnInit /\ [][TnNext]_tnvars

---------------------------------------------------------------------------
Written == rows \union UNION {txn[c].rows : c \in Conn}

(* Every row a request writes lands in the tenant its database layer took, *)
(* whoever used the connection before and however that ended (rls.rs 3-7). *)
(* On a verified route that is the tenant of the token, behind             *)
(* tenant_rls_middleware only if the headers name no other: "tenant        *)
(* selection is gated behind a verified credential rather than a spoofable *)
(* header" (auth.rs 10-14) does not hold of that layer (web.rs 178-193).   *)
RowsStayWithTenant ==
  \A row \in Written :
    /\ row.tenant = LayerTenant(row.by)
    /\ (asks[row.by].route = "verified"
          /\ (asks[row.by].layer = "request" \/ HeaderTenant(row.by) = principal[row.by]))
         => row.tenant = principal[row.by]

(* What a "request" route did not answer with success leaves no row        *)
(* (db.rs 9-10); only a request that was dropped half way may leave one,   *)
(* through the next user of its connection.                                *)
OnlyAnsweredWrites ==
  \A row \in rows : asks[row.by].layer = "request" =>
    answer[row.by] = "success" \/ row.by \in Abandoned

(* A connection in the pool has no transaction open, save one that an      *)
(* abandoned request opened (db.rs 129-148).                               *)
FreeIsClean ==
  \A c \in Free : txn[c].state # "idle" => txn[c].opener \in Abandoned

(* Where a credential is verified the principal is the tenant of the       *)
(* token, and so is the context, unless tenant_rls_middleware has put that *)
(* of the raw headers over it (auth.rs 10-14, web.rs 185).                 *)
VerifiedTenantGoverns ==
  \A r \in Req : (asks[r].route = "verified" /\ at[r] \notin {"context", "auth"}) =>
    \/ at[r] = "done" /\ answer[r] = "failure"
    \/ /\ principal[r] # Nothing /\ principal[r] = Folded[asks[r].token.tenant]
       /\ ctx[r] = principal[r] \/ (asks[r].layer = "call" /\ at[r] # "pool" /\ ctx[r] = HeaderTenant(r))

\* What the tenant layers promise over a shared pool with failing statements and
\* clients that go away: rows stay with the tenant, are kept only if answered,
\* connections return clean, and a verified token decides where no layer reads the
\* raw headers after it.
TenantsConfined ==
  /\ RowsStayWithTenant
  /\ OnlyAnsweredWrites
  /\ FreeIsClean
  /\ VerifiedTenantGoverns
=============================================================================
