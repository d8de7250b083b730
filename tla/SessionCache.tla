---------------------------- MODULE SessionCache ----------------------------
(***************************************************************************)
(* The in-memory session store and read-model cache                        *)
(* (crates/tpt-erp-cache/src/lib.rs, memory.rs).  Every call holds the one *)
(* mutex for all it does, so a call is a step; `create` and `put` read the *)
(* clock before they wait for it.                                          *)
(***************************************************************************)
EXTENDS Integers

CONSTANTS
  SessionId,   \* the ids Uuid::new_v4() draws, in order: 1, 2, ...
  CacheTenant,
  ViewKey,     \* the [tenant, model, key] read-model keys in use
  CacheTtls,   \* lifetimes asked for; NoTtl for none
  NoTtl,
  MaxCacheTime, MaxPuts  \* bounds

ASSUME SessionAssumption ==
  /\ SessionId \subseteq Nat /\ MaxCacheTime \in Nat /\ MaxPuts \in Nat
  /\ CacheTtls \subseteq Nat \union {NoTtl} /\ NoTtl \notin Nat

VARIABLES
  cacheNow,     \* Utc::now()
  sessions,     \* Inner::sessions, a partial function from id to [tenant, expires, seen]
  tenantIds,    \* Inner::tenant_sessions, the ids listed for each tenant
  views,        \* Inner::models, a partial function from key to [value, expires]
  nextSession, puts

scvars == <<cacheNow, sessions, tenantIds, views, nextSession, puts>>

Empty == [x \in {} |-> 0]
With(f, k, v) == [x \in DOMAIN f \union {k} |-> IF x = k THEN v ELSE f[x]]
Without(f, S) == [x \in DOMAIN f \ S |-> f[x]]

ScInit ==
  /\ cacheNow = 0 /\ sessions = Empty /\ views = Empty
  /\ tenantIds = [t \in CacheTenant |-> {}]
  /\ nextSession = 1 /\ puts = 0

Deadline(at, ttl) == IF ttl = NoTtl THEN NoTtl ELSE at + ttl
\* Session::is_expired: at its very deadline a session is still alive.
SessionExpired(s) == s.expires # NoTtl /\ cacheNow > s.expires
\* A read model is gone at its deadline.
ViewExpired(v) == v.expires # NoTtl /\ v.expires <= cacheNow

CreateSession(t, ttl, at) ==
  /\ nextSession \in SessionId /\ nextSession' = nextSession + 1
  /\ sessions' = With(sessions, nextSession,
                      [tenant |-> t, expires |-> Deadline(at, ttl), seen |-> at])
  /\ tenantIds' = [tenantIds EXCEPT ![t] = @ \union {nextSession}]
  /\ UNCHANGED <<cacheNow, views, puts>>

\* get removes a session it finds expired, but leaves its id with its tenant.
GetSession(i) ==
  /\ i \in DOMAIN sessions /\ SessionExpired(sessions[i])
  /\ sessions' = Without(sessions, {i})
  /\ UNCHANGED <<cacheNow, tenantIds, views, nextSession, puts>>

\* variant: the remaining lifetime is that of the previous activity
TouchSession_sliding(i) ==
  /\ i \in DOMAIN sessions
  /\ sessions' = [sessions EXCEPT ![i].seen = cacheNow,
       ![i].expires = IF @ # NoTtl THEN cacheNow + (@ - sessions[i].seen) ELSE @]
  /\ UNCHANGED <<cacheNow, tenantIds, views, nextSession, puts>>

\* touch: the remaining lifetime is measured from the activity just noted, so the
\* deadline it is added back to does not move.
TouchSession(i) ==
  /\ i \in DOMAIN sessions
  /\ sessions' = [sessions EXCEPT ![i].seen = cacheNow,
       ![i].expires = IF @ # NoTtl /\ @ - cacheNow > 0 THEN cacheNow + (@ - cacheNow) ELSE @]
  /\ UNCHANGED <<cacheNow, tenantIds, views, nextSession, puts>>

DeleteSession(i) ==
  /\ i < nextSession
  /\ tenantIds' = IF i \in DOMAIN sessions
                  THEN [tenantIds EXCEPT ![sessions[i].tenant] = @ \ {i}]
                  ELSE tenantIds
  /\ sessions' = Without(sessions, {i})
  /\ UNCHANGED <<cacheNow, views, nextSession, puts>>

\* delete_for_tenant
PurgeTenant(t) ==
  /\ sessions' = Without(sessions, tenantIds[t])
  /\ tenantIds' = [tenantIds EXCEPT ![t] = {}]
  /\ UNCHANGED <<cacheNow, views, nextSession, puts>>

\* The read-model cache.
PutView(k, ttl, at) ==
  /\ puts < MaxPuts /\ puts' = puts + 1
  /\ views' = With(views, k, [value |-> puts', expires |-> Deadline(at, ttl)])
  /\ UNCHANGED <<cacheNow, sessions, tenantIds, nextSession>>

\* get drops an entry it finds expired.
GetView(k) ==
  /\ k \in DOMAIN views /\ ViewExpired(views[k])
  /\ views' = Without(views, {k})
  /\ UNCHANGED <<cacheNow, sessions, tenantIds, nextSession, puts>>

InvalidateView(k) ==
  /\ views' = Without(views, {k})
  /\ UNCHANGED <<cacheNow, sessions, tenantIds, nextSession, puts>>

InvalidateModel(t, m) ==
  /\ views' = Without(views, {k \in ViewKey : k.tenant = t /\ k.model = m})
  /\ UNCHANGED <<cacheNow, sessions, tenantIds, nextSession, puts>>

Tick ==
  /\ cacheNow < MaxCacheTime /\ cacheNow' = cacheNow + 1
  /\ UNCHANGED <<sessions, tenantIds, views, nextSession, puts>>

SessionStep ==
  \/ \E t \in CacheTenant, ttl \in CacheTtls, at \in 0..cacheNow : CreateSession(t, ttl, at)
  \/ \E i \in SessionId : GetSession(i) \/ TouchSession(i) \/ DeleteSession(i)
  \/ \E t \in CacheTenant : PurgeTenant(t)
ViewStep ==
  \/ \E k \in ViewKey : \/ InvalidateView(k) \/ GetView(k)
                        \/ \E ttl \in CacheTtls, at \in 0..cacheNow : PutView(k, ttl, at)
  \/ \E k \in ViewKey : InvalidateModel(k.tenant, k.model)

ScNext == SessionStep \/ ViewStep \/ Tick

ScSpec == ScInit /\ [][ScNext]_scvars

-----------------------------------------------------------------------------
(* Properties.                                                             *)

\* A session that was deleted, purged with its tenant or past its deadline never comes
\* back to life, whatever touches and reads come in between.
Alive(i) == i \in DOMAIN sessions /\ ~SessionExpired(sessions[i])
EndedStaysEnded == [][\A i \in SessionId : i < nextSession /\ ~Alive(i) => ~Alive(i)']_scvars

\* Every session is listed with its own tenant and no other, so that purging a tenant
\* takes all of its sessions and none of another's.
ListedWithItsTenant ==
  \A i \in DOMAIN sessions, t \in CacheTenant : (i \in tenantIds[t]) <=> (sessions[i].tenant = t)

\* What another tenant, or another model, has cached outlives any invalidation.
InvalidationIsScoped ==
  [][\A k \in ViewKey : k \in DOMAIN views /\ k \notin DOMAIN views' /\ ~ViewExpired(views[k]) =>
       \A other \in DOMAIN views \ DOMAIN views' : other.tenant = k.tenant /\ other.model = k.model]_scvars

\* What the in-memory cache promises: sessions stay with their tenant and never
\* revive, and an invalidation takes its own entries only.
CacheKeepsApart ==
  /\ []ListedWithItsTenant
  /\ EndedStaysEnded
  /\ InvalidationIsScoped
=============================================================================
