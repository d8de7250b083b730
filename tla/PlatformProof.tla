--------------------------- MODULE PlatformProof ---------------------------
(***************************************************************************)
(* What is proved of the platform crates: the two session caches for every *)
(* number of tenants, sessions and calls under way, confinement to the     *)
(* tenant for every number of requests and connections, and the generated  *)
(* API for every sequence of requests.                                     *)
(***************************************************************************)
EXTENDS SessionCache, RedisCache, TenantScope, EntityApi, FoldLemmas

(***************************************************************************)
(* The in-memory cache.  The deadline of a session never moves and an id   *)
(* is drawn once; the list of a tenant's sessions is exact.                *)
(***************************************************************************)
Expiry == Nat \union {NoTtl}
Session == [tenant : CacheTenant, expires : Expiry, seen : Nat]

\* What sessions, ids and clock are at any time: ids are drawn in order, so none of
\* those in use is one that a create to come will draw.
ScTypeOK ==
  /\ cacheNow \in Nat /\ nextSession \in Nat
  /\ \A i \in DOMAIN sessions : i \in Nat /\ i < nextSession /\ sessions[i] \in Session
  /\ tenantIds \in [CacheTenant -> SUBSET Nat]
  /\ \A t \in CacheTenant : \A i \in tenantIds[t] : i < nextSession

\* What each step keeps.
ScInv == ScTypeOK /\ ListedWithItsTenant

LEMMA ScInitInv == ScInit => ScInv
  BY DEF ScInit, ScInv, ScTypeOK, ListedWithItsTenant, Empty

\* An id is drawn for the first time, and joins the list of its tenant.
LEMMA CreateSessionKeeps ==
  ASSUME ScInv, NEW t \in CacheTenant, NEW ttl \in CacheTtls, NEW when \in 0..cacheNow, CreateSession(t, ttl, when)
  PROVE  ScInv'
<1> DEFINE s == [tenant |-> t, expires |-> Deadline(when, ttl), seen |-> when]
<1>1. s \in Session /\ s.tenant = t
  BY SessionAssumption DEF Session, Expiry, Deadline, ScInv, ScTypeOK
<1> HIDE DEF s
<1>2. /\ nextSession' = nextSession + 1 /\ cacheNow' = cacheNow
      /\ sessions' = With(sessions, nextSession, s)
      /\ tenantIds' = [tenantIds EXCEPT ![t] = @ \union {nextSession}]
  BY DEF CreateSession, s
<1>3. nextSession \notin DOMAIN sessions /\ \A u \in CacheTenant : nextSession \notin tenantIds[u]
  BY DEF ScInv, ScTypeOK
<1>4. ScTypeOK'
  BY <1>1, <1>2 DEF ScInv, ScTypeOK, With
<1>5. ListedWithItsTenant'
  BY <1>1, <1>2, <1>3 DEF ScInv, ScTypeOK, ListedWithItsTenant, With
<1> QED
  BY <1>4, <1>5 DEF ScInv

\* A touch leaves the deadline and the lists where they are.
LEMMA TouchSessionKeeps ==
  ASSUME ScInv, NEW i \in SessionId, TouchSession(i)
  PROVE  /\ ScInv' /\ DOMAIN sessions' = DOMAIN sessions /\ tenantIds' = tenantIds
         /\ \A j \in DOMAIN sessions : sessions'[j].expires = sessions[j].expires
<1> DEFINE s == sessions[i]
           e == IF s.expires # NoTtl /\ s.expires - cacheNow > 0
                THEN cacheNow + (s.expires - cacheNow) ELSE s.expires
<1>1. s \in Session /\ cacheNow \in Nat /\ i \in DOMAIN sessions
  BY DEF ScInv, ScTypeOK, TouchSession
<1>2. e = s.expires
  BY <1>1 DEF Session, Expiry
<1>3. sessions' = [sessions EXCEPT ![i].seen = cacheNow, ![i].expires = e]
  BY DEF TouchSession
<1>4. sessions' = [sessions EXCEPT ![i].seen = cacheNow, ![i].expires = s.expires]
  BY <1>2, <1>3
<1>5. /\ DOMAIN sessions' = DOMAIN sessions
      /\ \A j \in DOMAIN sessions : j # i => sessions'[j] = sessions[j]
      /\ sessions'[i] = [[s EXCEPT !.seen = cacheNow] EXCEPT !.expires = s.expires]
  BY <1>1, <1>4
<1>6. sessions'[i] = [tenant |-> s.tenant, expires |-> s.expires, seen |-> cacheNow]
  BY <1>1, <1>5 DEF Session
<1>7. /\ sessions'[i] \in Session /\ sessions'[i].tenant = s.tenant
      /\ sessions'[i].expires = s.expires
  BY <1>1, <1>6 DEF Session
<1> HIDE DEF s, e
<1>8. s = sessions[i] /\ \A j \in DOMAIN sessions : sessions[j] \in Session
  BY DEF s, ScInv, ScTypeOK
<1>9. \A j \in DOMAIN sessions : /\ sessions'[j] \in Session
                                 /\ sessions'[j].tenant = sessions[j].tenant
                                 /\ sessions'[j].expires = sessions[j].expires
  BY <1>5, <1>7, <1>8
<1>10. UNCHANGED <<cacheNow, tenantIds, nextSession>>
  BY DEF TouchSession
<1>11. ScTypeOK' /\ ListedWithItsTenant'
  BY <1>5, <1>9, <1>10 DEF ScInv, ScTypeOK, ListedWithItsTenant
<1> QED
  BY <1>5, <1>9, <1>10, <1>11 DEF ScInv

\* What is removed leaves the rest alone.
LEMMA RemovalKeeps ==
  ASSUME ScInv,
         \/ \E i \in SessionId : GetSession(i) \/ DeleteSession(i)
         \/ \E t \in CacheTenant : PurgeTenant(t)
  PROVE  /\ ScInv' /\ DOMAIN sessions' \subseteq DOMAIN sessions
         /\ \A j \in DOMAIN sessions' : sessions'[j] = sessions[j]
<1>1. ASSUME NEW i \in SessionId, GetSession(i)
      PROVE  /\ ScInv' /\ DOMAIN sessions' \subseteq DOMAIN sessions
             /\ \A j \in DOMAIN sessions' : sessions'[j] = sessions[j]
  BY <1>1 DEF GetSession, ScInv, ScTypeOK, ListedWithItsTenant, Without
<1>2. ASSUME NEW i \in SessionId, DeleteSession(i)
      PROVE  /\ ScInv' /\ DOMAIN sessions' \subseteq DOMAIN sessions
             /\ \A j \in DOMAIN sessions' : sessions'[j] = sessions[j]
  <2>1. /\ sessions' = Without(sessions, {i}) /\ UNCHANGED <<cacheNow, nextSession>>
        /\ \/ i \in DOMAIN sessions /\ tenantIds' = [tenantIds EXCEPT ![sessions[i].tenant] = @ \ {i}]
           \/ tenantIds' = tenantIds
    BY <1>2 DEF DeleteSession
  <2> QED
    BY <2>1 DEF ScInv, ScTypeOK, ListedWithItsTenant, Without, Session
<1>3. ASSUME NEW t \in CacheTenant, PurgeTenant(t)
      PROVE  /\ ScInv' /\ DOMAIN sessions' \subseteq DOMAIN sessions
             /\ \A j \in DOMAIN sessions' : sessions'[j] = sessions[j]
  <2>1. /\ sessions' = Without(sessions, tenantIds[t]) /\ UNCHANGED <<cacheNow, nextSession>>
        /\ tenantIds' = [tenantIds EXCEPT ![t] = {}]
    BY <1>3 DEF PurgeTenant
  <2>2. ScTypeOK'
    BY <2>1 DEF ScInv, ScTypeOK, Without
  <2>3. ListedWithItsTenant'
    BY <2>1 DEF ScInv, ScTypeOK, ListedWithItsTenant, Without, Session
  <2> QED
    BY <2>1, <2>2, <2>3 DEF ScInv, Without
<1> QED
  BY <1>1, <1>2, <1>3

\* Views and the clock do not touch sessions; time does not go back.
LEMMA ScOtherKeeps ==
  ASSUME ScInv, ViewStep \/ Tick \/ UNCHANGED scvars
  PROVE  ScInv' /\ sessions' = sessions /\ cacheNow' \in Nat /\ cacheNow' >= cacheNow
<1>1. /\ UNCHANGED <<sessions, tenantIds, nextSession>>
      /\ cacheNow' \in Nat /\ cacheNow' >= cacheNow
  <2>1. CASE ViewStep
    <3>1. UNCHANGED <<cacheNow, sessions, tenantIds, nextSession>>
      BY <2>1 DEF ViewStep, PutView, GetView, InvalidateView, InvalidateModel
    <3> QED
      BY <3>1 DEF ScInv, ScTypeOK
  <2>2. CASE Tick
    BY <2>2 DEF Tick, ScInv, ScTypeOK
  <2>3. CASE UNCHANGED scvars
    BY <2>3 DEF scvars, ScInv, ScTypeOK
  <2> QED
    BY <2>1, <2>2, <2>3
<1> QED
  BY <1>1 DEF ScInv, ScTypeOK, ListedWithItsTenant

LEMMA ScNextKeeps == ASSUME ScInv, [ScNext]_scvars PROVE ScInv'
  BY CreateSessionKeeps, TouchSessionKeeps, RemovalKeeps, ScOtherKeeps DEF ScNext, SessionStep

\* A session's deadline never moves, an id is drawn once, and time does not go back.
LEMMA EndedStays ==
  ASSUME ScInv, [ScNext]_scvars, NEW i \in SessionId, i < nextSession, ~Alive(i)
  PROVE  ~Alive(i)'
<1>1. ASSUME NEW t \in CacheTenant, NEW ttl \in CacheTtls, NEW when \in 0..cacheNow, CreateSession(t, ttl, when)
      PROVE  ~Alive(i)'
  BY <1>1 DEF CreateSession, With, Alive, SessionExpired, ScInv, ScTypeOK
<1>2. ASSUME NEW j \in SessionId, TouchSession(j)
      PROVE  ~Alive(i)'
  <2>1. cacheNow' = cacheNow
    BY <1>2 DEF TouchSession
  <2> QED
    BY <1>2, <2>1, TouchSessionKeeps DEF Alive, SessionExpired
<1>3. ASSUME \/ \E j \in SessionId : GetSession(j) \/ DeleteSession(j)
             \/ \E t \in CacheTenant : PurgeTenant(t)
      PROVE  ~Alive(i)'
  <2>1. cacheNow' = cacheNow
    BY <1>3 DEF GetSession, DeleteSession, PurgeTenant
  <2> QED
    BY <1>3, <2>1, RemovalKeeps DEF Alive, SessionExpired
<1>4. ASSUME ViewStep \/ Tick \/ UNCHANGED scvars
      PROVE  ~Alive(i)'
  <2>1. i \in DOMAIN sessions => sessions[i].expires \in Expiry /\ cacheNow \in Nat
    BY DEF ScInv, ScTypeOK, Session
  <2> QED
    BY <1>4, <2>1, ScOtherKeeps, SessionAssumption DEF Alive, SessionExpired, Expiry
<1> QED
  BY <1>1, <1>2, <1>3, <1>4 DEF ScNext, SessionStep

\* Only an invalidation takes a view that is not past its deadline, and the views
\* it takes are those of one tenant and model.
LEMMA InvalidationsAreScoped ==
  ASSUME [ScNext]_scvars, NEW k \in ViewKey, k \in DOMAIN views, k \notin DOMAIN views', ~ViewExpired(views[k]),
         NEW other \in DOMAIN views \ DOMAIN views'
  PROVE  other.tenant = k.tenant /\ other.model = k.model
<1>1. PICK j \in ViewKey : InvalidateView(j) \/ GetView(j) \/ InvalidateModel(j.tenant, j.model)
  <2>1. views' # views
    OBVIOUS
  <2>2. ViewStep
    BY <2>1 DEF ScNext, scvars, SessionStep, CreateSession, GetSession, TouchSession, DeleteSession,
                PurgeTenant, Tick
  <2>3. ASSUME NEW j \in ViewKey, NEW ttl, NEW when, PutView(j, ttl, when)
        PROVE  FALSE
    BY <2>3 DEF PutView, With
  <2> QED
    BY <2>2, <2>3 DEF ViewStep
<1>2. CASE InvalidateView(j) \/ GetView(j)
  BY <1>2 DEF InvalidateView, GetView, Without
<1>3. CASE InvalidateModel(j.tenant, j.model)
  BY <1>3 DEF InvalidateModel, Without
<1> QED
  BY <1>1, <1>2, <1>3

(* Whatever is created, touched, deleted, purged and invalidated, and      *)
(* however old the clock reading a create works with: every session is     *)
(* listed with its own tenant, one that has ended stays ended, and an      *)
(* invalidation takes its own tenant's and model's entries only            *)
(* (memory.rs).                                                            *)
THEOREM CacheIsKeptApart == ScSpec => CacheKeepsApart
<1>1. ScInv /\ [ScNext]_scvars => ScInv'
  BY ScNextKeeps
<1>2. ScInv /\ [ScNext]_scvars =>
        [\A i \in SessionId : i < nextSession /\ ~Alive(i) => ~Alive(i)']_scvars
  BY EndedStays
<1>3. ScInv /\ [ScNext]_scvars =>
        [\A k \in ViewKey : k \in DOMAIN views /\ k \notin DOMAIN views' /\ ~ViewExpired(views[k]) =>
           \A other \in DOMAIN views \ DOMAIN views' : other.tenant = k.tenant /\ other.model = k.model]_scvars
  BY InvalidationsAreScoped
<1>4. ScInv => ListedWithItsTenant
  BY DEF ScInv
<1> QED
  BY <1>1, <1>2, <1>3, <1>4, ScInitInv, PTL
  DEF ScSpec, CacheKeepsApart, EndedStaysEnded, InvalidationIsScoped

-----------------------------------------------------------------------------
(***************************************************************************)
(* The Redis cache.  Its calls are series of commands that other calls'    *)
(* commands come between: the invariant says what each call under way may  *)
(* still count on.                                                         *)
(***************************************************************************)
\* A record with the fields of a call.
Shaped(r) == r = [at |-> r.at, id |-> r.id, found |-> r.found, todo |-> r.todo, alone |-> r.alone]

\* The calls under way are about sessions that were drawn, or about read models.
RcTypeOK ==
  /\ rNow \in Nat
  /\ drawn \subseteq RSession /\ DOMAIN keys \subseteq drawn
  /\ \A s \in DOMAIN keys : keys[s].expires \in Int
  /\ owned \in [RTenants -> SUBSET drawn]
  /\ \A t \in RTenants : \A s \in owned[t] : RTenantOf[s] = t
  /\ task = [c \in RTask |-> task[c]]
  /\ \A c \in RTask : Shaped(task[c])
  /\ \A c \in RTask : task[c].at \in {"sadd", "drop", "setex", "srem", "del"} => task[c].id \in drawn
  /\ \A c \in RTask : task[c].at = "setex" => task[c].found[1] \in Int

\* A session the server holds is listed, or about to be, or about to go.
Placed ==
  \A s \in DOMAIN keys :
    \/ s \in owned[RTenantOf[s]] \/ s \in orphans
    \/ \E c \in RTask : task[c].at \in {"sadd", "del"} /\ task[c].id = s

\* What a purge has dealt with is gone, or an orphan; alone, it knows the whole set.
Purging ==
  \A c \in RTask : task[c].at = "purge" =>
    /\ task[c].id \in RTenants
    /\ task[c].todo \subseteq task[c].found /\ task[c].found \subseteq drawn
    /\ \A s \in task[c].found : RTenantOf[s] = task[c].id
    /\ \A s \in task[c].found \ task[c].todo : s \notin DOMAIN keys \/ s \in orphans
    /\ task[c].alone => owned[task[c].id] \subseteq task[c].found

Lonely ==
  \A c, d \in RTask : task[c].at # "idle" /\ task[c].alone /\ d # c => task[d].at = "idle"

\* What a scan has not deleted yet it still owes, or has on its page.
ScansOwe ==
  \A c \in RTask :
    /\ task[c].at = "scan" => task[c].found \intersect rviews \subseteq task[c].todo
    /\ task[c].at = "unlink" => task[c].found \intersect rviews \subseteq task[c].todo \union task[c].id

\* What each command keeps.
RcInv == RcTypeOK /\ Placed /\ Purging /\ Lonely /\ ScansOwe /\ ReadsAreCurrent /\ ScanLeavesNothing

\* A call has begun: those under way have lost their solitude.
Begun(c, stage, id, found, todo) ==
  /\ task[c].at = "idle"
  /\ task' = [d \in RTask |-> task'[d]]
  /\ task'[c] = [at |-> stage, id |-> id, found |-> found, todo |-> todo, alone |-> Busy = {}]
  /\ \A d \in RTask \ {c} :
       task'[d] = [at |-> task[d].at, id |-> task[d].id, found |-> task[d].found,
                   todo |-> task[d].todo, alone |-> FALSE]

\* A call under way has taken a step of its own.
Moved(c, stage, id, found, todo, alone) ==
  /\ task' = [d \in RTask |-> task'[d]]
  /\ task'[c] = [at |-> stage, id |-> id, found |-> found, todo |-> todo, alone |-> alone]
  /\ \A d \in RTask \ {c} : task'[d] = task[d]

\* One field of a call is set.
LEMMA Updates ==
  ASSUME NEW r, Shaped(r), NEW v, NEW w
  PROVE  /\ [r EXCEPT !.alone = v] = [at |-> r.at, id |-> r.id, found |-> r.found, todo |-> r.todo, alone |-> v]
         /\ [r EXCEPT !.found = v] = [at |-> r.at, id |-> r.id, found |-> v, todo |-> r.todo, alone |-> r.alone]
         /\ [r EXCEPT !.todo = v] = [at |-> r.at, id |-> r.id, found |-> r.found, todo |-> v, alone |-> r.alone]
         /\ [r EXCEPT !.at = v] = [at |-> v, id |-> r.id, found |-> r.found, todo |-> r.todo, alone |-> r.alone]
<1>1. PICK a, i, f, t, l : r = [at |-> a, id |-> i, found |-> f, todo |-> t, alone |-> l]
  BY DEF Shaped
<1> QED
  BY <1>1

\* What StartCall does, field by field.
LEMMA StartBegins ==
  ASSUME RcInv, NEW c \in RTask, NEW stage, NEW id, NEW found, NEW todo,
         StartCall(c, Call(stage, id, found, todo))
  PROVE  Begun(c, stage, id, found, todo)
<1>1. /\ task[c].at = "idle"
      /\ task' = [d \in RTask |-> IF d = c
                   THEN [Call(stage, id, found, todo) EXCEPT !.alone = (Busy = {})]
                   ELSE [task[d] EXCEPT !.alone = FALSE]]
  BY DEF StartCall
<1>2. [Call(stage, id, found, todo) EXCEPT !.alone = (Busy = {})]
        = [at |-> stage, id |-> id, found |-> found, todo |-> todo, alone |-> Busy = {}]
  BY DEF Call
<1>3. \A d \in RTask : [task[d] EXCEPT !.alone = FALSE]
        = [at |-> task[d].at, id |-> task[d].id, found |-> task[d].found,
                   todo |-> task[d].todo, alone |-> FALSE]
  BY Updates DEF RcInv, RcTypeOK
<1> QED
  BY <1>1, <1>2, <1>3 DEF Begun

\* What To and Done do.
LEMMA ToMoves ==
  ASSUME RcInv, NEW c \in RTask, NEW stage, NEW id, NEW found, NEW todo, To(c, stage, id, found, todo)
  PROVE  Moved(c, stage, id, found, todo, task[c].alone)
  BY DEF To, Moved, RcInv, RcTypeOK

LEMMA DoneMoves ==
  ASSUME RcInv, NEW c \in RTask, Done(c)
  PROVE  Moved(c, "idle", NoSession, <<>>, {}, TRUE)
  BY DEF Done, NoTask, Call, Moved, RcInv, RcTypeOK

\* What the others know after a step of call c.
After(c, stage, id, found, todo) ==
  /\ task' = [d \in RTask |-> task'[d]]
  /\ \A d \in RTask : Shaped(task'[d])
  /\ task'[c].at = stage /\ task'[c].id = id /\ task'[c].found = found /\ task'[c].todo = todo
  /\ stage # "idle" /\ task'[c].alone => \A d \in RTask \ {c} : task[d].at = "idle"
  /\ \A d \in RTask \ {c} :
       /\ task'[d].at = task[d].at /\ task'[d].id = task[d].id
       /\ task'[d].found = task[d].found /\ task'[d].todo = task[d].todo
       /\ task'[d].alone => task[d].alone

\* Both leave the other calls as they are, but for their solitude.
LEMMA BegunAfter ==
  ASSUME RcInv, NEW c \in RTask, NEW stage, NEW id, NEW found, NEW todo, Begun(c, stage, id, found, todo)
  PROVE  After(c, stage, id, found, todo) /\ Lonely'
<1>1. /\ task'[c].at = stage /\ task'[c].id = id /\ task'[c].found = found /\ task'[c].todo = todo
      /\ task'[c].alone = (Busy = {}) /\ Shaped(task'[c])
  BY DEF Begun, Shaped
<1>2. ASSUME NEW d \in RTask \ {c}
      PROVE  /\ task'[d].at = task[d].at /\ task'[d].id = task[d].id
             /\ task'[d].found = task[d].found /\ task'[d].todo = task[d].todo
             /\ task'[d].alone = FALSE /\ Shaped(task'[d])
  BY DEF Begun, Shaped
<1>3. Busy = {} => \A d \in RTask : task[d].at = "idle"
  BY DEF Busy
<1>4. After(c, stage, id, found, todo)
  <2>1. task' = [d \in RTask |-> task'[d]]
    BY DEF Begun
  <2>2. \A d \in RTask : Shaped(task'[d])
    BY <1>1, <1>2
  <2> QED
    BY <1>1, <1>2, <1>3, <2>1, <2>2 DEF After
<1>5. Lonely'
  BY <1>1, <1>2, <1>3 DEF Lonely
<1> QED
  BY <1>4, <1>5

LEMMA MovedAfter ==
  ASSUME RcInv, NEW c \in RTask, NEW stage, NEW id, NEW found, NEW todo, NEW alone,
         task[c].at # "idle", stage = "idle" \/ alone = task[c].alone,
         Moved(c, stage, id, found, todo, alone)
  PROVE  After(c, stage, id, found, todo) /\ Lonely'
<1>1. /\ task'[c].at = stage /\ task'[c].id = id /\ task'[c].found = found /\ task'[c].todo = todo
      /\ task'[c].alone = alone /\ Shaped(task'[c])
  BY DEF Moved, Shaped
<1>2. \A d \in RTask \ {c} : task'[d] = task[d] /\ Shaped(task[d])
  BY DEF Moved, RcInv, RcTypeOK
<1>3. Lonely
  BY DEF RcInv
<1>4. After(c, stage, id, found, todo)
  <2>1. task' = [d \in RTask |-> task'[d]]
    BY DEF Moved
  <2>2. \A d \in RTask : Shaped(task'[d])
    BY <1>1, <1>2
  <2>3. stage # "idle" /\ task'[c].alone => \A d \in RTask \ {c} : task[d].at = "idle"
    BY <1>1, <1>3 DEF Lonely
  <2> QED
    BY <1>1, <1>2, <2>1, <2>2, <2>3 DEF After
<1>5. Lonely'
  BY <1>1, <1>2, <1>3 DEF Lonely
<1> QED
  BY <1>4, <1>5

\* Each command keeps the invariant: the steps of the session calls ...
LEMMA CreateSetKeeps == ASSUME RcInv, NEW c \in RTask, NEW s \in RSession, CreateSet(c, s) PROVE RcInv'
<1>1. After(c, "sadd", s, <<>>, {}) /\ Lonely' /\ task[c].at = "idle"
  <2>1. Begun(c, "sadd", s, <<>>, {})
    BY StartBegins DEF CreateSet
  <2>2. task[c].at = "idle"
    BY <2>1 DEF Begun
  <2> QED
    BY <2>1, <2>2, BegunAfter
<1> USE DEF RcInv, CreateSet, After, SetEx
<1>2. RcTypeOK'
  <2>1. rNow + RLife \in Int
    BY RedisAssumption DEF RcTypeOK
  <2>2. \A x \in DOMAIN keys' : keys'[x].expires \in Int
    BY <2>1 DEF RcTypeOK
  <2> QED
    BY <1>1, <2>2 DEF RcTypeOK
<1>3. Placed'
  BY <1>1 DEF RcTypeOK, Placed, Purging
<1>4. Purging'
  BY <1>1 DEF RcTypeOK, Purging, Lonely
<1>5. ScansOwe'
  BY <1>1 DEF ScansOwe
<1>6. ReadsAreCurrent' /\ ScanLeavesNothing'
  BY DEF ReadsAreCurrent, ScanLeavesNothing
<1> QED
  BY <1>1, <1>2, <1>3, <1>4, <1>5, <1>6

LEMMA CreateAddKeeps == ASSUME RcInv, NEW c \in RTask, NEW ok \in BOOLEAN, CreateAdd(c, ok) PROVE RcInv'
<1>1. After(c, "idle", NoSession, <<>>, {}) /\ Lonely' /\ task[c].at # "idle"
  BY DoneMoves, MovedAfter DEF CreateAdd
<1> USE DEF RcInv, CreateAdd, After
<1>2. RcTypeOK'
  BY <1>1 DEF RcTypeOK
<1>3. Placed'
  <2> DEFINE s == task[c].id
  <2>1. /\ s \in RSession /\ RTenantOf[s] \in RTenants /\ keys' = keys
        /\ \/ owned' = [owned EXCEPT ![RTenantOf[s]] = @ \union {s}] /\ orphans' = orphans
           \/ orphans' = orphans \union {s} /\ owned' = owned
    BY DEF RcTypeOK, RTenants
  <2>2. owned \in [RTenants -> SUBSET drawn]
    BY DEF RcTypeOK
  <2>3. \A x \in DOMAIN keys' : x # s => \A d \in RTask :
          task[d].at \in {"sadd", "del"} /\ task[d].id = x => task'[d].at \in {"sadd", "del"} /\ task'[d].id = x
    BY <1>1
  <2>4. \A t \in RTenants : owned[t] \subseteq owned'[t]
    BY <2>1, <2>2
  <2>5. s \in owned'[RTenantOf[s]] \/ s \in orphans'
    BY <2>1, <2>2
  <2>6. \A x \in DOMAIN keys : RTenantOf[x] \in RTenants
    BY DEF RcTypeOK, RTenants
  <2> HIDE DEF RcInv, CreateAdd, After, s
  <2> QED
    BY <2>1, <2>3, <2>4, <2>5, <2>6 DEF RcInv, Placed
<1>4. Purging'
  BY <1>1 DEF RcTypeOK, Purging, Lonely
<1>5. ScansOwe'
  BY <1>1 DEF ScansOwe
<1>6. ReadsAreCurrent' /\ ScanLeavesNothing'
  BY DEF ReadsAreCurrent, ScanLeavesNothing
<1> QED
  BY <1>1, <1>2, <1>3, <1>4, <1>5, <1>6

LEMMA DropExpiredKeeps == ASSUME RcInv, NEW c \in RTask, NEW ok \in BOOLEAN, DropExpired(c, ok) PROVE RcInv'
<1>1. After(c, "idle", NoSession, <<>>, {}) /\ Lonely' /\ task[c].at # "idle"
  BY DoneMoves, MovedAfter DEF DropExpired
<1> USE DEF RcInv, DropExpired, After, Del
<1>2. RcTypeOK'
  BY <1>1 DEF RcTypeOK
<1>3. Placed'
  BY <1>1 DEF RcTypeOK, Placed, Purging
<1>4. Purging'
  BY <1>1 DEF RcTypeOK, Purging, Lonely
<1>5. ScansOwe'
  BY <1>1 DEF ScansOwe
<1>6. ReadsAreCurrent' /\ ScanLeavesNothing'
  BY DEF ReadsAreCurrent, ScanLeavesNothing
<1> QED
  BY <1>1, <1>2, <1>3, <1>4, <1>5, <1>6

LEMMA TouchWriteKeeps == ASSUME RcInv, NEW c \in RTask, NEW ok \in BOOLEAN, TouchWrite(c, ok) PROVE RcInv'
<1>1. After(c, "idle", NoSession, <<>>, {}) /\ Lonely' /\ task[c].at # "idle"
  BY DoneMoves, MovedAfter DEF TouchWrite
<1> USE DEF RcInv, TouchWrite, After, SetEx, Live
<1>2. RcTypeOK'
  BY <1>1 DEF RcTypeOK
<1>3. Placed'
  BY <1>1 DEF RcTypeOK, Placed, Purging
<1>4. Purging'
  BY <1>1 DEF RcTypeOK, Purging, Lonely
<1>5. ScansOwe'
  BY <1>1 DEF ScansOwe
<1>6. ReadsAreCurrent' /\ ScanLeavesNothing'
  BY DEF ReadsAreCurrent, ScanLeavesNothing
<1> QED
  BY <1>1, <1>2, <1>3, <1>4, <1>5, <1>6

LEMMA DeleteRemoveKeeps == ASSUME RcInv, NEW c \in RTask, NEW ok \in BOOLEAN, DeleteRemove(c, ok) PROVE RcInv'
<1>1. After(c, "del", task[c].id, <<>>, {}) /\ Lonely' /\ task[c].at # "idle"
  BY ToMoves, MovedAfter DEF DeleteRemove
<1> USE DEF RcInv, DeleteRemove, After
<1>2. RcTypeOK'
  BY <1>1 DEF RcTypeOK
<1>3. Placed'
  BY <1>1 DEF RcTypeOK, Placed, Purging
<1>4. Purging'
  BY <1>1 DEF RcTypeOK, Purging, Lonely
<1>5. ScansOwe'
  BY <1>1 DEF ScansOwe
<1>6. ReadsAreCurrent' /\ ScanLeavesNothing'
  BY DEF ReadsAreCurrent, ScanLeavesNothing
<1> QED
  BY <1>1, <1>2, <1>3, <1>4, <1>5, <1>6

LEMMA DeleteKeyKeeps == ASSUME RcInv, NEW c \in RTask, NEW ok \in BOOLEAN, DeleteKey(c, ok) PROVE RcInv'
<1>1. After(c, "idle", NoSession, <<>>, {}) /\ Lonely' /\ task[c].at # "idle"
  BY DoneMoves, MovedAfter DEF DeleteKey
<1> USE DEF RcInv, DeleteKey, After, Del
<1>2. RcTypeOK'
  BY <1>1 DEF RcTypeOK
<1>3. Placed'
  BY <1>1 DEF RcTypeOK, Placed, Purging
<1>4. Purging'
  BY <1>1 DEF RcTypeOK, Purging, Lonely
<1>5. ScansOwe'
  BY <1>1 DEF ScansOwe
<1>6. ReadsAreCurrent' /\ ScanLeavesNothing'
  BY DEF ReadsAreCurrent, ScanLeavesNothing
<1> QED
  BY <1>1, <1>2, <1>3, <1>4, <1>5, <1>6

LEMMA PurgeReadKeeps == ASSUME RcInv, NEW c \in RTask, NEW t \in RTenants, PurgeRead(c, t) PROVE RcInv'
<1>1. After(c, "purge", t, owned[t], owned[t]) /\ Lonely' /\ task[c].at = "idle"
  <2>1. Begun(c, "purge", t, owned[t], owned[t])
    BY StartBegins DEF PurgeRead
  <2>2. task[c].at = "idle"
    BY <2>1 DEF Begun
  <2> QED
    BY <2>1, <2>2, BegunAfter
<1> USE DEF RcInv, PurgeRead, After
<1>2. RcTypeOK'
  BY <1>1 DEF RcTypeOK
<1>3. Placed'
  BY <1>1 DEF RcTypeOK, Placed, Purging
<1>4. Purging'
  BY <1>1 DEF RcTypeOK, Purging, Lonely
<1>5. ScansOwe'
  BY <1>1 DEF ScansOwe
<1>6. ReadsAreCurrent' /\ ScanLeavesNothing'
  BY DEF ReadsAreCurrent, ScanLeavesNothing
<1> QED
  BY <1>1, <1>2, <1>3, <1>4, <1>5, <1>6

LEMMA PurgeKeyKeeps == ASSUME RcInv, NEW c \in RTask, NEW s \in RSession, NEW ok \in BOOLEAN, PurgeKey(c, s, ok) PROVE RcInv'
<1>0. Moved(c, "purge", task[c].id, task[c].found, task[c].todo \ {s}, task[c].alone)
  BY ToMoves DEF PurgeKey
<1>1. After(c, "purge", task[c].id, task[c].found, task[c].todo \ {s}) /\ Lonely' /\ task[c].at # "idle"
  BY <1>0, MovedAfter DEF PurgeKey
<1> USE DEF RcInv, PurgeKey, After, Del
<1>2. RcTypeOK'
  BY <1>1 DEF RcTypeOK
<1>3. Placed'
  BY <1>1 DEF RcTypeOK, Placed, Purging
<1>4. Purging'
  <2>1. /\ DOMAIN keys' \subseteq DOMAIN keys /\ orphans \subseteq orphans'
        /\ s \notin DOMAIN keys' \/ s \in orphans'
        /\ owned' = owned /\ drawn' = drawn
    OBVIOUS
  <2>2. /\ task[c].at = "purge" /\ s \in task[c].todo
        /\ task[c].found \ (task[c].todo \ {s}) = (task[c].found \ task[c].todo) \union {s}
    BY DEF Purging
  <2>3. Purging /\ After(c, "purge", task[c].id, task[c].found, task[c].todo \ {s})
    BY <1>1
  <2>4. task'[c].alone => task[c].alone
    <3>1. Moved(c, "purge", task[c].id, task[c].found, task[c].todo \ {s}, task[c].alone)
      BY <1>0
    <3> QED
      BY <3>1 DEF Moved
  <2> HIDE DEF RcInv, PurgeKey, Del
  <2>5. ASSUME NEW d \in RTask, task'[d].at = "purge"
        PROVE  /\ task'[d].id \in RTenants
               /\ task'[d].todo \subseteq task'[d].found /\ task'[d].found \subseteq drawn'
               /\ \A x \in task'[d].found : RTenantOf[x] = task'[d].id
               /\ \A x \in task'[d].found \ task'[d].todo : x \notin DOMAIN keys' \/ x \in orphans'
               /\ task'[d].alone => owned'[task'[d].id] \subseteq task'[d].found
    BY <2>1, <2>2, <2>3, <2>4, <2>5 DEF Purging, After
  <2> QED
    BY <2>5 DEF Purging
<1>5. ScansOwe'
  BY <1>1 DEF ScansOwe
<1>6. ReadsAreCurrent' /\ ScanLeavesNothing'
  BY DEF ReadsAreCurrent, ScanLeavesNothing
<1> QED
  BY <1>1, <1>2, <1>3, <1>4, <1>5, <1>6

LEMMA PurgeSetKeeps == ASSUME RcInv, NEW c \in RTask, NEW ok \in BOOLEAN, PurgeSet(c, ok) PROVE RcInv'
<1>1. After(c, "idle", NoSession, <<>>, {}) /\ Lonely' /\ task[c].at # "idle"
  BY DoneMoves, MovedAfter DEF PurgeSet
<1> USE DEF RcInv, PurgeSet, After
<1>2. RcTypeOK'
  BY <1>1 DEF RcTypeOK
<1>3. Placed'
  <2>1. CASE ok
    <3> DEFINE t == task[c].id
    <3>1. /\ owned' = [owned EXCEPT ![t] = {}] /\ keys' = keys
          /\ orphans' = orphans \union (owned[t] \ task[c].found)
      BY <2>1
    <3>2. owned \in [RTenants -> SUBSET drawn]
      BY DEF RcTypeOK
    <3>3. \A x \in DOMAIN keys : x \in task[c].found => x \in orphans
      BY DEF Purging
    <3>4. \A x \in DOMAIN keys : RTenantOf[x] \in RTenants
      BY DEF RcTypeOK, RTenants
    <3>5. \A x \in DOMAIN keys : \A d \in RTask :
          task[d].at \in {"sadd", "del"} /\ task[d].id = x => task'[d].at \in {"sadd", "del"} /\ task'[d].id = x
      BY <1>1
    <3> HIDE DEF RcInv, PurgeSet, After, t
    <3>6. \A x \in DOMAIN keys : x \in owned[RTenantOf[x]] => x \in owned'[RTenantOf[x]] \/ x \in orphans'
      BY <3>1, <3>2, <3>3, <3>4
    <3> QED
      BY <3>1, <3>5, <3>6 DEF RcInv, Placed
  <2>2. CASE ~ok
    BY <1>1, <2>2 DEF RcTypeOK, Placed
  <2> QED
    BY <2>1, <2>2
<1>4. Purging'
  BY <1>1 DEF RcTypeOK, Purging, Lonely
<1>5. ScansOwe'
  BY <1>1 DEF ScansOwe
<1>6. ReadsAreCurrent' /\ ScanLeavesNothing'
  BY DEF ReadsAreCurrent, ScanLeavesNothing
<1> QED
  BY <1>1, <1>2, <1>3, <1>4, <1>5, <1>6

\* ... those of a scan ...
LEMMA StartScanKeeps == ASSUME RcInv, NEW c \in RTask, StartScan(c) PROVE RcInv'
<1>1. After(c, "scan", NoSession, rviews \intersect RPattern, rviews \intersect RPattern) /\ Lonely' /\ task[c].at = "idle"
  <2>1. Begun(c, "scan", NoSession, rviews \intersect RPattern, rviews \intersect RPattern)
    BY StartBegins DEF StartScan
  <2>2. task[c].at = "idle"
    BY <2>1 DEF Begun
  <2> QED
    BY <2>1, <2>2, BegunAfter
<1> USE DEF RcInv, StartScan, After
<1>2. RcTypeOK'
  BY <1>1 DEF RcTypeOK
<1>3. Placed'
  BY <1>1 DEF RcTypeOK, Placed, Purging
<1>4. Purging'
  BY <1>1 DEF RcTypeOK, Purging, Lonely
<1>5. ScansOwe'
  BY <1>1 DEF ScansOwe
<1>6. ReadsAreCurrent' /\ ScanLeavesNothing'
  BY DEF ReadsAreCurrent, ScanLeavesNothing
<1> QED
  BY <1>1, <1>2, <1>3, <1>4, <1>5, <1>6

LEMMA ReadSessionKeeps == ASSUME RcInv, NEW c \in RTask, NEW s \in RSession, ReadSession(c, s) PROVE RcInv'
<1>1. PICK stage, id : /\ After(c, stage, id, <<>>, {}) /\ Lonely' /\ task[c].at = "idle"
                       /\ stage = "idle" \/ (stage = "drop" /\ id = s /\ s \in DOMAIN keys)
  <2>1. \/ StartCall(c, Call("drop", s, <<>>, {})) /\ s \in DOMAIN keys
        \/ StartCall(c, Call("idle", NoSession, <<>>, {}))
    BY DEF ReadSession, NoTask, Live
  <2>2. \/ Begun(c, "drop", s, <<>>, {}) /\ s \in DOMAIN keys
        \/ Begun(c, "idle", NoSession, <<>>, {})
    BY <2>1, StartBegins
  <2>3. task[c].at = "idle"
    BY <2>2 DEF Begun
  <2> QED
    BY <2>2, <2>3, BegunAfter
<1>2. UNCHANGED <<rNow, keys, owned, rviews, drawn, orphans, leftover>>
  BY DEF ReadSession
<1>3. RcTypeOK'
  BY <1>1, <1>2 DEF RcInv, RcTypeOK, After
<1>4. Placed' /\ Purging' /\ ScansOwe' /\ ScanLeavesNothing'
  BY <1>1, <1>2 DEF RcInv, Placed, Purging, ScansOwe, ScanLeavesNothing, After
<1>5. ReadsAreCurrent'
  BY DEF RcInv, RcTypeOK, ReadsAreCurrent, ReadSession, Live
<1> QED
  BY <1>1, <1>3, <1>4, <1>5 DEF RcInv

LEMMA TouchReadKeeps == ASSUME RcInv, NEW c \in RTask, NEW s \in RSession, TouchRead(c, s) PROVE RcInv'
<1> DEFINE found == <<keys[s].expires, WholeSeconds(keys[s].expires - rNow)>>
<1>1. After(c, "setex", s, found, {}) /\ Lonely' /\ task[c].at = "idle"
  <2>1. Begun(c, "setex", s, found, {})
    BY StartBegins DEF TouchRead
  <2>2. task[c].at = "idle"
    BY <2>1 DEF Begun
  <2> QED
    BY <2>1, <2>2, BegunAfter
<1>2. s \in DOMAIN keys /\ found[1] \in Int
  BY DEF TouchRead, Live, RcInv, RcTypeOK
<1> HIDE DEF found
<1>3. UNCHANGED <<rNow, keys, owned, rviews, drawn, orphans, returned, leftover>>
  BY DEF TouchRead
<1>4. RcTypeOK'
  BY <1>1, <1>2, <1>3 DEF RcInv, RcTypeOK, After
<1>5. Placed' /\ Purging' /\ ScansOwe' /\ ScanLeavesNothing' /\ ReadsAreCurrent'
  BY <1>1, <1>3 DEF RcInv, Placed, Purging, ScansOwe, ScanLeavesNothing, ReadsAreCurrent, After
<1> QED
  BY <1>1, <1>4, <1>5 DEF RcInv

LEMMA DeleteReadKeeps == ASSUME RcInv, NEW c \in RTask, NEW s \in RSession, DeleteRead(c, s) PROVE RcInv'
<1>1. PICK stage \in {"srem", "del"} : After(c, stage, s, <<>>, {}) /\ Lonely' /\ task[c].at = "idle"
  <2>1. PICK stage \in {"srem", "del"} : StartCall(c, Call(stage, s, <<>>, {}))
    BY DEF DeleteRead
  <2>2. Begun(c, stage, s, <<>>, {})
    BY <2>1, StartBegins
  <2>3. task[c].at = "idle"
    BY <2>2 DEF Begun
  <2> QED
    BY <2>2, <2>3, BegunAfter
<1>2. UNCHANGED <<rNow, keys, owned, rviews, drawn, orphans, returned, leftover>> /\ s \in drawn
  BY DEF DeleteRead
<1>3. RcTypeOK'
  BY <1>1, <1>2 DEF RcInv, RcTypeOK, After
<1>4. Placed' /\ Purging' /\ ScansOwe' /\ ScanLeavesNothing' /\ ReadsAreCurrent'
  BY <1>1, <1>2 DEF RcInv, Placed, Purging, ScansOwe, ScanLeavesNothing, ReadsAreCurrent, After
<1> QED
  BY <1>1, <1>3, <1>4 DEF RcInv

LEMMA ScanPageKeeps == ASSUME RcInv, NEW c \in RTask, NEW page \in SUBSET RPattern, ScanPage(c, page) PROVE RcInv'
<1>1. UNCHANGED <<rNow, keys, owned, rviews, drawn, orphans, returned, leftover>> /\ task[c].at = "scan"
  BY DEF ScanPage
<1>2. PICK stage, id, found, todo :
        /\ After(c, stage, id, found, todo) /\ Lonely'
        /\ \/ stage = "idle"
           \/ stage = "unlink" /\ id = page /\ found = task[c].found /\ todo = task[c].todo \ page
  <2>1. CASE Done(c)
    BY <1>1, <2>1, DoneMoves, MovedAfter
  <2>2. CASE To(c, "unlink", page, task[c].found, task[c].todo \ page)
    <3>1. Moved(c, "unlink", page, task[c].found, task[c].todo \ page, task[c].alone)
      BY <2>2, ToMoves
    <3>2. After(c, "unlink", page, task[c].found, task[c].todo \ page) /\ Lonely'
      BY <1>1, <3>1, MovedAfter
    <3> QED
      BY <3>2
  <2> QED
    BY <2>1, <2>2 DEF ScanPage
<1>3. RcTypeOK'
  BY <1>1, <1>2 DEF RcInv, RcTypeOK, After
<1>4. Placed' /\ Purging' /\ ScansOwe' /\ ScanLeavesNothing' /\ ReadsAreCurrent'
  BY <1>1, <1>2 DEF RcInv, Placed, Purging, ScansOwe, ScanLeavesNothing, ReadsAreCurrent, After
<1> QED
  BY <1>2, <1>3, <1>4 DEF RcInv

LEMMA UnlinkKeeps == ASSUME RcInv, NEW c \in RTask, NEW ok \in BOOLEAN, Unlink(c, ok) PROVE RcInv'
<1> DEFINE page == task[c].id
           kept == IF ok THEN task[c].found ELSE task[c].found \ page
<1>1. /\ UNCHANGED <<rNow, keys, owned, drawn, orphans, returned>> /\ task[c].at = "unlink"
      /\ rviews' = IF ok THEN rviews \ page ELSE rviews
  BY DEF Unlink
<1>2. task[c].found \intersect rviews \subseteq task[c].todo \union page
  BY <1>1 DEF RcInv, ScansOwe
<1>3. kept \intersect rviews' \subseteq task[c].todo
  BY <1>1, <1>2
<1>4. PICK stage, id, found, todo :
        /\ After(c, stage, id, found, todo) /\ Lonely'
        /\ \/ stage = "idle" /\ task[c].todo = {} /\ leftover' = leftover \union (kept \intersect rviews')
           \/ stage = "scan" /\ found = kept /\ todo = task[c].todo /\ leftover' = leftover
  <2>1. CASE task[c].todo = {} /\ Done(c) /\ leftover' = leftover \union (kept \intersect rviews')
    BY <1>1, <2>1, DoneMoves, MovedAfter
  <2>2. CASE To(c, "scan", NoSession, kept, task[c].todo) /\ leftover' = leftover
    <3> HIDE DEF kept
    <3>1. Moved(c, "scan", NoSession, kept, task[c].todo, task[c].alone)
      BY <2>2, ToMoves
    <3>2. After(c, "scan", NoSession, kept, task[c].todo) /\ Lonely'
      BY <1>1, <3>1, MovedAfter
    <3> QED
      BY <2>2, <3>2
  <2> QED
    BY <2>1, <2>2 DEF Unlink
<1> HIDE DEF kept
<1>5. RcTypeOK'
  BY <1>1, <1>4 DEF RcInv, RcTypeOK, After
<1>6. ScansOwe'
  BY <1>1, <1>3, <1>4 DEF RcInv, ScansOwe, After
<1>7. Placed' /\ Purging' /\ ReadsAreCurrent'
  BY <1>1, <1>4 DEF RcInv, Placed, Purging, ReadsAreCurrent, After
<1>8. ScanLeavesNothing'
  BY <1>3, <1>4 DEF RcInv, ScanLeavesNothing
<1> QED
  BY <1>4, <1>5, <1>6, <1>7, <1>8 DEF RcInv

\* ... and what takes a single command.
LEMMA PutKeyKeeps == ASSUME RcInv, NEW k \in RKey, PutKey(k) PROVE RcInv'
<1>1. /\ UNCHANGED <<rNow, keys, owned, drawn, orphans, returned, leftover>>
      /\ rviews' = rviews \union {k} /\ task' = [c \in RTask |-> task'[c]]
  BY DEF PutKey
<1>2. ASSUME NEW c \in RTask
      PROVE  /\ Shaped(task'[c]) /\ task'[c].at = task[c].at /\ task'[c].id = task[c].id
             /\ task'[c].todo = task[c].todo /\ task'[c].alone = task[c].alone
             /\ IF task[c].at \in Scanning THEN task'[c].found = task[c].found \ {k}
                                            ELSE task'[c].found = task[c].found
  <2>1. Shaped(task[c])
    BY DEF RcInv, RcTypeOK
  <2>2. CASE task[c].at \in Scanning
    <3>1. task'[c] = [task[c] EXCEPT !.found = task[c].found \ {k}]
      BY <2>2 DEF PutKey
    <3>2. task'[c] = [at |-> task[c].at, id |-> task[c].id, found |-> task[c].found \ {k},
                      todo |-> task[c].todo, alone |-> task[c].alone]
      BY <2>1, <3>1, Updates
    <3> QED
      BY <2>2, <3>2 DEF Shaped
  <2>3. CASE task[c].at \notin Scanning
    BY <2>1, <2>3 DEF PutKey
  <2> QED
    BY <2>2, <2>3
<1>3. RcTypeOK'
  BY <1>1, <1>2 DEF RcInv, RcTypeOK, Scanning
<1>4. ScansOwe'
  BY <1>1, <1>2 DEF RcInv, ScansOwe, Scanning
<1>5. Placed' /\ Purging' /\ Lonely' /\ ReadsAreCurrent' /\ ScanLeavesNothing'
  BY <1>1, <1>2 DEF RcInv, Placed, Purging, Lonely, ReadsAreCurrent, ScanLeavesNothing, Scanning
<1> QED
  BY <1>3, <1>4, <1>5 DEF RcInv

LEMMA RcOtherKeeps ==
  ASSUME RcInv, RTick \/ UNCHANGED rcvars \/ \E k \in RKey : InvalidateKey(k)
  PROVE  RcInv'
<1>1. /\ UNCHANGED <<keys, owned, task, drawn, orphans, returned, leftover>>
      /\ rviews' \subseteq rviews /\ rNow' \in Nat
  BY DEF RTick, InvalidateKey, rcvars, RcInv, RcTypeOK
<1> QED
  BY <1>1 DEF RcInv, RcTypeOK, Placed, Purging, Lonely, ScansOwe, ReadsAreCurrent, ScanLeavesNothing

-----------------------------------------------------------------------------
LEMMA RcInitInv == RcInit => RcInv
<1> SUFFICES ASSUME RcInit PROVE RcInv
  OBVIOUS
<1>1. /\ task = [c \in RTask |-> task[c]]
      /\ \A c \in RTask : Shaped(task[c]) /\ task[c].at = "idle"
  BY DEF RcInit, NoTask, Call, Shaped
<1> QED
  BY <1>1 DEF RcInit, RcInv, RcTypeOK, Placed, Purging, Lonely, ScansOwe, ReadsAreCurrent, ScanLeavesNothing

LEMMA RcNextKeeps == ASSUME RcInv, [RcNext]_rcvars PROVE RcInv'
<1>1. ASSUME RSessionStep PROVE RcInv'
  BY <1>1, CreateSetKeeps, ReadSessionKeeps, TouchReadKeeps, DeleteReadKeeps, CreateAddKeeps,
     DeleteRemoveKeeps, DeleteKeyKeeps, DropExpiredKeeps, TouchWriteKeeps, PurgeSetKeeps,
     PurgeReadKeeps, PurgeKeyKeeps DEF RSessionStep
<1>2. ASSUME RViewStep PROVE RcInv'
  BY <1>2, StartScanKeeps, ScanPageKeeps, UnlinkKeeps, PutKeyKeeps, RcOtherKeeps DEF RViewStep
<1> QED
  BY <1>1, <1>2, RcOtherKeeps DEF RcNext

\* A purge alone finds all of its tenant's sessions listed, and has dealt with each.
LEMMA PurgeCompletes ==
  ASSUME RcInv, [RcNext]_rcvars, NEW c \in RTask,
         task[c].at = "purge", task'[c].at = "idle", task[c].alone, NEW s \in DOMAIN keys'
  PROVE  RTenantOf[s] # task[c].id \/ s \in orphans
<1>1. PICK ok \in BOOLEAN : PurgeSet(c, ok)
  <2>1. ASSUME NEW d \in RTask, d # c,
               Done(d) \/ \E a, i, f, t : To(d, a, i, f, t)
        PROVE  FALSE
    BY <2>1 DEF To, Done, RcInv, RcTypeOK
  <2>2. ASSUME NEW d \in RTask, NEW r, StartCall(d, r)
        PROVE  FALSE
    <3>1. task[d].at = "idle" /\ task'[c] = [task[c] EXCEPT !.alone = FALSE]
      BY <2>2 DEF StartCall
    <3> QED
      BY <3>1, Updates DEF RcInv, RcTypeOK
  <2>3. task' # task
    OBVIOUS
  <2>4. ~\E k \in RKey : PutKey(k) \/ InvalidateKey(k)
    <3>1. Shaped(task[c]) /\ task[c].at \notin Scanning
      BY DEF RcInv, RcTypeOK, Scanning
    <3> QED
      BY <2>3, <3>1 DEF PutKey, InvalidateKey
  <2>5. ASSUME RViewStep \/ RTick \/ UNCHANGED rcvars
        PROVE  FALSE
    BY <2>1, <2>2, <2>3, <2>4, <2>5 DEF RViewStep, StartScan, ScanPage, Unlink, RTick, rcvars
  <2>6. ASSUME NEW d \in RTask, NEW x \in RSession,
               CreateSet(d, x) \/ ReadSession(d, x) \/ TouchRead(d, x) \/ DeleteRead(d, x)
        PROVE  FALSE
    BY <2>2, <2>6 DEF CreateSet, ReadSession, TouchRead, DeleteRead
  <2>7. ASSUME NEW d \in RTask, NEW ok \in BOOLEAN,
               \/ CreateAdd(d, ok) \/ DeleteRemove(d, ok) \/ DeleteKey(d, ok)
               \/ DropExpired(d, ok) \/ TouchWrite(d, ok)
        PROVE  FALSE
    BY <2>1, <2>7 DEF CreateAdd, DeleteRemove, DeleteKey, DropExpired, TouchWrite
  <2>8. ASSUME NEW d \in RTask, NEW t \in RTenants, PurgeRead(d, t)
        PROVE  FALSE
    BY <2>2, <2>8 DEF PurgeRead
  <2>9. ASSUME NEW d \in RTask, NEW x \in RSession, NEW ok \in BOOLEAN, PurgeKey(d, x, ok)
        PROVE  FALSE
    BY <2>1, <2>9 DEF PurgeKey, To, RcInv, RcTypeOK
  <2>10. ASSUME NEW d \in RTask, NEW ok \in BOOLEAN, PurgeSet(d, ok)
        PROVE  d = c
    BY <2>1, <2>10 DEF PurgeSet
  <2> QED
    BY <2>5, <2>6, <2>7, <2>8, <2>9, <2>10 DEF RcNext, RSessionStep
<1>2. /\ keys' = keys /\ task[c].todo = {}
      /\ owned[task[c].id] \subseteq task[c].found
      /\ \A x \in task[c].found : x \notin DOMAIN keys \/ x \in orphans
  BY <1>1 DEF PurgeSet, RcInv, Purging
<1>3. \A d \in RTask : task[d].at \notin {"sadd", "del"}
  BY DEF RcInv, Lonely
<1>4. s \in owned[RTenantOf[s]] \/ s \in orphans
  BY <1>2, <1>3 DEF RcInv, Placed
<1> QED
  BY <1>2, <1>4

(* Whatever the calls, their interleaving and the commands that fail: what *)
(* get returns has not expired, a scan leaves nothing behind, and a purge  *)
(* that no call overlaps takes every listed session of its tenant.         *)
THEOREM RemoteCacheIsSound == RcSpec => RemoteCacheHolds
<1>1. RcInv /\ [RcNext]_rcvars => RcInv'
  BY RcNextKeeps
<1>2. RcInv /\ [RcNext]_rcvars =>
        [\A c \in RTask : task[c].at = "purge" /\ task'[c].at = "idle" /\ task[c].alone =>
           \A s \in DOMAIN keys' : RTenantOf[s] # task[c].id \/ s \in orphans]_rcvars
  BY PurgeCompletes
<1>3. RcInv => ReadsAreCurrent /\ ScanLeavesNothing
  BY DEF RcInv
<1> QED
  BY <1>1, <1>2, <1>3, RcInitInv, PTL DEF RcSpec, RemoteCacheHolds, PurgeAloneIsComplete

-----------------------------------------------------------------------------
(***************************************************************************)
(* The tenant layers: every mix of routes, layers, headers and tokens, and *)
(* every pattern of failing statements and clients that go away.           *)
(***************************************************************************)
Places == {"context", "auth", "pool", "begin", "scope", "handler", "reply", "done", "gone"}
Tenants == ValidSlugs \union {Nothing}
RowType == [tenant : Tenants, by : Req]
TxnType == [state : {"idle", "open", "failed"}, scope : Tenants, rows : SUBSET RowType,
            opener : Req \union {Nothing}]

TnTypeOK ==
  /\ asks \in [Req -> Asks]
  /\ at \in [Req -> Places]
  /\ ctx \in [Req -> Tenants]
  /\ principal \in [Req -> Tenants]
  /\ held \in [Req -> Conn \union {Nothing}]
  /\ answer \in [Req -> {"none", "success", "failure"}]
  /\ statements \in [Req -> Nat]
  /\ txn \in [Conn -> TxnType]
  /\ rows \in SUBSET RowType

\* A request holds a connection, its own, from the pool to its answer; and only
\* a route that opens a transaction per call comes back between two of them.
Holding ==
  /\ \A r \in Req : held[r] # Nothing <=> at[r] \in {"begin", "scope", "handler", "reply"}
  /\ \A r, s \in Req : held[r] = held[s] /\ held[r] # Nothing => r = s
  /\ \A r \in Req : at[r] = "reply" => asks[r].layer # "request"

\* What a request finds on its connection: its own scope, or no transaction.
Scoped ==
  \A r \in Req :
    /\ at[r] \in {"scope", "handler"} => txn[held[r]].state # "idle"
    /\ at[r] = "handler" /\ txn[held[r]].state = "open" => txn[held[r]].scope = LayerTenant(r)
    /\ at[r] = "reply" => txn[held[r]].state = "idle"

\* An open transaction is that of the request that uses its connection, or was
\* left by one that went away.
Opened ==
  \A c \in Conn : txn[c].state # "idle" =>
    \/ txn[c].opener \in Abandoned
    \/ \E r \in Req : held[r] = c /\ txn[c].opener = r /\ at[r] \in {"scope", "handler"}

\* A row was written for the tenant its writer's database layer still has.
WrittenInContext ==
  \A row \in Written : row.tenant = LayerTenant(row.by) /\ at[row.by] \notin {"context", "auth"}

\* The writer of an uncommitted row is still at it or has gone; that of a
\* committed one has answered or has gone.
Accountable ==
  /\ \A c \in Conn : \A row \in txn[c].rows : asks[row.by].layer = "request" =>
       row.by \in Abandoned \/ (held[row.by] = c /\ at[row.by] = "handler")
  /\ \A row \in rows : asks[row.by].layer = "request" =>
       row.by \in Abandoned \/ (at[row.by] = "done" /\ answer[row.by] = "success")

TnInv ==
  /\ TnTypeOK
  /\ Holding
  /\ Scoped
  /\ Opened
  /\ WrittenInContext
  /\ Accountable
  /\ VerifiedTenantGoverns

-----------------------------------------------------------------------------
\* It holds before any request has been looked at.
LEMMA TnInitInv == TnInit => TnInv
  BY TenantAssumption DEF TnInit, TnInv, TnTypeOK, Holding, Scoped, Opened, WrittenInContext, Written, Accountable,
         VerifiedTenantGoverns, NoTxn, Places, Tenants, RowType, TxnType, Abandoned

\* The invariant says what TenantsConfined says.
LEMMA TnInvConfines == ASSUME TnInv PROVE TenantsConfined
<1>1. ASSUME NEW row \in Written
      PROVE  /\ row.tenant = LayerTenant(row.by)
             /\ (asks[row.by].route = "verified"
                  /\ (asks[row.by].layer = "request" \/ HeaderTenant(row.by) = principal[row.by]))
                  => row.tenant = principal[row.by]
  <2>1. row.by \in Req /\ row.tenant = LayerTenant(row.by) /\ at[row.by] \notin {"context", "auth"}
    BY <1>1 DEF TnInv, WrittenInContext, Written, TnTypeOK, TxnType, RowType
  <2>2. ASSUME asks[row.by].route = "verified", asks[row.by].layer = "request"
        PROVE  row.tenant = principal[row.by]
    <3>1. ~(at[row.by] = "done" /\ answer[row.by] = "failure")
      BY <1>1, <2>2 DEF TnInv, Accountable, Written, Abandoned
    <3> QED
      BY <2>1, <2>2, <3>1 DEF TnInv, VerifiedTenantGoverns, LayerTenant
  <2>3. ASSUME HeaderTenant(row.by) = principal[row.by], asks[row.by].route = "verified",
               asks[row.by].layer # "request"
        PROVE  row.tenant = principal[row.by]
    <3>1. asks[row.by].layer = "call"
      BY <2>1, <2>3, TenantAssumption DEF TnInv, TnTypeOK
    <3> QED
      BY <2>1, <2>3, <3>1 DEF LayerTenant
  <2> QED
    BY <2>1, <2>2, <2>3
<1>2. OnlyAnsweredWrites
  BY DEF TnInv, Accountable, OnlyAnsweredWrites
<1>3. FreeIsClean
  BY DEF TnInv, Opened, FreeIsClean, Free
<1> QED
  BY <1>1, <1>2, <1>3 DEF TnInv, TenantsConfined, RowsStayWithTenant

-----------------------------------------------------------------------------
(* Each step keeps it: one lemma per handler or layer.                     *)

LEMMA PassKeeps == ASSUME TnInv, Pass PROVE TnInv'
<1> USE TenantAssumption DEF TnInv, Pass, requestVars
<1>1. TnTypeOK'
  BY DEF TnTypeOK, Places, Tenants, RowType, TxnType
<1>2. Holding'
  BY DEF TnTypeOK, Holding
<1>3. Scoped'
  BY DEF TnTypeOK, Holding, Scoped, LayerTenant, HeaderTenant
<1>4. Opened'
  BY DEF TnTypeOK, Holding, Scoped, Opened, Abandoned
<1>5. WrittenInContext'
  BY DEF TnTypeOK, Holding, Scoped, WrittenInContext, Written, LayerTenant, HeaderTenant
<1>6. Accountable'
  BY DEF TnTypeOK, Holding, Accountable, Abandoned
<1>7. VerifiedTenantGoverns'
  BY DEF TnTypeOK, VerifiedTenantGoverns, LayerTenant, HeaderTenant
<1> QED
  BY <1>1, <1>2, <1>3, <1>4, <1>5, <1>6, <1>7

LEMMA ContextLayerKeeps == ASSUME TnInv, NEW r \in Req, ContextLayer(r) PROVE TnInv'
<1> USE TenantAssumption DEF TnInv, ContextLayer, HeaderTenant, Resolved
<1>1. TnTypeOK'
  BY DEF TnTypeOK, Places, Tenants, RowType, TxnType
<1>2. Holding'
  BY DEF TnTypeOK, Holding
<1>3. Scoped'
  BY DEF TnTypeOK, Holding, Scoped, LayerTenant, HeaderTenant
<1>4. Opened'
  BY DEF TnTypeOK, Holding, Scoped, Opened, Abandoned
<1>5. WrittenInContext'
  BY DEF TnTypeOK, Holding, Scoped, WrittenInContext, Written, LayerTenant, HeaderTenant
<1>6. Accountable'
  BY DEF TnTypeOK, Holding, Accountable, Abandoned
<1>7. VerifiedTenantGoverns'
  BY DEF TnTypeOK, VerifiedTenantGoverns, LayerTenant, HeaderTenant
<1> QED
  BY <1>1, <1>2, <1>3, <1>4, <1>5, <1>6, <1>7

LEMMA AuthLayerKeeps == ASSUME TnInv, NEW r \in Req, AuthLayer(r) PROVE TnInv'
<1> USE TenantAssumption DEF TnInv, AuthLayer, AuthVerdict, Verified, Resolved
<1>1. TnTypeOK'
  BY DEF TnTypeOK, Places, Tenants, RowType, TxnType
<1>2. Holding'
  BY DEF TnTypeOK, Holding
<1>3. Scoped'
  BY DEF TnTypeOK, Holding, Scoped, LayerTenant, HeaderTenant
<1>4. Opened'
  BY DEF TnTypeOK, Holding, Scoped, Opened, Abandoned
<1>5. WrittenInContext'
  BY DEF TnTypeOK, Holding, Scoped, WrittenInContext, Written, LayerTenant, HeaderTenant
<1>6. Accountable'
  BY DEF TnTypeOK, Holding, Accountable, Abandoned
<1>7. VerifiedTenantGoverns'
  BY DEF TnTypeOK, VerifiedTenantGoverns, LayerTenant, HeaderTenant
<1> QED
  BY <1>1, <1>2, <1>3, <1>4, <1>5, <1>6, <1>7

LEMMA UnservedKeeps == ASSUME TnInv, NEW r \in Req, Unserved(r) PROVE TnInv'
<1> USE TenantAssumption DEF TnInv, Unserved, Recontext, LayerTenant, HeaderTenant, Resolved
<1>1. TnTypeOK'
  BY DEF TnTypeOK, Places, Tenants, RowType, TxnType
<1>2. Holding'
  BY DEF TnTypeOK, Holding
<1>3. Scoped'
  BY DEF TnTypeOK, Holding, Scoped, LayerTenant, HeaderTenant
<1>4. Opened'
  BY DEF TnTypeOK, Holding, Scoped, Opened, Abandoned
<1>5. WrittenInContext'
  BY DEF TnTypeOK, Holding, Scoped, WrittenInContext, Written, LayerTenant, HeaderTenant
<1>6. Accountable'
  BY DEF TnTypeOK, Holding, Accountable, Abandoned
<1>7. VerifiedTenantGoverns'
  BY DEF TnTypeOK, VerifiedTenantGoverns, LayerTenant, HeaderTenant
<1> QED
  BY <1>1, <1>2, <1>3, <1>4, <1>5, <1>6, <1>7

LEMMA AcquireKeeps == ASSUME TnInv, NEW r \in Req, NEW c \in Conn, Acquire(r, c) PROVE TnInv'
<1> USE TenantAssumption DEF TnInv, Acquire, Free, Recontext, LayerTenant, HeaderTenant, Resolved
<1>1. TnTypeOK'
  BY DEF TnTypeOK, Places, Tenants, RowType, TxnType
<1>2. Holding'
  BY DEF TnTypeOK, Holding
<1>3. Scoped'
  BY DEF TnTypeOK, Holding, Scoped, LayerTenant, HeaderTenant
<1>4. Opened'
  BY DEF TnTypeOK, Holding, Scoped, Opened, Abandoned
<1>5. WrittenInContext'
  BY DEF TnTypeOK, Holding, Scoped, WrittenInContext, Written, LayerTenant, HeaderTenant
<1>6. Accountable'
  BY DEF TnTypeOK, Holding, Accountable, Abandoned
<1>7. VerifiedTenantGoverns'
  BY DEF TnTypeOK, VerifiedTenantGoverns, LayerTenant, HeaderTenant
<1> QED
  BY <1>1, <1>2, <1>3, <1>4, <1>5, <1>6, <1>7

LEMMA BeginKeeps == ASSUME TnInv, NEW r \in Req, Begin(r) PROVE TnInv'
<1> USE TenantAssumption DEF TnInv
<1> DEFINE fresh == [NoTxn EXCEPT !.state = "open", !.opener = r]
<1>0. /\ held[r] \in Conn /\ at[r] = "begin" /\ txn[held[r]].state \in {"idle", "open", "failed"}
      /\ fresh \in TxnType /\ fresh.rows = {} /\ fresh.state = "open" /\ fresh.opener = r
  BY DEF Begin, TnTypeOK, Holding, TxnType, Tenants, NoTxn
<1> HIDE DEF fresh
<1>1. CASE txn[held[r]].state = "failed"
  <2>0. /\ at' = [at EXCEPT ![r] = "done"] /\ answer' = [answer EXCEPT ![r] = "failure"]
        /\ held' = [held EXCEPT ![r] = Nothing]
        /\ UNCHANGED <<txn, clock, asks, ctx, principal, statements, rows>>
    BY <1>1 DEF Begin
  <2>1. TnTypeOK'
    BY <1>0, <2>0 DEF TnTypeOK, Places, Tenants, RowType, TxnType
  <2>2. Holding'
    BY <1>0, <2>0 DEF TnTypeOK, Holding
  <2>3. Scoped'
    BY <1>0, <2>0 DEF TnTypeOK, Holding, Scoped, LayerTenant, HeaderTenant
  <2>4. Opened'
    BY <1>0, <2>0 DEF TnTypeOK, Holding, Scoped, Opened, Abandoned
  <2>5. WrittenInContext'
    BY <1>0, <2>0 DEF TnTypeOK, Holding, Scoped, WrittenInContext, Written, LayerTenant, HeaderTenant
  <2>6. Accountable'
    BY <1>0, <2>0 DEF TnTypeOK, Holding, Accountable, Abandoned
  <2>7. VerifiedTenantGoverns'
    BY <1>0, <2>0 DEF TnTypeOK, VerifiedTenantGoverns, LayerTenant, HeaderTenant
  <2> QED
    BY <2>1, <2>2, <2>3, <2>4, <2>5, <2>6, <2>7
<1>2. CASE txn[held[r]].state = "open"
  <2>0. /\ at' = [at EXCEPT ![r] = "scope"]
        /\ UNCHANGED <<txn, answer, held, clock, asks, ctx, principal, statements, rows>>
    BY <1>2 DEF Begin
  <2>1. TnTypeOK'
    BY <1>0, <1>2, <2>0 DEF TnTypeOK, Places, Tenants, RowType, TxnType
  <2>2. Holding'
    BY <1>0, <1>2, <2>0 DEF TnTypeOK, Holding
  <2>3. Scoped'
    BY <1>0, <1>2, <2>0 DEF TnTypeOK, Holding, Scoped, LayerTenant, HeaderTenant
  <2>4. Opened'
    BY <1>0, <1>2, <2>0 DEF TnTypeOK, Holding, Scoped, Opened, Abandoned
  <2>5. WrittenInContext'
    BY <1>0, <1>2, <2>0 DEF TnTypeOK, Holding, Scoped, WrittenInContext, Written, LayerTenant, HeaderTenant
  <2>6. Accountable'
    BY <1>0, <1>2, <2>0 DEF TnTypeOK, Holding, Accountable, Abandoned
  <2>7. VerifiedTenantGoverns'
    BY <1>0, <1>2, <2>0 DEF TnTypeOK, VerifiedTenantGoverns, LayerTenant, HeaderTenant
  <2> QED
    BY <2>1, <2>2, <2>3, <2>4, <2>5, <2>6, <2>7
<1>3. CASE txn[held[r]].state = "idle"
  <2>0. /\ at' = [at EXCEPT ![r] = "scope"]
        /\ txn' = [txn EXCEPT ![held[r]] = fresh]
        /\ UNCHANGED <<answer, held, clock, asks, ctx, principal, statements, rows>>
    BY <1>3 DEF Begin, fresh
  <2>1. TnTypeOK'
    BY <1>0, <1>3, <2>0 DEF TnTypeOK, Places, Tenants, RowType, TxnType
  <2>2. Holding'
    BY <1>0, <1>3, <2>0 DEF TnTypeOK, Holding
  <2>3. Scoped'
    BY <1>0, <1>3, <2>0 DEF TnTypeOK, Holding, Scoped, LayerTenant, HeaderTenant
  <2>4. Opened'
    BY <1>0, <1>3, <2>0 DEF TnTypeOK, Holding, Scoped, Opened, Abandoned
  <2>5. WrittenInContext'
    BY <1>0, <1>3, <2>0 DEF TnTypeOK, Holding, Scoped, WrittenInContext, Written, LayerTenant, HeaderTenant
  <2>6. Accountable'
    BY <1>0, <1>3, <2>0 DEF TnTypeOK, Holding, Accountable, Abandoned
  <2>7. VerifiedTenantGoverns'
    BY <1>0, <1>3, <2>0 DEF TnTypeOK, VerifiedTenantGoverns, LayerTenant, HeaderTenant
  <2> QED
    BY <2>1, <2>2, <2>3, <2>4, <2>5, <2>6, <2>7
<1> QED
  BY <1>0, <1>1, <1>2, <1>3

LEMMA SetTenantKeeps == ASSUME TnInv, NEW r \in Req, SetTenant(r) PROVE TnInv'
<1> USE TenantAssumption DEF TnInv, SetTenant
<1>1. TnTypeOK'
  <2>1. held[r] \in Conn /\ txn[held[r]] \in TxnType /\ LayerTenant(r) \in Tenants
    BY DEF TnTypeOK, Holding, LayerTenant, HeaderTenant, Resolved, Tenants
  <2>2. [txn[held[r]] EXCEPT !.scope = LayerTenant(r)] \in TxnType
    BY <2>1 DEF TxnType
  <2> QED
    BY <2>1, <2>2 DEF TnTypeOK, Places
<1>2. Holding'
  BY DEF TnTypeOK, Holding
<1>3. Scoped'
  BY DEF TnTypeOK, Holding, Scoped, LayerTenant, HeaderTenant
<1>4. Opened'
  BY DEF TnTypeOK, Holding, Scoped, Opened, Abandoned
<1>5. WrittenInContext'
  BY DEF TnTypeOK, Holding, Scoped, WrittenInContext, Written, LayerTenant, HeaderTenant
<1>6. Accountable'
  BY DEF TnTypeOK, Holding, Accountable, Abandoned
<1>7. VerifiedTenantGoverns'
  BY DEF TnTypeOK, VerifiedTenantGoverns, LayerTenant, HeaderTenant
<1> QED
  BY <1>1, <1>2, <1>3, <1>4, <1>5, <1>6, <1>7

LEMMA SetTenantFailsKeeps == ASSUME TnInv, NEW r \in Req, SetTenantFails(r) PROVE TnInv'
<1> USE TenantAssumption DEF TnInv
<1> DEFINE failed == [txn[held[r]] EXCEPT !.state = "failed"]
<1>0. /\ held[r] \in Conn /\ at[r] = "scope"
      /\ failed \in TxnType /\ failed.state = "failed" /\ failed.rows = txn[held[r]].rows
      /\ failed.opener = txn[held[r]].opener
      /\ NoTxn \in TxnType /\ NoTxn.state = "idle" /\ NoTxn.rows = {}
  <2>1. held[r] \in Conn /\ at[r] = "scope"
    BY DEF SetTenantFails, TnTypeOK, Holding
  <2>2. txn[held[r]] \in TxnType
    BY <2>1 DEF TnTypeOK
  <2> QED
    BY <2>1, <2>2 DEF TxnType, Tenants, NoTxn
<1> HIDE DEF failed
<1>1. CASE asks[r].layer = "request"
  <2>0. /\ at' = [at EXCEPT ![r] = "handler"]
        /\ txn' = [txn EXCEPT ![held[r]] = failed]
        /\ UNCHANGED <<clock, asks, ctx, principal, held, answer, statements, rows>>
    BY <1>1 DEF SetTenantFails, failed
  <2>1. TnTypeOK'
    BY <1>0, <2>0 DEF TnTypeOK, Places, Tenants, RowType, TxnType
  <2>2. Holding'
    BY <1>0, <2>0 DEF TnTypeOK, Holding
  <2>3. Scoped'
    BY <1>0, <2>0 DEF TnTypeOK, Holding, Scoped, LayerTenant, HeaderTenant
  <2>4. Opened'
    BY <1>0, <2>0 DEF TnTypeOK, Holding, Scoped, Opened, Abandoned
  <2>5. WrittenInContext'
    BY <1>0, <2>0 DEF TnTypeOK, Holding, Scoped, WrittenInContext, Written, LayerTenant, HeaderTenant
  <2>6. Accountable'
    BY <1>0, <2>0 DEF TnTypeOK, Holding, Accountable, Abandoned
  <2>7. VerifiedTenantGoverns'
    BY <1>0, <2>0 DEF TnTypeOK, VerifiedTenantGoverns, LayerTenant, HeaderTenant
  <2> QED
    BY <2>1, <2>2, <2>3, <2>4, <2>5, <2>6, <2>7
<1>2. CASE asks[r].layer # "request"
  <2>0. /\ at' = [at EXCEPT ![r] = "reply"]
        /\ txn' = [txn EXCEPT ![held[r]] = NoTxn]
        /\ UNCHANGED <<clock, asks, ctx, principal, held, answer, statements, rows>>
    BY <1>2 DEF SetTenantFails
  <2>1. TnTypeOK'
    BY <1>0, <1>2, <2>0 DEF TnTypeOK, Places, Tenants, RowType, TxnType
  <2>2. Holding'
    BY <1>0, <1>2, <2>0 DEF TnTypeOK, Holding
  <2>3. Scoped'
    BY <1>0, <1>2, <2>0 DEF TnTypeOK, Holding, Scoped, LayerTenant, HeaderTenant
  <2>4. Opened'
    BY <1>0, <1>2, <2>0 DEF TnTypeOK, Holding, Scoped, Opened, Abandoned
  <2>5. WrittenInContext'
    BY <1>0, <1>2, <2>0 DEF TnTypeOK, Holding, Scoped, WrittenInContext, Written, LayerTenant, HeaderTenant
  <2>6. Accountable'
    BY <1>0, <1>2, <2>0 DEF TnTypeOK, Holding, Accountable, Abandoned
  <2>7. VerifiedTenantGoverns'
    BY <1>0, <1>2, <2>0 DEF TnTypeOK, VerifiedTenantGoverns, LayerTenant, HeaderTenant
  <2> QED
    BY <2>1, <2>2, <2>3, <2>4, <2>5, <2>6, <2>7
<1> QED
  BY <1>1, <1>2

LEMMA StatementKeeps == ASSUME TnInv, NEW r \in Req, NEW works \in BOOLEAN, Statement(r, works) PROVE TnInv'
<1> USE TenantAssumption DEF TnInv, Statement
<1>1. TnTypeOK'
  <2> DEFINE tx == txn[held[r]]
             row == [tenant |-> tx.scope, by |-> r]
  <2>1. held[r] \in Conn /\ tx \in TxnType
    BY DEF TnTypeOK, Holding
  <2>2. row \in RowType
    BY <2>1 DEF TxnType, RowType
  <2>3. [tx EXCEPT !.rows = @ \union {row}] \in TxnType
    BY <2>1, <2>2 DEF TxnType
  <2>4. [tx EXCEPT !.state = "failed"] \in TxnType
    BY <2>1 DEF TxnType
  <2>5. txn' \in [Conn -> TxnType]
    BY <2>1, <2>3, <2>4 DEF TnTypeOK
  <2> QED
    BY <2>5 DEF TnTypeOK
<1>2. Holding'
  BY DEF TnTypeOK, Holding
<1>3. Scoped'
  BY DEF TnTypeOK, Holding, Scoped, LayerTenant, HeaderTenant
<1>4. Opened'
  BY DEF TnTypeOK, Holding, Scoped, Opened, Abandoned
<1>5. WrittenInContext'
  BY DEF TnTypeOK, Holding, Scoped, WrittenInContext, Written, LayerTenant, HeaderTenant
<1>6. Accountable'
  BY DEF TnTypeOK, Holding, Accountable, Abandoned
<1>7. VerifiedTenantGoverns'
  BY DEF TnTypeOK, VerifiedTenantGoverns, LayerTenant, HeaderTenant
<1> QED
  BY <1>1, <1>2, <1>3, <1>4, <1>5, <1>6, <1>7

LEMMA RespondKeeps == ASSUME TnInv, NEW r \in Req, NEW status \in {"success", "failure"}, Respond(r, status) PROVE TnInv'
<1> USE TenantAssumption DEF TnInv, Respond, Finalize, Commit, Rollback, NoTxn
<1>1. TnTypeOK'
  <2>1. held[r] \in Conn /\ txn[held[r]].rows \in SUBSET RowType /\ NoTxn \in TxnType
    BY DEF TnTypeOK, Holding, TxnType, Tenants
  <2>2. txn' \in [Conn -> TxnType] /\ rows' \in SUBSET RowType
    BY <2>1 DEF TnTypeOK
  <2> QED
    BY <2>2 DEF TnTypeOK, Places
<1>2. Holding'
  BY DEF TnTypeOK, Holding
<1>3. Scoped'
  BY DEF TnTypeOK, Holding, Scoped, LayerTenant, HeaderTenant
<1>4. Opened'
  BY DEF TnTypeOK, Holding, Scoped, Opened, Abandoned
<1>5. WrittenInContext'
  BY DEF TnTypeOK, Holding, Scoped, WrittenInContext, Written, LayerTenant, HeaderTenant
<1>6. Accountable'
  <2>1. /\ held[r] \in Conn /\ at[r] = "handler" /\ answer' = [answer EXCEPT ![r] = status]
        /\ txn' = [txn EXCEPT ![held[r]] = NoTxn] /\ NoTxn.rows = {}
        /\ \/ rows' = rows
           \/ rows' = rows \union txn[held[r]].rows /\ status = "success"
        /\ asks' = asks /\ at' = [at EXCEPT ![r] = "done"] /\ held' = [held EXCEPT ![r] = Nothing]
    BY DEF TnTypeOK, Holding
  <2> HIDE DEF Respond, Finalize, Commit, Rollback, NoTxn
  <2>2. ASSUME NEW d \in Conn, NEW row \in txn'[d].rows, asks'[row.by].layer = "request"
        PROVE  row.by \in Abandoned' \/ (held'[row.by] = d /\ at'[row.by] = "handler")
    <3>1. d # held[r] /\ row \in txn[d].rows /\ row.by \in Req
      BY <2>1, <2>2 DEF TnTypeOK, TxnType, RowType
    <3>2. row.by \in Abandoned \/ (held[row.by] = d /\ at[row.by] = "handler")
      BY <2>1, <2>2, <3>1 DEF Accountable
    <3> QED
      BY <2>1, <3>1, <3>2 DEF TnTypeOK, Abandoned
  <2>3. ASSUME NEW row \in rows', asks'[row.by].layer = "request"
        PROVE  row.by \in Abandoned' \/ (at'[row.by] = "done" /\ answer'[row.by] = "success")
    <3>1. CASE row \in rows
      <4>1. row.by \in Req /\ (row.by \in Abandoned \/ (at[row.by] = "done" /\ answer[row.by] = "success"))
        BY <2>1, <2>3, <3>1 DEF TnTypeOK, RowType, Accountable
      <4> QED
        BY <2>1, <4>1 DEF TnTypeOK, Abandoned
    <3>2. CASE row \notin rows
      <4>1. row \in txn[held[r]].rows /\ status = "success"
        BY <2>1, <2>3, <3>2
      <4>2. /\ row.by \in Req
            /\ row.by \in Abandoned \/ (held[row.by] = held[r] /\ at[row.by] = "handler")
        BY <2>1, <2>3, <4>1 DEF TnTypeOK, TxnType, RowType, Accountable
      <4>3. row.by \in Abandoned \/ row.by = r
        BY <2>1, <4>2, TenantAssumption DEF Holding
      <4> QED
        BY <2>1, <2>3, <4>1, <4>2, <4>3 DEF TnTypeOK, Abandoned
    <3> QED
      BY <3>1, <3>2
  <2> QED
    BY <2>2, <2>3 DEF Accountable
<1>7. VerifiedTenantGoverns'
  BY DEF TnTypeOK, VerifiedTenantGoverns, LayerTenant, HeaderTenant
<1> QED
  BY <1>1, <1>2, <1>3, <1>4, <1>5, <1>6, <1>7

LEMMA EndCallKeeps == ASSUME TnInv, NEW r \in Req, NEW ok \in BOOLEAN, EndCall(r, ok) PROVE TnInv'
<1> USE TenantAssumption DEF TnInv, EndCall, Commit, Rollback, NoTxn
<1>1. TnTypeOK'
  <2>1. held[r] \in Conn /\ txn[held[r]].rows \in SUBSET RowType /\ NoTxn \in TxnType
    BY DEF TnTypeOK, Holding, TxnType, Tenants
  <2>2. txn' \in [Conn -> TxnType] /\ rows' \in SUBSET RowType
    BY <2>1 DEF TnTypeOK
  <2> QED
    BY <2>2 DEF TnTypeOK, Places
<1>2. Holding'
  BY DEF TnTypeOK, Holding
<1>3. Scoped'
  BY DEF TnTypeOK, Holding, Scoped, LayerTenant, HeaderTenant
<1>4. Opened'
  BY DEF TnTypeOK, Holding, Scoped, Opened, Abandoned
<1>5. WrittenInContext'
  BY DEF TnTypeOK, Holding, Scoped, WrittenInContext, Written, LayerTenant, HeaderTenant
<1>6. Accountable'
  <2>1. /\ held[r] \in Conn /\ at[r] = "handler" /\ asks[r].layer = "call"
        /\ txn' = [txn EXCEPT ![held[r]] = NoTxn] /\ NoTxn.rows = {}
        /\ \/ rows' = rows
           \/ rows' = rows \union txn[held[r]].rows
        /\ asks' = asks /\ at' = [at EXCEPT ![r] = "reply"] /\ held' = held
        /\ answer' = answer
    BY DEF TnTypeOK, Holding
  <2> HIDE DEF EndCall, Commit, Rollback, NoTxn
  <2>2. ASSUME NEW d \in Conn, NEW row \in txn'[d].rows, asks'[row.by].layer = "request"
        PROVE  row.by \in Abandoned' \/ (held'[row.by] = d /\ at'[row.by] = "handler")
    <3>1. d # held[r] /\ row \in txn[d].rows /\ row.by \in Req
      BY <2>1, <2>2 DEF TnTypeOK, TxnType, RowType
    <3>2. row.by \in Abandoned \/ (held[row.by] = d /\ at[row.by] = "handler")
      BY <2>1, <2>2, <3>1 DEF Accountable
    <3> QED
      BY <2>1, <3>1, <3>2 DEF TnTypeOK, Abandoned
  <2>3. ASSUME NEW row \in rows', asks'[row.by].layer = "request"
        PROVE  row.by \in Abandoned' \/ (at'[row.by] = "done" /\ answer'[row.by] = "success")
    <3>1. CASE row \in rows
      <4>1. row.by \in Req /\ (row.by \in Abandoned \/ (at[row.by] = "done" /\ answer[row.by] = "success"))
        BY <2>1, <2>3, <3>1 DEF TnTypeOK, RowType, Accountable
      <4> QED
        BY <2>1, <4>1 DEF TnTypeOK, Abandoned
    <3>2. CASE row \notin rows
      <4>1. row \in txn[held[r]].rows
        BY <2>1, <2>3, <3>2
      <4>2. /\ row.by \in Req
            /\ row.by \in Abandoned \/ (held[row.by] = held[r] /\ at[row.by] = "handler")
        BY <2>1, <2>3, <4>1 DEF TnTypeOK, TxnType, RowType, Accountable
      <4>3. row.by \in Abandoned \/ row.by = r
        BY <2>1, <4>2, TenantAssumption DEF Holding
      <4> QED
        BY <2>1, <2>3, <4>1, <4>2, <4>3 DEF TnTypeOK, Abandoned
    <3> QED
      BY <3>1, <3>2
  <2> QED
    BY <2>2, <2>3 DEF Accountable
<1>7. VerifiedTenantGoverns'
  BY DEF TnTypeOK, VerifiedTenantGoverns, LayerTenant, HeaderTenant
<1> QED
  BY <1>1, <1>2, <1>3, <1>4, <1>5, <1>6, <1>7

LEMMA NextCallKeeps == ASSUME TnInv, NEW r \in Req, NextCall(r) PROVE TnInv'
<1> USE TenantAssumption DEF TnInv, NextCall
<1>1. TnTypeOK'
  BY DEF TnTypeOK, Places, Tenants, RowType, TxnType
<1>2. Holding'
  BY DEF TnTypeOK, Holding
<1>3. Scoped'
  BY DEF TnTypeOK, Holding, Scoped, LayerTenant, HeaderTenant
<1>4. Opened'
  BY DEF TnTypeOK, Holding, Scoped, Opened, Abandoned
<1>5. WrittenInContext'
  BY DEF TnTypeOK, Holding, Scoped, WrittenInContext, Written, LayerTenant, HeaderTenant
<1>6. Accountable'
  BY DEF TnTypeOK, Holding, Accountable, Abandoned
<1>7. VerifiedTenantGoverns'
  BY DEF TnTypeOK, VerifiedTenantGoverns, LayerTenant, HeaderTenant
<1> QED
  BY <1>1, <1>2, <1>3, <1>4, <1>5, <1>6, <1>7

LEMMA ReplyKeeps == ASSUME TnInv, NEW r \in Req, NEW status \in {"success", "failure"}, Reply(r, status) PROVE TnInv'
<1> USE TenantAssumption DEF TnInv, Reply
<1>1. TnTypeOK'
  BY DEF TnTypeOK, Places, Tenants, RowType, TxnType
<1>2. Holding'
  BY DEF TnTypeOK, Holding
<1>3. Scoped'
  BY DEF TnTypeOK, Holding, Scoped, LayerTenant, HeaderTenant
<1>4. Opened'
  BY DEF TnTypeOK, Holding, Scoped, Opened, Abandoned
<1>5. WrittenInContext'
  BY DEF TnTypeOK, Holding, Scoped, WrittenInContext, Written, LayerTenant, HeaderTenant
<1>6. Accountable'
  BY DEF TnTypeOK, Holding, Accountable, Abandoned
<1>7. VerifiedTenantGoverns'
  BY DEF TnTypeOK, VerifiedTenantGoverns, LayerTenant, HeaderTenant
<1> QED
  BY <1>1, <1>2, <1>3, <1>4, <1>5, <1>6, <1>7

LEMMA AbandonKeeps == ASSUME TnInv, NEW r \in Req, Abandon(r) PROVE TnInv'
<1> USE TenantAssumption DEF TnInv, Abandon, NoTxn
<1>1. TnTypeOK'
  BY DEF TnTypeOK, Places, Tenants, RowType, TxnType
<1>2. Holding'
  BY DEF TnTypeOK, Holding
<1>3. Scoped'
  BY DEF TnTypeOK, Holding, Scoped, LayerTenant, HeaderTenant
<1>4. Opened'
  BY DEF TnTypeOK, Holding, Scoped, Opened, Abandoned
<1>5. WrittenInContext'
  BY DEF TnTypeOK, Holding, Scoped, WrittenInContext, Written, LayerTenant, HeaderTenant
<1>6. Accountable'
  BY DEF TnTypeOK, Holding, Accountable, Abandoned
<1>7. VerifiedTenantGoverns'
  BY DEF TnTypeOK, Holding, VerifiedTenantGoverns, LayerTenant, HeaderTenant
<1> QED
  BY <1>1, <1>2, <1>3, <1>4, <1>5, <1>6, <1>7

-----------------------------------------------------------------------------
\* So does a step of the rest of the program.
LEMMA StutterKeeps == ASSUME TnInv, UNCHANGED tnvars PROVE TnInv'
<1>1. Holding' /\ Scoped' /\ Opened'
  BY DEF TnInv, tnvars, requestVars, Holding, Scoped, Opened, Abandoned, LayerTenant, HeaderTenant
<1> QED
  BY <1>1 DEF TnInv, tnvars, requestVars, TnTypeOK, WrittenInContext, Written, Accountable, Abandoned,
              VerifiedTenantGoverns, LayerTenant, HeaderTenant

LEMMA TnNextKeeps == ASSUME TnInv, [TnNext]_tnvars PROVE TnInv'
<1>1. CASE Pass
  BY <1>1, PassKeeps
<1>2. ASSUME NEW r \in Req,
             ContextLayer(r) \/ AuthLayer(r) \/ Unserved(r) \/ Begin(r) \/ SetTenant(r)
               \/ SetTenantFails(r) \/ NextCall(r) \/ Abandon(r)
      PROVE  TnInv'
  BY <1>2, ContextLayerKeeps, AuthLayerKeeps, UnservedKeeps, BeginKeeps, SetTenantKeeps,
     SetTenantFailsKeeps, NextCallKeeps, AbandonKeeps
<1>3. ASSUME NEW r \in Req, NEW c \in Conn, Acquire(r, c)
      PROVE  TnInv'
  BY <1>3, AcquireKeeps
<1>4. ASSUME NEW r \in Req, NEW works \in BOOLEAN, Statement(r, works) \/ EndCall(r, works)
      PROVE  TnInv'
  BY <1>4, StatementKeeps, EndCallKeeps
<1>5. ASSUME NEW r \in Req, NEW status \in {"success", "failure"}, Respond(r, status) \/ Reply(r, status)
      PROVE  TnInv'
  BY <1>5, RespondKeeps, ReplyKeeps
<1>6. CASE UNCHANGED tnvars
  BY <1>6, StutterKeeps
<1> QED
  BY <1>1, <1>2, <1>3, <1>4, <1>5, <1>6 DEF TnNext

(* Whatever the pool hands on, whichever statements fail and whoever goes  *)
(* away half way: rows stay with the tenant they were resolved to, only    *)
(* answered requests leave rows, the pool is clean but for what an         *)
(* abandoned request left, and a verified token names the tenant, unless   *)
(* the database layer reads the raw headers again (rls.rs, db.rs, web.rs,  *)
(* auth.rs).                                                               *)
THEOREM TenantsAreConfined == TnSpec => []TenantsConfined
<1>1. TnInv /\ [TnNext]_tnvars => TnInv'
  BY TnNextKeeps
<1> QED
  BY <1>1, TnInitInv, TnInvConfines, PTL DEF TnSpec

-----------------------------------------------------------------------------
(***************************************************************************)
(* The generated API.                                                      *)
(***************************************************************************)
\* The counters are numbers; the rest is what is promised.
ApiInv ==
  /\ created \in [EntityId -> Nat] /\ deleted \in [EntityId -> Nat]
  /\ AnswersAreTrue /\ OnlyValidStored

\* Each request keeps it.
LEMMA CreateKeeps ==
  ASSUME ApiInv, NEW e \in Bodies, Create(e)
  PROVE  /\ ApiInv'
         /\ \A k \in DOMAIN store : k \in DOMAIN store' /\ store'[k] = store[k]
<1>1. /\ DOMAIN store' = DOMAIN store \union {e.id} /\ e.id \notin DOMAIN store
      /\ store'[e.id] = e /\ \A k \in DOMAIN store : store'[k] = store[k]
  BY DEF Create, InsertRow
<1>2. /\ Valid(e) /\ deleted' = deleted
      /\ \/ created' = [created EXCEPT ![e.id] = @ + 1] /\ unsure' = unsure
         \/ unsure' = unsure \union {e.id} /\ created' = created
  BY DEF Create
<1>3. created' \in [EntityId -> Nat] /\ deleted' \in [EntityId -> Nat]
  BY <1>2 DEF ApiInv
<1>4. AnswersAreTrue'
  BY <1>1, <1>2 DEF ApiInv, AnswersAreTrue
<1>5. OnlyValidStored'
  BY <1>1, <1>2 DEF ApiInv, OnlyValidStored, Valid
<1> QED
  BY <1>1, <1>3, <1>4, <1>5 DEF ApiInv

LEMMA ReplaceKeeps ==
  ASSUME ApiInv, NEW k \in EntityId, NEW e \in Bodies, Replace(k, e)
  PROVE  ApiInv' /\ policy # "CustomerAuth"
<1>1. /\ DOMAIN store' = DOMAIN store /\ store'[k] = e /\ Valid(e)
      /\ \A j \in DOMAIN store \ {k} : store'[j] = store[j]
      /\ UNCHANGED <<created, deleted, unsure>>
  BY DEF Replace, PutRow
<1>2. OnlyValidStored'
  BY <1>1 DEF ApiInv, OnlyValidStored, Valid
<1> QED
  BY <1>1, <1>2 DEF ApiInv, AnswersAreTrue, Replace, Authorized

LEMMA DeleteKeeps ==
  ASSUME ApiInv, NEW k \in EntityId, Delete(k)
  PROVE  ApiInv' /\ policy # "CustomerAuth"
<1>1. /\ DOMAIN store' = DOMAIN store \ {k} /\ k \in DOMAIN store
      /\ \A j \in DOMAIN store' : store'[j] = store[j]
  BY DEF Delete, RemoveRow
<1>2. /\ created' = created
      /\ \/ deleted' = [deleted EXCEPT ![k] = @ + 1] /\ unsure' = unsure
         \/ unsure' = unsure \union {k} /\ deleted' = deleted
  BY DEF Delete
<1>3. created' \in [EntityId -> Nat] /\ deleted' \in [EntityId -> Nat]
  BY <1>2 DEF ApiInv
<1>4. AnswersAreTrue'
  BY <1>1, <1>2 DEF ApiInv, AnswersAreTrue
<1>5. OnlyValidStored'
  BY <1>1 DEF ApiInv, OnlyValidStored, Valid
<1> QED
  BY <1>3, <1>4, <1>5 DEF ApiInv, Delete, Authorized

LEMMA ApiNextKeeps ==
  ASSUME ApiInv, [ApiNext]_apivars
  PROVE  /\ ApiInv'
         /\ policy = "CustomerAuth" => \A k \in DOMAIN store : k \in DOMAIN store' /\ store'[k] = store[k]
<1>1. CASE (\E f \in Filters : StartWalk(f)) \/ ListPage \/ UNCHANGED apivars
  <2>1. UNCHANGED <<store, created, deleted, unsure>>
    BY <1>1 DEF StartWalk, ListPage, apivars
  <2> QED
    BY <2>1 DEF ApiInv, AnswersAreTrue, OnlyValidStored, Valid
<1> QED
  BY <1>1, CreateKeeps, ReplaceKeeps, DeleteKeeps DEF ApiNext

LEMMA ApiInitInv == ApiInit => ApiInv
  BY DEF ApiInit, ApiInv, AnswersAreTrue, OnlyValidStored

(***************************************************************************)
(* The client that reads a list.  As long as nobody has disturbed it, what *)
(* it has read is the beginning of the list as it is now.                  *)
(***************************************************************************)
Walk == [on : BOOLEAN, filter : Filters \union {{}}, page : Nat \ {0}, seen : Seq(Nat),
         disturbed : BOOLEAN, over : BOOLEAN]

\* The rows there are: finitely many, each an entity that was sent.
StoreSound ==
  IsFiniteSet(DOMAIN store) /\ DOMAIN store \subseteq EntityId /\ \A k \in DOMAIN store : store[k] \in Bodies

\* What was read so far is the ids of the first rows of the list.
ReadInOrder ==
  \E q \in [1..Len(walk.seen) -> Matched(walk.filter)] :
    /\ Leads(q, Matched(walk.filter), ByIdOrder)
    /\ \A i \in 1..Len(walk.seen) : walk.seen[i] = store[q[i]].id

WalkInv ==
  /\ walk \in Walk /\ StoreSound
  /\ walk.on => ~walk.over
  /\ walk.on /\ ~walk.disturbed => Len(walk.seen) = Offset(walk.page) /\ ReadInOrder

LEMMA LimitType ==
  ASSUME ApiAssumption
  PROVE  Clamp(PerPage) \in Nat \ {0}
<1>1. PICK m : m = Min({PerPage, MaxPerPage})
  OBVIOUS
<1>2. PerPage \in Int /\ MaxPerPage \in Int /\ PerPage >= 0 /\ MaxPerPage >= 0
  BY DEF ApiAssumption
<1>3. m = IF PerPage <= MaxPerPage THEN PerPage ELSE MaxPerPage
  BY <1>1, <1>2, LesserOfTwo
<1>4. m \in Int /\ m >= 0
  BY <1>2, <1>3
<1>5. Max({1, m}) = IF 1 >= m THEN 1 ELSE m
  BY <1>4, GreaterOfTwo
<1> QED
  BY <1>1, <1>4, <1>5 DEF Clamp

LEMMA OffsetIs ==
  ASSUME ApiAssumption, NEW page \in Nat \ {0}
  PROVE  Offset(page) = (page - 1) * Clamp(PerPage)
<1>1. Max({1, page}) = page
  BY GreaterOfTwo
<1> QED
  BY <1>1 DEF Offset

LEMMA OffsetNext ==
  ASSUME ApiAssumption, NEW page \in Nat \ {0}
  PROVE  /\ Offset(page) \in Nat /\ Offset(1) = 0
         /\ Offset(page + 1) = Offset(page) + Clamp(PerPage)
<1>1. PICK P \in Nat \ {0} : P = Clamp(PerPage)
  BY LimitType
<1>2. /\ Offset(page) = (page - 1) * P /\ Offset(page + 1) = page * P /\ Offset(1) = 0 * P
  <2>1. page + 1 \in Nat \ {0} /\ (page + 1) - 1 = page /\ 1 \in Nat \ {0} /\ 1 - 1 = 0
    OBVIOUS
  <2> QED
    BY <1>1, <2>1, OffsetIs
<1>3. page * P = (page - 1) * P + P /\ 0 * P = 0 /\ (page - 1) * P \in Nat
  OBVIOUS
<1> QED
  BY <1>1, <1>2, <1>3

LEMMA MatchedSound ==
  ASSUME ApiAssumption, StoreSound, NEW filter
  PROVE  /\ IsFiniteSet(Matched(filter)) /\ Matched(filter) \subseteq DOMAIN store
         /\ \A k \in Matched(filter) : k \in EntityId /\ k \in Nat /\ store[k].id \in Nat
<1>1. Matched(filter) \subseteq DOMAIN store
  BY DEF Matched
<1> QED
  BY <1>1, FS_Subset DEF StoreSound, ApiAssumption

\* The order of the list is one.
LEMMA OrderIs ==
  ASSUME ApiAssumption, StoreSound, NEW filter
  PROVE  Ranks(ByIdOrder, Matched(filter)) /\ OneWay(ByIdOrder, Matched(filter))
<1> DEFINE S == Matched(filter)
<1>1. \A k \in S : k \in EntityId /\ k \in Nat /\ store[k].id \in Nat
  BY MatchedSound
<1> HIDE DEF S
<1>2. \A x, y \in S : <<x, y>> \in ByIdOrder <=>
         store[x].id < store[y].id \/ (store[x].id = store[y].id /\ x < y)
  BY <1>1 DEF ByIdOrder
<1>3. \A x, y \in S : x # y => <<x, y>> \in ByIdOrder \/ <<y, x>> \in ByIdOrder
  BY <1>1, <1>2
<1>4. ASSUME NEW x \in S, NEW y \in S, NEW z \in S, <<x, y>> \in ByIdOrder, <<y, z>> \in ByIdOrder
      PROVE  <<x, z>> \in ByIdOrder
  BY <1>1, <1>2, <1>4
<1>5. \A x, y \in S : <<x, y>> \in ByIdOrder => x # y /\ <<y, x>> \notin ByIdOrder
  BY <1>1, <1>2
<1>6. Ranks(ByIdOrder, S) /\ OneWay(ByIdOrder, S)
  BY <1>3, <1>4, <1>5 DEF Ranks, OneWay
<1> QED
  BY <1>6 DEF S

LEMMA ListingIs ==
  ASSUME ApiAssumption, StoreSound, NEW filter
  PROVE  \E n \in Nat : \E f \in [1..n -> Matched(filter)] :
           /\ f = ById(Matched(filter)) /\ Len(f) = n /\ Range(f) = Matched(filter)
           /\ \A i, j \in 1..n : i < j => <<f[i], f[j]>> \in ByIdOrder
<1>1. PICK S : S = Matched(filter)
  OBVIOUS
<1>2. PICK R : R = ByIdOrder
  OBVIOUS
<1>3. IsFiniteSet(S) /\ Ranks(R, S)
  BY <1>1, <1>2, MatchedSound, OrderIs
<1>4. PICK n \in Nat : n = Cardinality(S)
  BY <1>3, FS_CardinalityType
<1>5. \E f \in [1..n -> S] : Range(f) = S /\ \A i, j \in DOMAIN f : i < j => <<f[i], f[j]>> \in R
  BY <1>3, <1>4, SortedExists
<1>6. ById(S) = CHOOSE f \in [1..n -> S] : Range(f) = S /\ \A i, j \in DOMAIN f : i < j => <<f[i], f[j]>> \in R
  BY <1>2, <1>4 DEF ById
<1>7. PICK f : f = ById(S)
  OBVIOUS
<1>8. f \in [1..n -> S] /\ Range(f) = S /\ \A i, j \in DOMAIN f : i < j => <<f[i], f[j]>> \in R
  BY <1>5, <1>6, <1>7
<1>9. Len(f) = n /\ DOMAIN f = 1..n
  BY <1>8
<1> QED
  BY <1>1, <1>2, <1>4, <1>7, <1>8, <1>9

\* A row before the last one read has an id that is behind the walk.
LEMMA ReadIsBehind ==
  ASSUME ApiAssumption, StoreSound, walk \in Walk,
         NEW q \in [1..Len(walk.seen) -> Matched(walk.filter)],
         Leads(q, Matched(walk.filter), ByIdOrder),
         \A i \in 1..Len(walk.seen) : walk.seen[i] = store[q[i]].id,
         NEW i \in 1..Len(walk.seen)
  PROVE  /\ q[i] \in Matched(walk.filter) /\ store[q[i]].id \in Nat
         /\ BehindWalk(store[q[i]].id)
         /\ \A k \in Nat : k <= store[q[i]].id => BehindWalk(k)
<1>1. PICK c \in Nat : c = Len(walk.seen)
  BY DEF Walk
<1>2. walk.seen # <<>> /\ c \in 1..c /\ i \in 1..c /\ DOMAIN q = 1..c
  BY <1>1 DEF Walk
<1>3. q[i] \in Matched(walk.filter) /\ q[c] \in Matched(walk.filter)
  BY <1>1, <1>2
<1>4. /\ q[i] \in EntityId /\ q[c] \in EntityId
      /\ store[q[i]].id \in Nat /\ store[q[c]].id \in Nat
  BY <1>3, MatchedSound
<1>5. i = c \/ <<q[i], q[c]>> \in ByIdOrder
  <2>1. InOrder(q, ByIdOrder)
    BY DEF Leads
  <2>2. i < c => i \in DOMAIN q /\ c \in DOMAIN q
    BY <1>2
  <2>3. i < c => <<q[i], q[c]>> \in ByIdOrder
    BY <2>1, <2>2 DEF InOrder
  <2> QED
    BY <1>2, <2>3
<1>6. store[q[i]].id <= store[q[c]].id
  BY <1>4, <1>5 DEF ByIdOrder
<1>7. walk.seen[Len(walk.seen)] = store[q[c]].id
  BY <1>1, <1>2
<1> QED
  BY <1>2, <1>3, <1>4, <1>6, <1>7 DEF BehindWalk

\* A change of rows by requests: those outside ids stay.
Outside(ids) ==
  /\ \A k \in DOMAIN store : store[k].id \in ids \/ (k \in DOMAIN store' /\ store'[k] = store[k])
  /\ \A k \in DOMAIN store' : store'[k].id \in ids \/ (k \in DOMAIN store /\ store'[k] = store[k])

\* Rows behind the walk stay or the walk is disturbed.
LEMMA ChangeKeepsWalk ==
  ASSUME ApiAssumption, WalkInv, NEW ids \in SUBSET Nat, Disturb(ids), Outside(ids), StoreSound'
  PROVE  WalkInv' /\ (walk.on => ~walk'.over)
<1>1. /\ walk \in Walk /\ StoreSound
      /\ walk.on /\ ~walk.disturbed => Len(walk.seen) = Offset(walk.page) /\ ReadInOrder
  BY DEF WalkInv
<1>2. walk' = [walk EXCEPT !.disturbed = @ \/ \E k \in ids : BehindWalk(k)]
  BY DEF Disturb
<1>3. walk' \in Walk
  BY <1>1, <1>2 DEF Walk
<1>4. ASSUME walk'.on, ~walk'.disturbed
      PROVE  Len(walk'.seen) = Offset(walk'.page) /\ ReadInOrder'
  <2>1. /\ walk.on /\ ~walk.disturbed /\ \A k \in ids : ~BehindWalk(k)
        /\ walk'.seen = walk.seen /\ walk'.page = walk.page /\ walk'.filter = walk.filter
    BY <1>1, <1>2, <1>4 DEF Walk
  <2>2. PICK w, filter : w = walk.seen /\ filter = walk.filter
    OBVIOUS
  <2>3. PICK c \in Nat : c = Len(w)
    BY <1>1, <2>2 DEF Walk
  <2>4. PICK M : M = Matched(filter)
    OBVIOUS
  <2>5. PICK q \in [1..c -> M] : Leads(q, M, ByIdOrder) /\ \A i \in 1..c : w[i] = store[q[i]].id
    BY <1>1, <2>1, <2>2, <2>3, <2>4 DEF ReadInOrder
  <2>6. ASSUME NEW i \in 1..c
        PROVE  /\ q[i] \in M /\ store[q[i]].id \in Nat /\ BehindWalk(store[q[i]].id)
               /\ \A k \in Nat : k <= store[q[i]].id => BehindWalk(k)
    BY <1>1, <2>2, <2>3, <2>4, <2>5, ReadIsBehind
  <2>7. ASSUME NEW i \in 1..c
        PROVE  q[i] \in Matched(filter)' /\ store'[q[i]] = store[q[i]]
    <3>1. q[i] \in DOMAIN store /\ Matches(filter, store[q[i]]) /\ store[q[i]].id \notin ids
      BY <2>1, <2>4, <2>6 DEF Matched
    <3>2. q[i] \in DOMAIN store' /\ store'[q[i]] = store[q[i]]
      BY <3>1 DEF Outside
    <3> QED
      BY <3>1, <3>2 DEF Matched
  <2>8. DOMAIN q = 1..c /\ q \in [1..c -> Matched(filter)']
    BY <2>5, <2>7
  <2>9. ASSUME NEW i \in 1..c, NEW x \in M, x \in Matched(filter)', store'[x] = store[x],
               <<q[i], x>> \in ByIdOrder
        PROVE  <<q[i], x>> \in ByIdOrder'
    BY <2>7, <2>9 DEF ByIdOrder
  <2>10. \A i, j \in DOMAIN q : i < j => <<q[i], q[j]>> \in ByIdOrder'
    <3>1. ASSUME NEW i \in 1..c, NEW j \in 1..c, i < j PROVE <<q[i], q[j]>> \in ByIdOrder'
      <4>1. <<q[i], q[j]>> \in ByIdOrder
        BY <2>5, <2>8, <3>1 DEF Leads, InOrder
      <4> QED
        BY <2>6, <2>7, <2>9, <4>1
    <3> QED
      BY <2>8, <3>1
  <2>11. ASSUME NEW x \in Matched(filter)', x \notin Range(q), NEW i \in 1..c
         PROVE  <<q[i], x>> \in ByIdOrder'
    <3>1. x \in DOMAIN store' /\ Matches(filter, store'[x]) /\ x \in EntityId /\ store'[x].id \in Nat
      BY <1>1, MatchedSound DEF Matched, StoreSound, ApiAssumption
    <3>2. CASE store'[x].id \in ids
      <4>1. ~BehindWalk(store'[x].id)
        BY <2>1, <3>2
      <4>2. store[q[i]].id < store'[x].id
        BY <2>6, <3>1, <4>1
      <4>3. q[i] \in EntityId
        BY <1>1, <2>4, <2>6, MatchedSound
      <4> QED
        BY <2>7, <3>1, <4>2, <4>3 DEF ByIdOrder
    <3>3. CASE x \in DOMAIN store /\ store'[x] = store[x]
      <4>1. x \in M
        BY <2>4, <3>1, <3>3 DEF Matched
      <4>2. <<q[i], x>> \in ByIdOrder
        BY <2>5, <2>8, <2>11, <4>1 DEF Leads, InOrder
      <4> QED
        BY <2>9, <3>3, <4>1, <4>2
    <3> QED
      BY <3>1, <3>2, <3>3 DEF Outside
  <2>12. Leads(q, Matched(filter)', ByIdOrder')
    BY <2>8, <2>10, <2>11 DEF Leads, InOrder
  <2>13. \A i \in 1..c : w[i] = store'[q[i]].id
    BY <2>5, <2>7
  <2>14. ReadInOrder'
    <3>1. Matched(walk.filter)' = Matched(filter)'
      BY <2>1, <2>2, <2>3 DEF Matched
    <3> QED
      BY <2>1, <2>2, <2>3, <2>8, <2>12, <2>13, <3>1 DEF ReadInOrder
  <2> QED
    BY <1>1, <2>1, <2>14 DEF Offset
<1>5. walk'.on = walk.on /\ walk'.over = walk.over /\ (walk.on => ~walk.over)
  BY <1>1, <1>2 DEF Walk, WalkInv
<1> QED
  BY <1>3, <1>4, <1>5 DEF WalkInv

\* The ids of the rows from the one after off to the one at end.
IdsOf(items, f, off, end) ==
  Len(items) = end - off /\ \A i \in 1..(end - off) : items[i] = store[f[off + i]].id

\* The rows of a page, and what a client has with them.
LEMMA PageIs ==
  ASSUME ApiAssumption, StoreSound, NEW filter, NEW page \in Nat \ {0},
         NEW n \in Nat, NEW f \in [1..n -> Matched(filter)], f = ById(Matched(filter)), Len(f) = n,
         NEW got, got = PageOf(filter, page), NEW off \in Nat, off = Offset(page),
         NEW end \in Nat, end = IF off + Clamp(PerPage) <= n THEN off + Clamp(PerPage) ELSE n
  PROVE  /\ got.total = n /\ got.items \in Seq(Nat)
         /\ off <= n => IdsOf(got.items, f, off, end)
<1>1. PICK P \in Nat \ {0} : P = Clamp(PerPage)
  BY LimitType
<1>3. end = IF off + P <= n THEN off + P ELSE n
  BY <1>1
<1>4. Min({off + P, n}) = end
  BY <1>3, LesserOfTwo
<1>5. PICK m \in Nat : m = IF off >= n THEN 0 ELSE end - off
  <2>1. PICK m : m = IF off >= n THEN 0 ELSE end - off
    OBVIOUS
  <2>2. m \in Nat
    BY <1>3, <2>1
  <2> QED
    BY <2>1, <2>2
<1>6. got.total = n /\ got.items = [i \in 1..m |-> store[f[off + i]].id]
  BY <1>1, <1>4, <1>5 DEF PageOf
<1>7. ASSUME NEW i \in 1..m PROVE store[f[off + i]].id \in Nat
  <2>1. off < n /\ end <= n
    BY <1>3, <1>5
  <2>2. m = end - off
    BY <1>5, <2>1
  <2>3. off + i \in 1..n
    BY <2>1, <2>2
  <2>4. f[off + i] \in Matched(filter)
    BY <2>3
  <2> QED
    BY <2>4, MatchedSound
<1>8. got.items \in Seq(Nat) /\ Len(got.items) = m
  BY <1>6, <1>7
<1>9. off <= n => m = end - off
  BY <1>3, <1>5
<1>10. off <= n => IdsOf(got.items, f, off, end)
  BY <1>6, <1>8, <1>9 DEF IdsOf
<1> QED
  BY <1>6, <1>8, <1>10

\* A page goes on where the client is, and the last one ends the list.
LEMMA PageKeepsWalk ==
  ASSUME ApiAssumption, WalkInv, ListPage
  PROVE  /\ WalkInv'
         /\ walk'.over /\ ~walk.disturbed /\ ~Misfiled =>
              /\ Range(walk'.seen) = Matched(walk.filter)
              /\ \A i, j \in DOMAIN walk'.seen : i < j => walk'.seen[i] < walk'.seen[j]
<1>1. /\ walk \in Walk /\ StoreSound /\ walk.on
      /\ ~walk.disturbed => Len(walk.seen) = Offset(walk.page) /\ ReadInOrder
  BY DEF WalkInv, ListPage
<1>2. PICK filter : filter = walk.filter
  OBVIOUS
<1>3. PICK page \in Nat \ {0} : page = walk.page
  BY <1>1 DEF Walk
<1>4. PICK n \in Nat : \E f \in [1..n -> Matched(filter)] :
        /\ f = ById(Matched(filter)) /\ Len(f) = n /\ Range(f) = Matched(filter)
        /\ \A i, j \in 1..n : i < j => <<f[i], f[j]>> \in ByIdOrder
  BY <1>1, ListingIs
<1>5. PICK f \in [1..n -> Matched(filter)] :
        /\ f = ById(Matched(filter)) /\ Len(f) = n /\ Range(f) = Matched(filter)
        /\ \A i, j \in 1..n : i < j => <<f[i], f[j]>> \in ByIdOrder
  BY <1>4
<1>6. PICK got : got = PageOf(filter, page)
  OBVIOUS
<1>7. PICK read, last : read = walk.seen \o got.items /\ last = (Len(read) >= got.total \/ got.items = <<>>)
  OBVIOUS
<1>8. /\ walk' = [walk EXCEPT !.seen = read, !.page = @ + 1, !.on = ~last, !.over = last]
      /\ store' = store
  BY <1>2, <1>3, <1>6, <1>7 DEF ListPage
<1>9. got.total = n /\ got.items \in Seq(Nat)
  <2>1. PICK off \in Nat, P \in Nat : off = Offset(page) /\ P = Clamp(PerPage)
    BY LimitType, OffsetNext
  <2>2. PICK end \in Nat : end = IF off + P <= n THEN off + P ELSE n
    OBVIOUS
  <2> QED
    BY <1>1, <1>5, <1>6, <2>1, <2>2, PageIs
<1>10. read \in Seq(Nat) /\ last \in BOOLEAN
  BY <1>1, <1>7, <1>9 DEF Walk
<1>11. walk' \in Walk /\ StoreSound'
  <2>1. walk' \in Walk
    <3>1. walk.page + 1 \in Nat \ {0}
      <4>1. walk.page \in Nat \ {0}
        BY <1>1 DEF Walk
      <4> QED
        BY <4>1
    <3>2. (~last) \in BOOLEAN
      BY <1>10
    <3> QED
      BY <1>1, <1>8, <1>10, <3>1, <3>2 DEF Walk
  <2> QED
    BY <1>1, <1>8, <2>1 DEF StoreSound
<1>12. ASSUME ~walk.disturbed
       PROVE  \E end \in 0..n :
                /\ Len(read) = end /\ \A i \in 1..end : read[i] = store[f[i]].id
                /\ ~last => end = Offset(page + 1)
                /\ last => end = n
  <2>1. PICK w \in Seq(Nat), its \in Seq(Nat) : w = walk.seen /\ its = got.items
    BY <1>1, <1>9 DEF Walk
  <2>2. PICK c \in Nat, P \in Nat \ {0} : c = Len(w) /\ P = Clamp(PerPage)
    BY LimitType
  <2>3. c = Offset(page) /\ ReadInOrder
    BY <1>1, <1>3, <1>12, <2>1, <2>2
  <2>4. PICK q \in [1..c -> Matched(filter)] :
          Leads(q, Matched(filter), ByIdOrder) /\ \A i \in 1..c : w[i] = store[q[i]].id
    BY <1>2, <2>1, <2>2, <2>3 DEF ReadInOrder
  <2>5. c <= n /\ \A i \in 1..c : q[i] = f[i]
    <3>1. PICK S, R : S = Matched(filter) /\ R = ByIdOrder
      OBVIOUS
    <3>2. OneWay(R, S)
      BY <1>1, <3>1, OrderIs
    <3>3. ListsIn(f, n, S, R)
      BY <1>5, <3>1 DEF ListsIn, InOrder
    <3>4. BeginsIn(q, c, S, R)
      BY <2>4, <3>1 DEF BeginsIn
    <3>5. StartsWith(f, n, q, c)
      BY <3>2, <3>3, <3>4, ListingBegins
    <3> QED
      BY <3>5 DEF StartsWith
  <2>6. PICK end \in 0..n : end = IF c + P <= n THEN c + P ELSE n
    BY <2>2
  <2>7. Len(its) = end - c /\ \A i \in 1..(end - c) : its[i] = store[f[c + i]].id
    <3>1. PICK off \in Nat : off = Offset(page) /\ off = c
      BY <2>2, <2>3
    <3>2. end \in Nat /\ off <= n /\ end = IF off + Clamp(PerPage) <= n THEN off + Clamp(PerPage) ELSE n
      BY <2>2, <2>5, <2>6, <3>1
    <3>3. IdsOf(got.items, f, off, end)
      <4>1. f = ById(Matched(filter)) /\ Len(f) = n
        BY <1>5
      <4>2. StoreSound
        BY <1>1
      <4>3. off = Offset(page)
        BY <3>1
      <4> QED
        BY <1>6, <3>2, <4>1, <4>2, <4>3, PageIs
    <3> QED
      BY <2>1, <3>1, <3>3 DEF IdsOf
  <2>8. read = w \o its /\ end >= c /\ Len(read) = end
    <3>1. read = w \o its
      BY <1>7, <2>1
    <3>2. end >= c
      BY <2>2, <2>5, <2>6
    <3>3. Len(read) = Len(w) + Len(its)
      BY <3>1
    <3> QED
      BY <2>2, <2>7, <3>1, <3>2, <3>3
  <2>9. ASSUME NEW i \in 1..end PROVE read[i] = store[f[i]].id
    <3>1. CASE i <= c
      <4>1. read[i] = w[i]
        BY <2>2, <2>8, <3>1
      <4> QED
        BY <2>4, <2>5, <3>1, <4>1
    <3>2. CASE i > c
      <4>1. read[i] = its[i - c] /\ i - c \in 1..(end - c)
        BY <2>2, <2>7, <2>8, <3>2
      <4>2. c + (i - c) = i
        OBVIOUS
      <4> QED
        BY <2>7, <4>1, <4>2
    <3> QED
      BY <3>1, <3>2
  <2>10. (~last => end < n) /\ (last => end >= n \/ its = <<>>)
    <3>1. Len(read) = end /\ got.total = n
      BY <1>9, <2>8
    <3>2. last <=> (end >= n \/ its = <<>>)
      BY <1>7, <2>1, <3>1, Zenon
    <3> QED
      BY <3>2
  <2>11. ~last => end = Offset(page + 1)
    <3>1. Offset(page + 1) = c + P
      BY <2>2, <2>3, OffsetNext
    <3>2. end < n => end = c + P
      BY <2>6
    <3> QED
      BY <2>10, <3>1, <3>2
  <2>12. last => end = n
    <3>1. its = <<>> => end = c
      BY <2>7
    <3> QED
      <4>1. end = c => end = n
        BY <2>2, <2>5, <2>6
      <4>2. end >= n => end = n
        OBVIOUS
      <4> QED
        BY <2>10, <3>1, <4>1, <4>2
  <2> QED
    BY <2>6, <2>8, <2>9, <2>11, <2>12
<1>13. ASSUME walk'.on, ~walk'.disturbed
       PROVE  Len(walk'.seen) = Offset(walk'.page) /\ ReadInOrder'
  <2>1. ~walk.disturbed /\ ~last /\ walk'.seen = read /\ walk'.page = page + 1 /\ walk'.filter = filter
    BY <1>1, <1>2, <1>3, <1>8, <1>10, <1>13 DEF Walk
  <2>2. PICK end \in 0..n : /\ Len(read) = end /\ \A i \in 1..end : read[i] = store[f[i]].id
                            /\ end = Offset(page + 1)
    BY <1>12, <2>1
  <2>3. PICK q : q = [i \in 1..end |-> f[i]]
    OBVIOUS
  <2>4. q \in [1..end -> Matched(filter)] /\ DOMAIN q = 1..end /\ \A i \in 1..end : q[i] = f[i]
    BY <2>3
  <2>5. \A i, j \in DOMAIN q : i < j => <<q[i], q[j]>> \in ByIdOrder
    BY <1>4, <1>5, <2>4
  <2>6. ASSUME NEW x \in Matched(filter), x \notin Range(q), NEW i \in 1..end
        PROVE  <<q[i], x>> \in ByIdOrder
    <3>1. PICK j \in 1..n : x = f[j]
      BY <1>4, <1>5 DEF Range
    <3>2. j > end
      BY <2>4, <2>6, <3>1 DEF Range
    <3> QED
      BY <1>4, <1>5, <2>4, <3>1, <3>2
  <2>7. Leads(q, Matched(filter), ByIdOrder)
    BY <2>4, <2>5, <2>6 DEF Leads, InOrder
  <2>8. Matched(filter)' = Matched(filter) /\ ByIdOrder' = ByIdOrder /\ Matched(walk.filter)' = Matched(filter)
    BY <1>8, <2>1 DEF Matched, ByIdOrder
  <2>9. ReadInOrder'
    BY <1>8, <2>1, <2>2, <2>4, <2>7, <2>8 DEF ReadInOrder
  <2> QED
    BY <2>1, <2>2, <2>9 DEF Offset
<1>14. ASSUME walk'.over, ~walk.disturbed, ~Misfiled
       PROVE  /\ Range(walk'.seen) = Matched(walk.filter)
              /\ \A i, j \in DOMAIN walk'.seen : i < j => walk'.seen[i] < walk'.seen[j]
  <2>1. last /\ walk'.seen = read
    BY <1>1, <1>8, <1>10, <1>14 DEF Walk
  <2>2. Len(read) = n /\ \A i \in 1..n : read[i] = store[f[i]].id
    BY <1>12, <1>14, <2>1
  <2>3. ASSUME NEW i \in 1..n PROVE read[i] = f[i] /\ f[i] \in EntityId /\ f[i] \in Nat
    <3>1. f[i] \in Matched(filter)
      OBVIOUS
    <3>2. f[i] \in DOMAIN store /\ f[i] \in EntityId /\ f[i] \in Nat
      BY <1>1, <3>1, MatchedSound
    <3> QED
      BY <1>14, <2>2, <3>2 DEF Misfiled
  <2>4. DOMAIN read = 1..n /\ DOMAIN f = 1..n
    BY <1>10, <2>2
  <2>5. Range(read) = Range(f)
    BY <2>3, <2>4 DEF Range
  <2>6. ASSUME NEW i \in 1..n, NEW j \in 1..n, i < j PROVE read[i] < read[j]
    <3>1. <<f[i], f[j]>> \in ByIdOrder /\ f[i] \in DOMAIN store /\ f[j] \in DOMAIN store
      BY <1>1, <1>4, <1>5, <2>6, MatchedSound
    <3>2. store[f[i]].id = f[i] /\ store[f[j]].id = f[j]
      BY <1>14, <3>1 DEF Misfiled
    <3> QED
      BY <2>3, <3>1, <3>2 DEF ByIdOrder
  <2> QED
    BY <1>2, <1>3, <1>4, <1>5, <2>1, <2>4, <2>5, <2>6
<1>15. walk'.on => ~walk'.over
  BY <1>1, <1>8, <1>10 DEF Walk
<1> QED
  BY <1>15, <1>11, <1>13, <1>14 DEF WalkInv

LEMMA CreateKeepsWalk ==
  ASSUME ApiAssumption, WalkInv, NEW e \in Bodies, Create(e)
  PROVE  WalkInv' /\ (walk.on => ~walk'.over)
<1>1. /\ Disturb({e.id}) /\ e.id \notin DOMAIN store /\ e.id \in EntityId /\ e.id \in Nat
      /\ store' = [k \in DOMAIN store \union {e.id} |-> IF k = e.id THEN e ELSE store[k]]
  BY DEF Create, InsertRow, ApiAssumption
<1>2. /\ DOMAIN store' = DOMAIN store \union {e.id} /\ store'[e.id] = e
      /\ \A k \in DOMAIN store : store'[k] = store[k]
  BY <1>1
<1>3. Outside({e.id})
  BY <1>1, <1>2 DEF Outside
<1>4. IsFiniteSet(DOMAIN store')
  BY <1>2, FS_AddElement DEF WalkInv, StoreSound
<1>5. StoreSound'
  BY <1>1, <1>2, <1>4 DEF WalkInv, StoreSound
<1> QED
  BY <1>1, <1>3, <1>5, ChangeKeepsWalk

LEMMA ReplaceKeepsWalk ==
  ASSUME ApiAssumption, WalkInv, NEW k \in EntityId, NEW e \in Bodies, Replace(k, e)
  PROVE  WalkInv' /\ (walk.on => ~walk'.over)
<1>1. Disturb({store[k].id, e.id}) /\ k \in DOMAIN store /\ store' = [store EXCEPT ![k] = e]
  BY DEF Replace, PutRow
<1>2. DOMAIN store' = DOMAIN store /\ store'[k] = e /\ \A j \in DOMAIN store \ {k} : store'[j] = store[j]
  BY <1>1
<1>3. Outside({store[k].id, e.id})
  BY <1>1, <1>2 DEF Outside
<1>4. store[k] \in Bodies
  BY <1>1 DEF WalkInv, StoreSound
<1>5. {store[k].id, e.id} \in SUBSET Nat
  BY <1>4 DEF ApiAssumption
<1>6. StoreSound'
  BY <1>2 DEF WalkInv, StoreSound
<1> QED
  BY <1>1, <1>3, <1>5, <1>6, ChangeKeepsWalk

LEMMA DeleteKeepsWalk ==
  ASSUME ApiAssumption, WalkInv, NEW k \in EntityId, Delete(k)
  PROVE  WalkInv' /\ (walk.on => ~walk'.over)
<1>1. Disturb({store[k].id}) /\ k \in DOMAIN store /\ store' = [j \in DOMAIN store \ {k} |-> store[j]]
  BY DEF Delete, RemoveRow
<1>2. DOMAIN store' = DOMAIN store \ {k} /\ \A j \in DOMAIN store' : store'[j] = store[j]
  BY <1>1
<1>3. Outside({store[k].id})
  BY <1>1, <1>2 DEF Outside
<1>4. store[k] \in Bodies
  BY <1>1 DEF WalkInv, StoreSound
<1>5. {store[k].id} \in SUBSET Nat
  BY <1>4 DEF ApiAssumption
<1>6. IsFiniteSet(DOMAIN store')
  BY <1>2, FS_Subset DEF WalkInv, StoreSound
<1>7. StoreSound'
  BY <1>2, <1>6 DEF WalkInv, StoreSound
<1> QED
  BY <1>1, <1>3, <1>5, <1>7, ChangeKeepsWalk

\* A walk begins with nothing read, which is the beginning of any list.
LEMMA StartKeepsWalk ==
  ASSUME ApiAssumption, WalkInv, NEW filter \in Filters, StartWalk(filter)
  PROVE  WalkInv' /\ ~walk.on
<1>1. walk' = [NoWalk EXCEPT !.on = TRUE, !.filter = filter] /\ store' = store /\ ~walk.on
  BY DEF StartWalk
<1>2. /\ walk'.on /\ ~walk'.over /\ walk'.filter = filter /\ walk'.page = 1 /\ walk'.seen = <<>>
      /\ ~walk'.disturbed
  BY <1>1 DEF NoWalk
<1>3. walk' \in Walk
  <2>1. walk' = [on |-> TRUE, filter |-> filter, page |-> 1, seen |-> <<>>, disturbed |-> FALSE, over |-> FALSE]
    BY <1>1 DEF NoWalk
  <2>2. <<>> \in Seq(Nat) /\ 1 \in Nat \ {0} /\ filter \in Filters \union {{}}
    OBVIOUS
  <2> QED
    BY <2>1, <2>2 DEF Walk
<1>4. StoreSound'
  BY <1>1 DEF WalkInv, StoreSound
<1>5. Len(walk'.seen) = Offset(walk'.page)
  BY <1>2, OffsetNext
<1>6. ReadInOrder'
  <2>1. PICK q : q = [i \in 1..0 |-> i]
    OBVIOUS
  <2>2. DOMAIN q = {} /\ Range(q) = {}
    BY <2>1 DEF Range
  <2>3. q \in [1..0 -> Matched(walk.filter)']
    BY <2>1
  <2>4. Leads(q, Matched(walk.filter)', ByIdOrder')
    BY <2>2 DEF Leads, InOrder
  <2>5. q \in [1..Len(walk'.seen) -> Matched(walk.filter)'] /\ \A i \in 1..Len(walk'.seen) : FALSE
    BY <1>2, <2>3
  <2> QED
    BY <2>4, <2>5 DEF ReadInOrder
<1> QED
  BY <1>1, <1>2, <1>3, <1>4, <1>5, <1>6 DEF WalkInv

LEMMA WalkInit ==
  ASSUME ApiInit
  PROVE  WalkInv
<1>1. walk = NoWalk /\ store = <<>>
  BY DEF ApiInit
<1>2. walk \in Walk /\ ~walk.on
  BY <1>1 DEF NoWalk, Walk
<1>3. DOMAIN store = {}
  BY <1>1
<1>4. StoreSound
  BY <1>3, FS_EmptySet DEF StoreSound
<1> QED
  BY <1>2, <1>4 DEF WalkInv

LEMMA WalkStep ==
  ASSUME ApiAssumption, WalkInv, [ApiNext]_apivars
  PROVE  /\ WalkInv'
         /\ (walk.on /\ walk'.over /\ ~walk.disturbed /\ ~Misfiled) =>
              /\ Range(walk'.seen) = Matched(walk.filter)
              /\ \A i, j \in DOMAIN walk'.seen : i < j => walk'.seen[i] < walk'.seen[j]
<1>1. CASE \E e \in Bodies : Create(e) \/ \E k \in EntityId : Replace(k, e)
  BY <1>1, CreateKeepsWalk, ReplaceKeepsWalk
<1>2. CASE \E k \in EntityId : Delete(k)
  BY <1>2, DeleteKeepsWalk
<1>3. CASE \E filter \in Filters : StartWalk(filter)
  BY <1>3, StartKeepsWalk
<1>4. CASE ListPage
  BY <1>4, PageKeepsWalk
<1>5. CASE UNCHANGED apivars
  <2>1. walk' = walk /\ store' = store
    BY <1>5 DEF apivars
  <2>2. WalkInv'
    <3>1. /\ \A filter : Matched(filter)' = Matched(filter)
          /\ ByIdOrder' = ByIdOrder
      BY <2>1 DEF Matched, ByIdOrder
    <3>2. ReadInOrder => ReadInOrder'
      BY <2>1, <3>1 DEF ReadInOrder, Matched
    <3> QED
      BY <2>1, <3>2 DEF WalkInv, StoreSound, Offset
  <2> QED
    BY <2>1, <2>2 DEF WalkInv
<1> QED
  BY <1>1, <1>2, <1>3, <1>4, <1>5 DEF ApiNext

(* Whatever is requested, in whatever order, and whichever answers are     *)
(* lost: an id is stored exactly when it was created once more than        *)
(* deleted, nothing invalid is stored, on a storefront router records      *)
(* stand, and a client that reads a list to its end, in pages of any size, *)
(* has each matching row once and in order unless a row it had passed was  *)
(* touched or an entity lies under an id not its own (tpt_api.rs,          *)
(* repository.rs, postgres_repo.rs).                                       *)
THEOREM ApiIsTruthful == ApiSpec => ApiTruthful
<1>1. ApiInv /\ [ApiNext]_apivars => ApiInv'
  BY ApiNextKeeps
<1>2. ApiInv /\ [ApiNext]_apivars =>
        [policy = "CustomerAuth" => \A k \in DOMAIN store : k \in DOMAIN store' /\ store'[k] = store[k]]_apivars
  BY ApiNextKeeps
<1>3. ApiInv => AnswersAreTrue /\ OnlyValidStored
  BY DEF ApiInv
<1>4. WalkInv /\ [ApiNext]_apivars => WalkInv'
  BY WalkStep, ApiAssumption
<1>5. WalkInv /\ [ApiNext]_apivars =>
        [(walk.on /\ walk'.over /\ ~walk.disturbed /\ ~Misfiled) =>
           /\ Range(walk'.seen) = Matched(walk.filter)
           /\ \A i, j \in DOMAIN walk'.seen : i < j => walk'.seen[i] < walk'.seen[j]]_apivars
  BY WalkStep, ApiAssumption
<1>6. ApiInit => ApiInv /\ WalkInv
  BY ApiInitInv, WalkInit
<1> QED
  BY <1>1, <1>2, <1>3, <1>4, <1>5, <1>6, PTL DEF ApiSpec, RecordsStand, WalkIsExact, ApiTruthful
=============================================================================
