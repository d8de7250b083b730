----------------------------- MODULE RedisCache -----------------------------
(***************************************************************************)
(* The Redis session store and read-model cache                            *)
(* (crates/tpt-erp-cache/src/redis_impl.rs).  A call is a series of        *)
(* commands: each is atomic at the server, fails on its own, and other     *)
(* calls' commands come in between.  Time is in Grain-ths of a second; the *)
(* server's lifetimes are whole seconds.                                   *)
(***************************************************************************)
EXTENDS Integers

CONSTANTS
  RTask,       \* calls under way at once
  RSession,    \* session ids, each created at most once
  RTenantOf,   \* the tenant each session is drawn for
  RLife,       \* the lifetime sessions are drawn with, in Grain-ths of a second
  Grain,
  RKey,        \* the read-model keys of one (tenant, model) and of others
  RPattern,    \* the keys the pattern of invalidate_model matches
  MaxRTime, MaxRCalls, \* bounds
  NoSession

ASSUME RedisAssumption ==
  /\ RTenantOf \in [RSession -> {RTenantOf[s] : s \in RSession}]
  /\ Grain \in Nat \ {0} /\ RLife \in Nat /\ RPattern \subseteq RKey
  /\ MaxRTime \in Nat /\ MaxRCalls \in Nat /\ NoSession \notin RSession

VARIABLES
  rNow,      \* the clock
  keys,      \* tpt:sess:{id}: [expires (in the JSON), ttl (the server's)]
  owned,     \* tpt:sess:tenant:{tid}
  rviews,    \* tpt:rm:..., the keys present
  task,      \* the call each task is in
  rCalls,
  drawn,   \* history: ids drawn
  orphans,   \* history: sessions that an error, a touch of a deleted session or a
             \* purge overtaking their create left out of their tenant's set
  returned,  \* history: the sessions get has returned, with the time of the answer
  leftover   \* history: keys present since invalidate_model began, when it answered

rcvars == <<rNow, keys, owned, rviews, task, rCalls, drawn, orphans, returned, leftover>>

RTenants == {RTenantOf[s] : s \in RSession}
Call(at, id, found, todo) ==
  [at |-> at, id |-> id, found |-> found, todo |-> todo, alone |-> TRUE]
NoTask == Call("idle", NoSession, <<>>, {})

RcInit ==
  /\ rNow = 0 /\ keys = [s \in {} |-> 0] /\ rviews = {}
  /\ owned = [t \in RTenants |-> {}]
  /\ task = [c \in RTask |-> NoTask]
  /\ rCalls = 0 /\ drawn = {} /\ orphans = {} /\ returned = {} /\ leftover = {}

Busy == {c \in RTask : task[c].at # "idle"}
\* A call begins: it, and every call under way, is not alone.
StartCall(c, r) ==
  /\ task[c].at = "idle" /\ rCalls < MaxRCalls /\ rCalls' = rCalls + 1
  /\ task' = [d \in RTask |-> IF d = c THEN [r EXCEPT !.alone = (Busy = {})]
                              ELSE [task[d] EXCEPT !.alone = FALSE]]
To(c, at, id, found, todo) ==
  task' = [task EXCEPT ![c] = [at |-> at, id |-> id, found |-> found, todo |-> todo,
                               alone |-> task[c].alone]]
Done(c) == task' = [task EXCEPT ![c] = NoTask]

\* The server drops a key whose lifetime is over: nobody sees it from then on.
Live == {s \in DOMAIN keys : rNow < keys[s].ttl}
WholeSeconds(d) == Grain * (d \div Grain)
SetEx(s, expires, lifetime) ==
  keys' = [x \in DOMAIN keys \union {s} |->
             IF x = s THEN [expires |-> expires, ttl |-> rNow + lifetime] ELSE keys[x]]
Del(s) == keys' = [x \in DOMAIN keys \ {s} |-> keys[x]]

-----------------------------------------------------------------------------
(* create: the session, then its id into the tenant's set.                 *)

CreateSet(c, s) ==
  /\ s \notin drawn
  /\ StartCall(c, Call("sadd", s, <<>>, {}))
  /\ SetEx(s, rNow + RLife, WholeSeconds(RLife))
  /\ drawn' = drawn \union {s}
  /\ UNCHANGED <<rNow, owned, rviews, orphans, returned, leftover>>

\* The SADD fails, or the process dies before it: the session stays without an owner.
CreateAdd(c, ok) ==
  LET s == task[c].id IN
  /\ task[c].at = "sadd"
  /\ IF ok THEN owned' = [owned EXCEPT ![RTenantOf[s]] = @ \union {s}] /\ UNCHANGED orphans
           ELSE orphans' = orphans \union {s} /\ UNCHANGED owned
  /\ Done(c)
  /\ UNCHANGED <<rNow, keys, rviews, rCalls, drawn, returned, leftover>>

-----------------------------------------------------------------------------
(* get: the session, and its deletion when the JSON says it has expired.   *)

ReadSession(c, s) ==
  LET alive == s \in Live /\ ~(rNow > keys[s].expires) IN
  /\ StartCall(c, IF s \in Live /\ ~alive THEN Call("drop", s, <<>>, {}) ELSE NoTask)
  /\ returned' = IF alive THEN returned \union {<<s, rNow, keys[s].expires>>} ELSE returned
  /\ UNCHANGED <<rNow, keys, owned, rviews, drawn, orphans, leftover>>

DropExpired(c, ok) ==
  /\ task[c].at = "drop" /\ Done(c)
  /\ IF ok THEN Del(task[c].id) ELSE UNCHANGED keys
  /\ UNCHANGED <<rNow, owned, rviews, rCalls, drawn, orphans, returned, leftover>>

-----------------------------------------------------------------------------
(* touch: read, and write back under what is left of the lifetime.         *)

TouchRead(c, s) ==
  /\ s \in Live
  /\ StartCall(c, Call("setex", s, <<keys[s].expires, WholeSeconds(keys[s].expires - rNow)>>, {}))
  /\ UNCHANGED <<rNow, keys, owned, rviews, drawn, orphans, returned, leftover>>

\* Written whether or not the session is still there; nothing is written in its last
\* second.  A session deleted in between comes back, its id in no set.
TouchWrite(c, ok) ==
  LET s == task[c].id
      lifetime == task[c].found[2]
  IN
  /\ task[c].at = "setex" /\ Done(c)
  /\ IF ok /\ lifetime >= Grain
     THEN /\ SetEx(s, task[c].found[1], lifetime)
          /\ orphans' = IF s \in Live THEN orphans ELSE orphans \union {s}
     ELSE UNCHANGED <<keys, orphans>>
  /\ UNCHANGED <<rNow, owned, rviews, rCalls, drawn, returned, leftover>>

-----------------------------------------------------------------------------
(* delete: the id leaves its set, then the session goes.                   *)

DeleteRead(c, s) ==
  /\ s \in drawn
  /\ StartCall(c, Call(IF s \in Live THEN "srem" ELSE "del", s, <<>>, {}))
  /\ UNCHANGED <<rNow, keys, owned, rviews, drawn, orphans, returned, leftover>>

\* Errors of SREM and DEL are passed over.
DeleteRemove(c, ok) ==
  LET s == task[c].id IN
  /\ task[c].at = "srem" /\ To(c, "del", s, <<>>, {})
  /\ owned' = IF ok THEN [owned EXCEPT ![RTenantOf[s]] = @ \ {s}] ELSE owned
  /\ UNCHANGED <<rNow, keys, rviews, rCalls, drawn, orphans, returned, leftover>>

DeleteKey(c, ok) ==
  LET s == task[c].id IN
  /\ task[c].at = "del" /\ Done(c)
  /\ IF ok THEN Del(s) /\ UNCHANGED orphans
     ELSE UNCHANGED keys /\ orphans' = orphans \union {s}
  /\ UNCHANGED <<rNow, owned, rviews, rCalls, drawn, returned, leftover>>

-----------------------------------------------------------------------------
(* delete_for_tenant: the members, each of their keys, the set.            *)

\* variant: the set is dropped before its members are read
PurgeRead_late(c, t) ==
  /\ StartCall(c, Call("purge", t, {}, {}))
  /\ owned' = [owned EXCEPT ![t] = {}]
  /\ UNCHANGED <<rNow, keys, rviews, drawn, orphans, returned, leftover>>

PurgeRead(c, t) ==
  /\ StartCall(c, Call("purge", t, owned[t], owned[t]))
  /\ UNCHANGED <<rNow, keys, owned, rviews, drawn, orphans, returned, leftover>>

PurgeKey(c, s, ok) ==
  /\ task[c].at = "purge" /\ s \in task[c].todo
  /\ To(c, "purge", task[c].id, task[c].found, task[c].todo \ {s})
  /\ IF ok THEN Del(s) /\ UNCHANGED orphans
     ELSE UNCHANGED keys /\ orphans' = orphans \union {s}
  /\ UNCHANGED <<rNow, owned, rviews, rCalls, drawn, returned, leftover>>

\* Ids that joined the set meanwhile go with it, their sessions stay.
PurgeSet(c, ok) ==
  /\ task[c].at = "purge" /\ task[c].todo = {} /\ Done(c)
  /\ IF ok THEN /\ owned' = [owned EXCEPT ![task[c].id] = {}]
                /\ orphans' = orphans \union (owned[task[c].id] \ task[c].found)
           ELSE UNCHANGED <<owned, orphans>>
  /\ UNCHANGED <<rNow, keys, rviews, rCalls, drawn, returned, leftover>>

-----------------------------------------------------------------------------
(* Read models.                                                            *)

Scanning == {"scan", "unlink"}

\* A key that is put anew has not been there since a scan under way began.
PutKey(k) ==
  /\ rviews' = rviews \union {k} /\ rviews' # rviews
  /\ task' = [c \in RTask |-> IF task[c].at \in Scanning
                             THEN [task[c] EXCEPT !.found = @ \ {k}] ELSE task[c]]
  /\ UNCHANGED <<rNow, keys, owned, rCalls, drawn, orphans, returned, leftover>>

InvalidateKey(k) ==
  /\ rviews' = rviews \ {k} /\ rviews' # rviews
  /\ UNCHANGED <<rNow, keys, owned, task, rCalls, drawn, orphans, returned, leftover>>

\* invalidate_model: todo is what SCAN still owes, every key there when it began;
\* found is the history of those that nobody put anew and no DEL failed on.
StartScan(c) ==
  /\ StartCall(c, Call("scan", NoSession, rviews \intersect RPattern, rviews \intersect RPattern))
  /\ UNCHANGED <<rNow, keys, owned, rviews, drawn, orphans, returned, leftover>>

\* SCAN gives a page, possibly empty, of keys it owes and of others that match, or fails.
ScanPage(c, page) ==
  /\ task[c].at = "scan" /\ page \subseteq task[c].todo \union rviews
  /\ \/ To(c, "unlink", page, task[c].found, task[c].todo \ page)
     \/ page = {} /\ Done(c)
  /\ UNCHANGED <<rNow, keys, owned, rviews, rCalls, drawn, orphans, returned, leftover>>

\* DEL of the page, whose error is passed over; a cursor of zero ends the scan.
Unlink(c, ok) ==
  LET page == task[c].id
      found == IF ok THEN task[c].found ELSE task[c].found \ page
  IN
  /\ task[c].at = "unlink"
  /\ rviews' = IF ok THEN rviews \ page ELSE rviews
  /\ \/ To(c, "scan", NoSession, found, task[c].todo)
        /\ UNCHANGED leftover
     \/ /\ task[c].todo = {} /\ Done(c)
        /\ leftover' = leftover \union (found \intersect rviews')
  /\ UNCHANGED <<rNow, keys, owned, rCalls, drawn, orphans, returned>>

RTick ==
  /\ rNow < MaxRTime /\ rNow' = rNow + 1
  /\ UNCHANGED <<keys, owned, rviews, task, rCalls, drawn, orphans, returned, leftover>>

RSessionStep ==
  \/ \E c \in RTask, s \in RSession :
       CreateSet(c, s) \/ ReadSession(c, s) \/ TouchRead(c, s) \/ DeleteRead(c, s)
  \/ \E c \in RTask, ok \in BOOLEAN : \/ CreateAdd(c, ok) \/ DeleteRemove(c, ok) \/ DeleteKey(c, ok)
                                    \/ DropExpired(c, ok) \/ TouchWrite(c, ok) \/ PurgeSet(c, ok)
  \/ \E c \in RTask, t \in RTenants : PurgeRead(c, t)
  \/ \E c \in RTask, s \in RSession, ok \in BOOLEAN : PurgeKey(c, s, ok)
RViewStep ==
  \/ \E c \in RTask : \/ StartScan(c) \/ \E page \in SUBSET RPattern : ScanPage(c, page)
                     \/ \E ok \in BOOLEAN : Unlink(c, ok)
  \/ \E k \in RKey : PutKey(k) \/ InvalidateKey(k)

RcNext == RSessionStep \/ RViewStep \/ RTick

RcSpec == RcInit /\ [][RcNext]_rcvars

-----------------------------------------------------------------------------
(* Properties.                                                             *)

\* No reader is given a session past its deadline, although a touch that is late can
\* make the server keep the key for longer.
ReadsAreCurrent == \A r \in returned : r[2] <= r[3]

\* A purge that no other call overlapped takes every session of its tenant, but for
\* those that lost their place in the set to an error or to a touch.
PurgeAloneIsComplete ==
  [][\A c \in RTask : task[c].at = "purge" /\ task'[c].at = "idle" /\ task[c].alone =>
       \A s \in DOMAIN keys' : RTenantOf[s] # task[c].id \/ s \in orphans]_rcvars

\* When invalidate_model answers, nothing that was cached since before it began is left,
\* but for what a DEL has failed on.
ScanLeavesNothing == leftover = {}

\* What the Redis cache promises although its calls interleave command by command and
\* each command may fail: reads are current, a scan and an undisturbed purge are
\* complete.
RemoteCacheHolds ==
  /\ []ReadsAreCurrent
  /\ []ScanLeavesNothing
  /\ PurgeAloneIsComplete
=============================================================================
