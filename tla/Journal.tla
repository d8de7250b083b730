------------------------------ MODULE Journal ------------------------------
(***************************************************************************)
(* The multi-currency journal engine (examples/gl/src/journal.rs) and the  *)
(* close of a period over it (examples/gl/src/close.rs): concurrent posts  *)
(* that lock one shard per account in account order, optional version      *)
(* guards, a balance cache written after the locks are dropped, rebuilds   *)
(* that visit the shards one by one, and the period's life cycle.          *)
(*                                                                         *)
(* A shard lock is a non-reentrant mutex, so a post whose accounts share a *)
(* shard waits for itself.  Which accounts share one is decided by a hash: *)
(* `shardOf` is chosen at the start and never changes.                     *)
(***************************************************************************)
EXTENDS Accounts

CONSTANTS
  Poster,      \* tasks that use the engine
  Period,      \* accounting periods
  Shard,       \* 0 .. SHARDS-1, smaller in the runs (bound)
  ShardMaps,   \* the hashes considered, functions from Account to Shard
  Offered,     \* the entry lists posters come with, not all of them valid
  Retained,    \* the retained earnings account
  MaxTx,       \* transactions that may be begun (bound)
  MaxRebuild,  \* rebuilds and statements that may be begun (bound)
  WithBalanceCache,  \* whether with_cache() attached a cache
  Nobody       \* no poster, no entry

ASSUME JournalAssumption ==
  /\ Shard \subseteq Nat /\ ShardMaps \subseteq [Account -> Shard] /\ Account \subseteq Nat
  /\ IsFiniteSet(Account) /\ Offered \subseteq Seq(LedgerEntry)
  /\ MaxTx \in Nat /\ MaxRebuild \in Nat /\ Retained \in Chart
  /\ WithBalanceCache \in BOOLEAN /\ Nobody \notin Poster

VARIABLES
  shardOf,      \* JournalEngine::shard_index
  legs,         \* Shard::store: the log of each account
  balances,     \* Shard::balances
  lockedBy,     \* who holds each shard's mutex
  closedIn,     \* JournalEngine::period_status
  workflow,     \* CloseWorkflow::period, its status for each period
  balanceCache, \* the "gl-balance" entries
  call,         \* what each poster is doing
  lastReport,   \* the projection the last rebuild returned
  begun,        \* history: the transactions begun, by number
  raced,        \* history: accounts two writers of the cache overlapped on, or
                \* that a post changed and then failed
  missed,       \* history: accounts whose last put failed, or was never tried
  torn,         \* history: readers a post crossed: it changed an account they had
                \* read and one they had still to read
  rebuilds      \* rebuilds and statements begun

jvars == <<shardOf, legs, balances, lockedBy, closedIn, workflow, balanceCache,
           call, lastReport, begun, raced, missed, torn, rebuilds>>

NoEntries == [a \in {} |-> 0]
\* A call that posts nothing: it reads shards, or writes what it has seen.
Serving(where, scope, todo, seen, stale) ==
  [at |-> where, entries |-> <<>>, period |-> scope, guard |-> NoEntries,
   tx |-> 0, todo |-> todo, seen |-> seen, stale |-> stale]
Resting == Serving("idle", Nobody, {}, NoEntries, {})

JInit ==
  /\ shardOf \in ShardMaps
  /\ legs = [a \in Account |-> <<>>]
  /\ balances = [a \in Account |-> ZeroBalance]
  /\ lockedBy = [s \in Shard |-> Nobody]
  /\ closedIn = [p \in Period |-> "none"]
  /\ workflow = [p \in Period |-> "Open"]
  /\ balanceCache = NoEntries
  /\ call = [c \in Poster |-> Resting]
  /\ lastReport = [a \in Account |-> ZeroBalance]
  /\ begun = <<>> /\ raced = {} /\ missed = {} /\ torn = {} /\ rebuilds = 0

AccountsOf(entries) == {entries[i].account : i \in DOMAIN entries}
Closed(p) == closedIn[p] \in {"Closed", "Locked"}
InState(c, where) == call[c].at = where
Becomes(c, r) == call' = [call EXCEPT ![c] = r]
Rests(c) == Becomes(c, Resting)
ReleaseAll(c) == lockedBy' = [s \in Shard |-> IF lockedBy[s] = c THEN Nobody ELSE lockedBy[s]]
Books == <<legs, balances>>
Fixed == <<shardOf, workflow, lastReport, rebuilds>>
Seen == <<raced, missed, torn>>

-----------------------------------------------------------------------------
(* Posting.                                                                *)

\* The call posts `entries` from here on: validated, its accounts to be locked.
Posts(entries, p, guard) ==
  [at |-> "lock", entries |-> entries, period |-> p, guard |-> guard,
   tx |-> Len(begun) + 1, todo |-> AccountsOf(entries), seen |-> NoEntries, stale |-> {}]
Begins(entries, p, guard) ==
  begun' = Append(begun, [entries |-> entries, guarded |-> guard # NoEntries,
                          afterClose |-> Closed(p)])

\* post_transaction, post_transaction_sync and post_transaction_guarded; the guard
\* maps every account to the version its client has seen.  Entries that do not
\* validate end here.
StartPost(c, entries, p, guard) ==
  /\ InState(c, "idle") /\ Len(begun) < MaxTx
  /\ Validates(entries)
  /\ Becomes(c, Posts(entries, p, guard)) /\ Begins(entries, p, guard)
  /\ UNCHANGED <<Books, lockedBy, closedIn, balanceCache, Seen, Fixed>>

\* variant: the accounts are locked as the entries name them
NextAccount_asNamed(c) ==
  LET es == call[c].entries
      first == CHOOSE i \in DOMAIN es : /\ es[i].account \in call[c].todo
                                        /\ \A j \in 1..(i - 1) : es[j].account \notin call[c].todo
  IN es[first].account

\* The shards are locked in account order.
NextAccount(c) == Min(call[c].todo)
NextLock(c) == lockedBy[shardOf[NextAccount(c)]]

\* One more shard; a poster that already holds the shard waits for itself.
LockNext(c) ==
  /\ InState(c, "lock") /\ call[c].todo # {}
  /\ NextLock(c) = Nobody
  /\ lockedBy' = [lockedBy EXCEPT ![shardOf[NextAccount(c)]] = c]
  /\ Becomes(c, [call[c] EXCEPT !.todo = @ \ {NextAccount(c)}])
  /\ UNCHANGED <<Books, closedIn, balanceCache, begun, Seen, Fixed>>

\* The period's status is read under its own lock, released before the append.
CheckPeriod(c) ==
  /\ InState(c, "lock") /\ call[c].todo = {}
  /\ IF Closed(call[c].period)
       THEN Rests(c) /\ ReleaseAll(c)
       ELSE Becomes(c, [call[c] EXCEPT !.at = "append"]) /\ UNCHANGED lockedBy
  /\ UNCHANGED <<Books, closedIn, balanceCache, begun, Seen, Fixed>>

Guarded(c) == call[c].guard # NoEntries

VersionsMatch(c) ==
  Guarded(c) => \A a \in AccountsOf(call[c].entries) : call[c].guard[a] = Len(legs[a])

\* The entries that get appended.  A guarded post stops at the first leg whose
\* account is not at the version it was given: at the second leg of an account.
Appended(c) ==
  LET es == call[c].entries
      Before(i) == Cardinality({j \in 1..(i - 1) : es[j].account = es[i].account})
      refused == {i \in DOMAIN es :
                    Guarded(c) /\ call[c].guard[es[i].account] # Len(legs[es[i].account]) + Before(i)}
  IN IF refused = {} THEN es ELSE SubSeq(es, 1, Min(refused) - 1)

\* Every entry in turn: a leg appended to its account's log, and applied to its
\* balance.
WithLegs(log, entries, tx, p) ==
  FoldLeft(LAMBDA l, e : [l EXCEPT ![e.account] =
             Append(@, [tx |-> tx, side |-> e.side, amount |-> e.amount, period |-> p])], log, entries)
WithEntries(bal, entries) ==
  FoldLeft(LAMBDA b, e : [b EXCEPT ![e.account] = WithLeg(@, e)], bal, entries)

\* Accounts whose cache entry somebody else is still going to write.
WillCache(c) == InState(c, "cache") \/ (InState(c, "rebuild") /\ call[c].period = Nobody)
Pending(c) == UNION {DOMAIN call[d].seen : d \in {e \in Poster \ {c} : WillCache(e)}}

\* Reading the ledger: a rebuild of all of it, or a statement.
Reads(c) == InState(c, "statement") \/ (InState(c, "rebuild") /\ call[c].period = Nobody)
Crosses(accounts, c) == Reads(c) /\ accounts \cap call[c].todo # {} /\ accounts \ call[c].todo # {}

\* Versions, appends and balances under the shard locks, which are dropped on
\* the way out; the new balances are carried off to be cached.  Only
\* post_transaction_sync throws them away.
AppendLegs(c) ==
  LET changed == AccountsOf(Appended(c))
  IN /\ InState(c, "append") /\ ReleaseAll(c)
     /\ IF ~VersionsMatch(c) THEN Rests(c) /\ UNCHANGED <<Books, Seen>>
        ELSE /\ legs' = WithLegs(legs, Appended(c), call[c].tx, call[c].period)
             /\ balances' = WithEntries(balances, Appended(c))
             /\ raced' = raced \cup {a \in changed : a \in Pending(c) \/ Appended(c) # call[c].entries}
             /\ torn' = torn \cup {d \in Poster : Crosses(changed, d)}
             /\ \/ /\ Appended(c) = call[c].entries /\ WithBalanceCache
                   /\ Becomes(c, Serving("cache", Nobody, {},
                                         [a \in AccountsOf(call[c].entries) |-> balances'[a]], {}))
                   /\ UNCHANGED missed
                \/ /\ Appended(c) = call[c].entries /\ WithBalanceCache => ~Guarded(c)
                   /\ Rests(c) /\ missed' = missed \cup changed
     /\ UNCHANGED <<closedIn, balanceCache, begun, Fixed>>

\* write_cache, one entry at a time; a put that fails is ignored.
WriteBalance(c, a) ==
  /\ InState(c, "cache") /\ a \in DOMAIN call[c].seen
  /\ \/ /\ balanceCache' = [b \in DOMAIN balanceCache \cup {a} |->
                              IF b = a THEN call[c].seen[a] ELSE balanceCache[b]]
        /\ missed' = missed \ {a}
     \/ missed' = missed \cup {a} /\ UNCHANGED balanceCache
  /\ IF DOMAIN call[c].seen = {a} THEN Rests(c)
     ELSE Becomes(c, [call[c] EXCEPT !.seen = [b \in DOMAIN @ \ {a} |-> @[b]]])
  /\ UNCHANGED <<Books, lockedBy, closedIn, begun, raced, torn, Fixed>>

-----------------------------------------------------------------------------
(* Rebuilding, statements, closing entries: all read the shards one by one. *)

\* rebuild_read_models and, for one period, rebuild_read_models_for_period:
\* `todo` are the accounts of the shards still to visit.
StartRebuild(c, scope) ==
  /\ InState(c, "idle") /\ rebuilds < MaxRebuild /\ rebuilds' = rebuilds + 1
  /\ Becomes(c, Serving("rebuild", scope, Account, NoEntries, {}))
  /\ UNCHANGED <<Books, lockedBy, closedIn, balanceCache, begun, Seen, shardOf, workflow, lastReport>>

InScope(a, scope) ==
  IF scope = Nobody THEN legs[a] ELSE SelectSeq(legs[a], LAMBDA l : l.period = scope)

\* The next shard, in index order, with its accounts.
NextShard(c) == Min({shardOf[a] : a \in call[c].todo})
ReadShard(c) ==
  LET here == {a \in call[c].todo : shardOf[a] = NextShard(c)}
  IN /\ InState(c, "rebuild") /\ call[c].todo # {}
     /\ lockedBy[NextShard(c)] = Nobody
     /\ Becomes(c, Serving("rebuild", call[c].period, call[c].todo \ here,
          [a \in DOMAIN call[c].seen \cup {b \in here : InScope(b, call[c].period) # <<>>} |->
             IF a \in here THEN Replayed(InScope(a, call[c].period)) ELSE call[c].seen[a]], {}))
     /\ raced' = IF WillCache(c) THEN raced \cup (Pending(c) \cap here) ELSE raced
     /\ UNCHANGED <<Books, lockedBy, closedIn, balanceCache, begun, missed, torn, Fixed>>

\* The balances a reader comes to; those it has no legs of are zero.
AsRead(c) == [a \in Account |-> IF a \in DOMAIN call[c].seen THEN call[c].seen[a] ELSE ZeroBalance]

EndRebuild(c) ==
  /\ InState(c, "rebuild") /\ call[c].todo = {}
  /\ lastReport' = AsRead(c)
  /\ IF WithBalanceCache /\ WillCache(c) /\ DOMAIN call[c].seen # {}
       THEN Becomes(c, [call[c] EXCEPT !.at = "cache"]) ELSE Rests(c)
  /\ torn' = torn \ {c}
  /\ UNCHANGED <<Books, lockedBy, closedIn, balanceCache, begun, raced, missed, shardOf, workflow, rebuilds>>

\* trial_balance_now and balance_sheet_now: every account of the chart, each under
\* its own shard lock, in the order of a hash map.  The sheet reads the temporary ones
\* twice and uses the second reading only.
StartStatement(c) ==
  /\ InState(c, "idle") /\ rebuilds < MaxRebuild /\ rebuilds' = rebuilds + 1
  /\ Becomes(c, Serving("statement", Nobody, Chart, NoEntries, {}))
  /\ UNCHANGED <<Books, lockedBy, closedIn, balanceCache, begun, Seen, shardOf, workflow, lastReport>>

ReadAccount(c, a) ==
  /\ InState(c, "statement") /\ a \in call[c].todo /\ lockedBy[shardOf[a]] = Nobody
  /\ Becomes(c, Serving("statement", Nobody, call[c].todo \ {a},
       [b \in DOMAIN call[c].seen \cup {a} |-> IF b = a THEN balances[a] ELSE call[c].seen[b]], {}))
  /\ UNCHANGED <<Books, lockedBy, closedIn, balanceCache, begun, Seen, Fixed>>

EndStatement(c) ==
  /\ InState(c, "statement") /\ call[c].todo = {}
  /\ Rests(c) /\ torn' = torn \ {c}
  /\ UNCHANGED <<Books, lockedBy, closedIn, balanceCache, begun, raced, missed, Fixed>>

\* post_closing_entries: the temporary accounts are read one at a time, each
\* under its own shard lock, and the entries they give are posted.
StartClosing(c, p) ==
  /\ InState(c, "idle") /\ Len(begun) < MaxTx
  /\ Becomes(c, Serving("closing", p, {a \in Chart : ~Permanent(Kind[a])}, NoEntries, {}))
  /\ UNCHANGED <<Books, lockedBy, closedIn, balanceCache, begun, Seen, Fixed>>

ReadTemporary(c, a) ==
  /\ InState(c, "closing") /\ a \in call[c].todo /\ lockedBy[shardOf[a]] = Nobody
  /\ Becomes(c, Serving("closing", call[c].period, call[c].todo \ {a}, NoEntries,
                         call[c].stale \cup {<<a, balances[a]>>}))
  /\ UNCHANGED <<Books, lockedBy, closedIn, balanceCache, begun, Seen, Fixed>>

ReadBalances(c) == [a \in Account |->
  IF \E r \in call[c].stale : r[1] = a THEN (CHOOSE r \in call[c].stale : r[1] = a)[2]
                                       ELSE ZeroBalance]
PostClosing(c) ==
  LET entries == ClosingEntries(ReadBalances(c), Retained)
  IN /\ InState(c, "closing") /\ call[c].todo = {} /\ Len(begun) < MaxTx
     /\ IF Validates(entries)
          THEN Becomes(c, Posts(entries, call[c].period, NoEntries))
               /\ Begins(entries, call[c].period, NoEntries)
          ELSE Rests(c) /\ UNCHANGED begun
     /\ UNCHANGED <<Books, lockedBy, closedIn, balanceCache, Seen, Fixed>>

-----------------------------------------------------------------------------
(* Closing a period.                                                       *)

Transitions ==
  {<<"Open", "SoftClose">>, <<"SoftClose", "Reconciling">>, <<"Reconciling", "Closed">>,
   <<"Closed", "Locked">>, <<"Closed", "Reconciling">>, <<"Reconciling", "SoftClose">>,
   <<"SoftClose", "Open">>, <<"Locked", "Closed">>}

Engine == <<shardOf, Books, lockedBy, balanceCache, call, lastReport, begun, Seen, rebuilds>>
Advance(p, to) == <<workflow[p], to>> \in Transitions /\ workflow' = [workflow EXCEPT ![p] = to]
SetStatus(p, status) == closedIn' = [closedIn EXCEPT ![p] = status]

SoftClose(p) == Advance(p, "SoftClose") /\ UNCHANGED <<Engine, closedIn>>
BeginReconcile(p) == Advance(p, "Reconciling") /\ UNCHANGED <<Engine, closedIn>>
\* close, with the trial balance of the last report
Close(p) ==
  /\ Reports(lastReport).trialBalanced
  /\ Advance(p, "Closed") /\ SetStatus(p, "Closed") /\ UNCHANGED Engine
Lock(p) == Advance(p, "Locked") /\ SetStatus(p, "Locked") /\ UNCHANGED Engine
\* JournalEngine::close_period, without a workflow
ClosePeriod(p) == ~Closed(p) /\ SetStatus(p, "Closed") /\ UNCHANGED <<Engine, workflow>>

-----------------------------------------------------------------------------
\* A client guards a post with the versions it last saw; others may post before
\* this one has its locks.
Guards(entries) == {NoEntries, [a \in AccountsOf(entries) |-> Len(legs[a])]}

PostStep(c) ==
  \/ \E es \in Offered, p \in Period : \E g \in Guards(es) : StartPost(c, es, p, g)
  \/ \E scope \in Period \cup {Nobody} : StartRebuild(c, scope)
  \/ StartStatement(c)
  \/ \E p \in Period : StartClosing(c, p)
Continue(c) ==
  \/ LockNext(c) \/ CheckPeriod(c) \/ AppendLegs(c)
  \/ \E a \in Account : WriteBalance(c, a) \/ ReadAccount(c, a) \/ ReadTemporary(c, a)
  \/ ReadShard(c) \/ EndRebuild(c) \/ EndStatement(c) \/ PostClosing(c)
CloseStep(p) == SoftClose(p) \/ BeginReconcile(p) \/ Close(p) \/ Lock(p) \/ ClosePeriod(p)

JNext == (\E c \in Poster : PostStep(c) \/ Continue(c)) \/ (\E p \in Period : CloseStep(p))
JSpec == JInit /\ [][JNext]_jvars
-----------------------------------------------------------------------------
JTypeOK ==
  /\ shardOf \in ShardMaps
  /\ DOMAIN legs = Account /\ DOMAIN balances = Account
  /\ lockedBy \in [Shard -> Poster \cup {Nobody}]
  /\ DOMAIN balanceCache \subseteq Account /\ raced \subseteq Account
  /\ missed \subseteq Account /\ torn \subseteq Poster
  /\ workflow \in [Period -> {"Open", "SoftClose", "Reconciling", "Closed", "Locked"}]
  /\ closedIn \in [Period -> {"none", "Closed", "Locked"}]
  /\ \A c \in Poster :
       /\ call[c].at \in {"idle", "lock", "append", "cache", "rebuild", "statement", "closing"}
       /\ call[c].at \notin {"lock", "append"} => \A s \in Shard : lockedBy[s] # c

\* The running balances are what the log of legs replays to, whatever was
\* posted, rejected or refused half way (journal.rs:368-370).
BalancesMatchLog == \A a \in Account : balances[a] = Replayed(legs[a])

\* The legs of a transaction that reached the log.
LegsOf(t) == Cardinality(UNION {{a} \X {i \in DOMAIN legs[a] : legs[a][i].tx = t} : a \in Account})
Repeats(entries) == Cardinality(AccountsOf(entries)) < Len(entries)

\* A transaction is in the log with all of its legs or with none; the exception
\* is a guarded one that names an account twice, which stops half way.
WholeUnlessRepeated ==
  \A t \in DOMAIN begun :
    \/ LegsOf(t) \in {0, Len(begun[t].entries)}
    \/ begun[t].guarded /\ Repeats(begun[t].entries)

\* The ledger can never be left half-posted (journal.rs:10-12).
NeverHalfPosted == \A t \in DOMAIN begun : LegsOf(t) \in {0, Len(begun[t].entries)}

\* A post that begins after its period was closed leaves no leg behind
\* (journal.rs:277-279).
ClosedRejectsLater == \A t \in DOMAIN begun : begun[t].afterClose => LegsOf(t) = 0

\* A Closed or Locked period receives no new leg (journal.rs:277-279): refuted,
\* the status is looked up before the legs are appended.
ClosedIsFinal ==
  [][\A a \in Account : legs'[a] # legs[a] => ~Closed(legs'[a][Len(legs'[a])].period)]_jvars

\* When nobody is writing the cache, an entry whose last put succeeded is the live
\* balance, unless two writers were under way for that account at the same time or
\* a post stopped half way (journal.rs:353-359).
QuietCacheFresh ==
  \A a \in DOMAIN balanceCache \ (raced \cup missed) :
    (\E c \in Poster : WillCache(c) /\ a \in DOMAIN call[c].seen) \/ balanceCache[a] = balances[a]

\* The entries that close the income statement always balance, although the
\* accounts are read at different moments (journal.rs:424-425).
ClosingAlwaysPosts ==
  \A c \in Poster :
    InState(c, "closing") /\ call[c].todo = {}
      => LET es == ClosingEntries(ReadBalances(c), Retained) IN es = <<>> \/ Validates(es)

\* Every transaction so far is whole and names accounts of the chart only.
Straight ==
  \A t \in DOMAIN begun :
    LegsOf(t) > 0 => LegsOf(t) = Len(begun[t].entries) /\ AccountsOf(begun[t].entries) \subseteq Chart

\* A statement, and the report of a rebuild, balance although their accounts are
\* read one after the other while others post (reporting.rs:219-296): only a post
\* that changes an account before it is read and one after it was makes them differ.
StatementsBalance ==
  \A c \in Poster \ torn :
    Reads(c) /\ call[c].todo = {} /\ Straight
      => Reports(AsRead(c)).trialBalanced /\ Reports(AsRead(c)).sheetBalanced

\* No poster waits for itself and no posters wait in a circle, as long as no two
\* accounts share a shard.  "Locks every involved shard (ordered by account id
\* => no deadlock)", journal.rs:260-261, claims NoDeadlock of every hash.
WaitsIn(c, S) == InState(c, "lock") /\ call[c].todo # {} /\ NextLock(c) \in S
NoDeadlock == \A S \in (SUBSET Poster) \ {{}} : \E c \in S : ~WaitsIn(c, S)
NoLockCycle == IsInjective(shardOf) => NoDeadlock

\* What the general ledger promises under any interleaving of posts, closings and
\* reads: balances follow the log, a post is whole, a closed period takes nothing
\* more, the cache settles on the balance, a closing posts, statements no post crosses
\* balance, and posts cannot wait for each other in a circle.
LedgerHolds ==
  /\ JTypeOK
  /\ BalancesMatchLog
  /\ WholeUnlessRepeated
  /\ ClosedRejectsLater
  /\ QuietCacheFresh
  /\ ClosingAlwaysPosts
  /\ StatementsBalance
  /\ NoLockCycle
=============================================================================
