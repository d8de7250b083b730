----------------------------- MODULE EntityApi -----------------------------
(***************************************************************************)
(* The CRUD service the macros generate for an entity: the filter and the  *)
(* validation #[derive(TptEntity)] emits (tpt_entity_impl.rs), the         *)
(* handlers #[derive(TptApi)] emits (tpt_api.rs), and the two repositories *)
(* behind them, the in-memory map and the Postgres table (tpt-erp-entity). *)
(* One handler touches the repository once, so a request is one step; a    *)
(* client that pages through a list is a process of many requests.         *)
(***************************************************************************)
EXTENDS Naturals, Sequences, FiniteSets, Functions, FiniteSetsExt, SequencesExt

CONSTANTS
  EntityId,       \* keys, naturals
  Bodies,         \* the entities clients send: [id, name, qty, note]
  TypeOf,         \* field |-> its Rust type
  Directives,     \* field |-> its #[validate] directives: [rule, min, max]
  TextFacts,      \* string |-> [length, blank, email, contains, prefixes]
  Filters,        \* the filters of the walks: sets of [field, test, value]
  Unset,          \* the value of an Option that is None
  Backend,        \* "memory" or "postgres"
  AuthPolicies,   \* the policies a router may be built with
  PerPage, MaxPerPage,
  MaxRequests     \* bound

ASSUME ApiAssumption ==
  /\ EntityId \subseteq Nat /\ \A e \in Bodies : e.id \in EntityId
  /\ PerPage \in Nat /\ MaxPerPage \in Nat \ {0}

VARIABLES
  store,      \* key |-> the entity stored under it
  policy,     \* the AuthPolicy of the router
  created,    \* key |-> how many 201 answers
  deleted,    \* key |-> how many 204 answers
  unsure,     \* keys with a write whose answer was a backend error
  walk,       \* a client reading a list page by page
  requests
apivars == <<store, policy, created, deleted, unsure, walk, requests>>

StringTypes == {"String", "str", "Cow"}
RangeTypes == {"i32", "i64", "u32", "u64", "Decimal", "DateTime", "NaiveDate"}

\* classify_filter, and the fields derive gives the filter struct.
FilterTests(type) ==
  {"equals"} \union (IF type \in StringTypes THEN {"contains", "prefix"} ELSE {})
             \union (IF type \in RangeTypes THEN {"min", "max"} ELSE {})

Passes(test, have, value) ==
  CASE test = "equals"   -> have = value
    [] test = "contains" -> value \in TextFacts[have].contains
    [] test = "prefix"   -> value \in TextFacts[have].prefixes
    [] test = "min"      -> have >= value
    [] test = "max"      -> have <= value

\* The generated ApplyFilter::matches; a parameter it has no field for is
\* ignored by the query extractor.
Matches(filter, entity) ==
  \A t \in filter : t.test \in FilterTests(TypeOf[t.field]) => Passes(t.test, entity[t.field], t.value)

\* kind_of and validate_stmt: what a directive checks, by the kind of its field.
\* Only String counts as a string here, and a directive that does not fit the
\* kind of its field checks nothing.
Checked(type, d, value) ==
  CASE d.rule = "required" /\ type = "String" -> ~TextFacts[value].blank
    [] d.rule = "required" /\ type = "Option" -> value # Unset
    [] d.rule = "email" /\ type = "String"    -> TextFacts[value].email
    [] d.rule = "len" /\ type = "String"      -> TextFacts[value].length \in d.min .. d.max
    [] d.rule = "range"                       -> value \in d.min .. d.max
    [] OTHER                                  -> TRUE

Valid(entity) ==
  \A f \in DOMAIN Directives : \A d \in Directives[f] : Checked(TypeOf[f], d, entity[f])

\* AllowAll, StaffAuth and CustomerAuth.
Authorized(op) == policy = "CustomerAuth" => op \in {"List", "Read", "Create"}

NoWalk == [on |-> FALSE, filter |-> {}, page |-> 1, seen |-> <<>>, disturbed |-> FALSE, over |-> FALSE]

ApiInit ==
  /\ store = <<>>
  /\ policy \in AuthPolicies
  /\ created = [k \in EntityId |-> 0]
  /\ deleted = [k \in EntityId |-> 0]
  /\ unsure = {}
  /\ walk = NoWalk
  /\ requests = 0

\* The ids a walk has behind it.
BehindWalk(k) == walk.seen # <<>> /\ k <= walk.seen[Len(walk.seen)]

\* A change of a row the walk has passed moves the rows it has not read yet.
Disturb(ids) ==
  walk' = [walk EXCEPT !.disturbed = @ \/ \E k \in ids : BehindWalk(k)]

Counted == requests < MaxRequests /\ requests' = requests + 1

\* A statement Postgres ran and whose answer was lost: a 500.
Lost == Backend = "postgres"

\* Repository::create, replace and delete: nothing is done to a missing row, and
\* an insert never overwrites.
InsertRow(e) ==
  /\ e.id \notin DOMAIN store
  /\ store' = [k \in DOMAIN store \union {e.id} |-> IF k = e.id THEN e ELSE store[k]]
PutRow(k, e) == k \in DOMAIN store /\ store' = [store EXCEPT ![k] = e]
RemoveRow(k) == k \in DOMAIN store /\ store' = [j \in DOMAIN store \ {k} |-> store[j]]

\* POST: 201, unless the entity is not valid (400) or its id is taken (409).
Create(e) ==
  /\ Counted /\ Authorized("Create") /\ Valid(e) /\ InsertRow(e)
  /\ \/ created' = [created EXCEPT ![e.id] = @ + 1] /\ UNCHANGED unsure
     \/ Lost /\ unsure' = unsure \union {e.id} /\ UNCHANGED created
  /\ Disturb({e.id})
  /\ UNCHANGED <<policy, deleted>>

\* PUT: the entity goes under the id of the path, whatever its own id is.
Replace(k, e) ==
  /\ Counted /\ Authorized("Update") /\ Valid(e) /\ PutRow(k, e)
  /\ Disturb({store[k].id, e.id})
  /\ UNCHANGED <<policy, created, deleted, unsure>>

\* DELETE: 204, or 404 when there is nothing.
Delete(k) ==
  /\ Counted /\ Authorized("Delete") /\ RemoveRow(k)
  /\ \/ deleted' = [deleted EXCEPT ![k] = @ + 1] /\ UNCHANGED unsure
     \/ Lost /\ unsure' = unsure \union {k} /\ UNCHANGED deleted
  /\ Disturb({store[k].id})
  /\ UNCHANGED <<policy, created>>

Clamp(n) == Max({1, Min({n, MaxPerPage})})

\* variant: the offset of the page after
Offset_fromOne(page) == Max({1, page}) * Clamp(PerPage)

\* Pagination::offset, and limit below in ListPage.
Offset(page) == (Max({1, page}) - 1) * Clamp(PerPage)

\* The rows a list is about, and the same rows by id.
Matched(filter) == {k \in DOMAIN store : Matches(filter, store[k])}
ByIdOrder == {p \in EntityId \X EntityId :
  store[p[1]].id < store[p[2]].id \/ (store[p[1]].id = store[p[2]].id /\ p[1] < p[2])}
ById(found) == CHOOSE ks \in [1..Cardinality(found) -> found] :
  Range(ks) = found /\ \A i, j \in DOMAIN ks : i < j => <<ks[i], ks[j]>> \in ByIdOrder

\* Repository::list: match, sort by id, count and cut.
PageOf(filter, page) ==
  LET found == ById(Matched(filter))
      end == Min({Offset(page) + Clamp(PerPage), Len(found)})
  IN [items |-> [i \in 1 .. (IF Offset(page) >= Len(found) THEN 0 ELSE end - Offset(page))
                   |-> store[found[Offset(page) + i]].id],
      total |-> Len(found)]

\* A client starts to read a list, and reads its next page, until it has as many
\* rows as the page says there are or gets none.
StartWalk(filter) ==
  /\ ~walk.on /\ ~walk.over /\ Authorized("List")
  /\ walk' = [NoWalk EXCEPT !.on = TRUE, !.filter = filter]
  /\ UNCHANGED <<store, policy, created, deleted, unsure, requests>>

ListPage ==
  /\ walk.on
  /\ LET got == PageOf(walk.filter, walk.page)
         read == walk.seen \o got.items
         last == Len(read) >= got.total \/ got.items = <<>>
     IN walk' = [walk EXCEPT !.seen = read, !.page = @ + 1, !.on = ~last, !.over = last]
  /\ UNCHANGED <<store, policy, created, deleted, unsure, requests>>

ApiNext ==
  \/ \E e \in Bodies : Create(e) \/ \E k \in EntityId : Replace(k, e)
  \/ \E k \in EntityId : Delete(k)
  \/ \E filter \in Filters : StartWalk(filter)
  \/ ListPage

ApiSpec == ApiInit /\ [][ApiNext]_apivars

---------------------------------------------------------------------------
Misfiled == \E k \in DOMAIN store : store[k].id # k

(* A client that reads a filtered list to its end, page after page, sees   *)
(* every matching row exactly once and in order, if no row it had passed   *)
(* was created, replaced or deleted meanwhile and no entity was put under  *)
(* an id that is not its own (repository.rs 47-60, 124-150).               *)
WalkIsExact ==
  [][(walk.on /\ walk'.over /\ ~walk.disturbed /\ ~Misfiled) =>
       /\ Range(walk'.seen) = Matched(walk.filter)
       /\ \A i, j \in DOMAIN walk'.seen : i < j => walk'.seen[i] < walk'.seen[j]]_apivars

(* An id is stored exactly when it was created once more than it was       *)
(* deleted: of concurrent creations one gets the 201 (repository.rs        *)
(* 160-172, postgres_repo.rs 150-176).  An error answer leaves it open.    *)
AnswersAreTrue ==
  \A k \in EntityId \ unsure :
    created[k] = deleted[k] + (IF k \in DOMAIN store THEN 1 ELSE 0)

(* No sequence of requests gets an invalid entity into the table           *)
(* (validation.rs 22-25: "so invalid entities never reach the database").  *)
OnlyValidStored == \A k \in DOMAIN store : Valid(store[k])

(* On a storefront router a record, once there, stays and never changes    *)
(* (catalog.rs 162-174).                                                   *)
RecordsStand ==
  [][policy = "CustomerAuth" => \A k \in DOMAIN store : k \in DOMAIN store' /\ store'[k] = store[k]]_apivars

\* What the generated API promises over any sequence of requests: its answers are
\* true, only valid entities are stored, a list is read exactly, and a storefront's
\* records stand.
ApiTruthful ==
  /\ []AnswersAreTrue
  /\ []OnlyValidStored
  /\ WalkIsExact
  /\ RecordsStand
=============================================================================
