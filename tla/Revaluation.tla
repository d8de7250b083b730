---------------------------- MODULE Revaluation ----------------------------
(***************************************************************************)
(* Point-in-time rates and what is computed from them: the FX table and    *)
(* period-end revaluation (examples/gl/src/fx.rs), the tax table and the   *)
(* tax of a set of lines (examples/gl/src/tax.rs).  revalue() books one    *)
(* transaction per foreign account in the reporting journal and then moves *)
(* that account's book rate; it stops at the first post that is refused.   *)
(***************************************************************************)
EXTENDS Accounts

CONSTANTS
  Date,        \* instants rates take effect at (bound)
  Rate,        \* rates, in whole reporting units per foreign unit (bound)
  Foreign,     \* the foreign accounts: their type, balance and first book rate
  TaxKey,      \* (jurisdiction, tax type) pairs
  TaxRate,     \* tax rates, in tenths (bound)
  Base,        \* taxable bases, in minor units, refunds negative (bound)
  MaxInserts,  \* rates that may be recorded (bound)
  MaxWalks     \* revaluations that may be begun (bound)

ASSUME RevaluationAssumption ==
  /\ Date \subseteq Nat /\ Rate \subseteq Nat /\ TaxRate \subseteq Nat /\ Base \subseteq Int
  /\ IsFiniteSet(DOMAIN Foreign)
  /\ \A a \in DOMAIN Foreign :
       Foreign[a].kind \in Kinds /\ Foreign[a].balance \in Int /\ Foreign[a].book \in Nat

VARIABLES
  fxRates,    \* FxRateTable: the observations of one currency pair, as recorded
  taxRates,   \* TaxRateTable: effective date -> rate, for each key
  inserted,   \* rates recorded so far
  bookRate,   \* JournalEngine::book_rates of the foreign engine
  revalued,   \* the revaluation account in the reporting journal, debit positive
  gainLoss,   \* the FX gain/loss account, debit positive
  openBooks,  \* whether the reporting period takes postings
  walk,       \* foreign accounts the revaluation under way has still to visit
  closing,    \* its closing rate
  walks       \* revaluations begun

rvars == <<fxRates, taxRates, inserted, bookRate, revalued, gainLoss, openBooks, walk, closing, walks>>
RateTables == <<fxRates, taxRates, inserted>>

RInit ==
  /\ fxRates = <<>> /\ taxRates = [k \in TaxKey |-> <<>>] /\ inserted = 0
  /\ bookRate = [a \in DOMAIN Foreign |-> Foreign[a].book]
  /\ revalued = 0 /\ gainLoss = 0 /\ openBooks = TRUE
  /\ walk = {} /\ closing = 0 /\ walks = 0

\* variant: the rate recorded last, whatever its date
FxLookup_last(table, asOf) ==
  IF \E i \in DOMAIN table : table[i].at <= asOf THEN {Last(table).rate} ELSE {}

\* FxRateTable::rate: the latest observation not after the date; of several at
\* the same instant the one recorded last.  A set of at most one rate.
FxLookup(table, asOf) ==
  LET known == {i \in DOMAIN table : table[i].at <= asOf}
      latest == {i \in known : \A j \in known : table[j].at <= table[i].at}
  IN IF known = {} THEN {} ELSE {table[Max(latest)].rate}

\* TaxRateTable::rate
TaxLookup(table, asOf) ==
  LET known == {d \in DOMAIN table : d <= asOf}
  IN IF known = {} THEN {} ELSE {table[Max(known)]}

SetRate(d, r) ==
  /\ inserted < MaxInserts /\ inserted' = inserted + 1
  /\ fxRates' = Append(fxRates, [at |-> d, rate |-> r])
  /\ UNCHANGED <<taxRates, bookRate, revalued, gainLoss, openBooks, walk, closing, walks>>

\* TaxRateTable::insert: one row for each effective date, the last one inserted
Effective(table, d, r) == [e \in DOMAIN table \cup {d} |-> IF e = d THEN r ELSE table[e]]

InsertTax(k, d, r) ==
  /\ inserted < MaxInserts /\ inserted' = inserted + 1
  /\ taxRates' = [taxRates EXCEPT ![k] = Effective(@, d, r)]
  /\ UNCHANGED <<fxRates, bookRate, revalued, gainLoss, openBooks, walk, closing, walks>>

-----------------------------------------------------------------------------

\* base * rate rounded to minor units, halves away from zero
RoundedTax(base, rate) ==
  LET raw == base * rate IN IF raw >= 0 THEN (raw + 5) \div 10 ELSE -((5 - raw) \div 10)

\* The tax of one line, at the rate in force; a set of lines' base and tax in one
\* jurisdiction.
TaxOf(l, asOf) == RoundedTax(l.base, CHOOSE r \in TaxLookup(taxRates[l.key], asOf) : TRUE)
BaseIn(lines, j) == FoldLeft(LAMBDA sum, l : IF l.key[1] = j THEN sum + l.base ELSE sum, 0, lines)
TaxIn(lines, asOf, j) ==
  FoldLeft(LAMBDA sum, l : IF l.key[1] = j THEN sum + TaxOf(l, asOf) ELSE sum, 0, lines)
TotalTax(lines, asOf) == FoldLeft(LAMBDA sum, l : sum + TaxOf(l, asOf), 0, lines)

\* compute_tax: nothing without a rate for every line; otherwise base and tax
\* per jurisdiction, and the total.
Taxed(lines, asOf) ==
  LET seen == {lines[i].key[1] : i \in DOMAIN lines}
  IN IF \E i \in DOMAIN lines : TaxLookup(taxRates[lines[i].key], asOf) = {} THEN <<>>
     ELSE <<[base  |-> [j \in seen |-> BaseIn(lines, j)],
             tax   |-> [j \in seen |-> TaxIn(lines, asOf, j)],
             total |-> TotalTax(lines, asOf)]>>

-----------------------------------------------------------------------------
StartRevalue(asOf) ==
  /\ walk = {} /\ walks < MaxWalks /\ walks' = walks + 1
  /\ \E r \in FxLookup(fxRates, asOf) : closing' = r
  /\ walk' = DOMAIN Foreign
  /\ UNCHANGED <<RateTables, bookRate, revalued, gainLoss, openBooks>>

Adjustment(a) == Foreign[a].balance * closing - Foreign[a].balance * bookRate[a]
\* What the adjustment adds to the debit side of the revaluation account.
OnDebit(a, amount) == IF NormalSide(Foreign[a].kind) = "Debit" THEN amount ELSE -amount

\* One turn of the loop of revalue.
RevalueOne(a) ==
  /\ a \in walk
  /\ IF Adjustment(a) = 0
       THEN walk' = walk \ {a} /\ UNCHANGED <<bookRate, revalued, gainLoss>>
     ELSE IF ~openBooks
       THEN walk' = {} /\ UNCHANGED <<bookRate, revalued, gainLoss>>
     ELSE /\ revalued' = revalued + OnDebit(a, Adjustment(a))
          /\ gainLoss' = gainLoss - OnDebit(a, Adjustment(a))
          /\ bookRate' = [bookRate EXCEPT ![a] = closing]
          /\ walk' = walk \ {a}
  /\ UNCHANGED <<RateTables, openBooks, closing, walks>>

\* The reporting period closes, or the next one is used.
TurnPeriod == openBooks' = ~openBooks /\ UNCHANGED <<RateTables, bookRate, revalued, gainLoss, walk, closing, walks>>

RNext ==
  \/ \E d \in Date, r \in Rate : SetRate(d, r)
  \/ \E k \in TaxKey, d \in Date, r \in TaxRate : InsertTax(k, d, r)
  \/ \E d \in Date : StartRevalue(d)
  \/ \E a \in DOMAIN Foreign : RevalueOne(a)
  \/ TurnPeriod
RSpec == RInit /\ [][RNext]_rvars
-----------------------------------------------------------------------------
\* Recording a rate never changes what the tables answer for an earlier date
\* (fx.rs:19-23, tax.rs:5-9).
PastRatesStay ==
  [][\A d \in Date :
       /\ (\A e \in Date : e <= d => ~\E r \in Rate : fxRates' = Append(fxRates, [at |-> e, rate |-> r]))
            => FxLookup(fxRates', d) = FxLookup(fxRates, d)
       /\ \A k \in TaxKey :
            (\A e \in Date : e <= d => ~\E r \in TaxRate : taxRates'[k] = Effective(taxRates[k], e, r))
              => TaxLookup(taxRates'[k], d) = TaxLookup(taxRates[k], d)]_rvars

\* The balances converted at their present book rates, less at their first.
Remeasured(rates) ==
  MapThenSumSet(LAMBDA a : OnDebit(a, Foreign[a].balance * (rates[a] - Foreign[a].book)), DOMAIN Foreign)

\* However often revaluation stops half way and is run again, at whatever
\* rates, the reporting journal has booked each balance from its first book
\* rate to its present one exactly once (fx.rs:84-88).
RevaluationTelescopes ==
  /\ gainLoss = -revalued
  /\ revalued = Remeasured(bookRate)

\* The tax of every jurisdiction together.
Owed(result) == MapThenSumSet(LAMBDA x : result.tax[x], DOMAIN result.tax)

\* Lines and their refunds together owe no tax, and the jurisdictions add up to
\* the total (tax.rs:150-153).
RefundsCancelTax ==
  \A k \in TaxKey, j \in TaxKey, b \in Base, c \in Base, d \in Date :
    LET Line(key, amount) == [key |-> key, base |-> amount]
        res == Taxed(<<Line(k, b), Line(j, c), Line(k, -b), Line(j, -c)>>, d)
        half == Taxed(<<Line(k, b), Line(j, c)>>, d)
    IN res # <<>> =>
         /\ res[1].total = 0 /\ \A x \in DOMAIN res[1].tax : res[1].tax[x] = 0
         /\ half[1].total = Owed(half[1])

\* What the conversions promise over any sequence of calls: gains add up, refunds
\* cancel the tax to the cent, and a past rate never changes.
ConversionsSettle ==
  /\ []RevaluationTelescopes
  /\ []RefundsCancelTax
  /\ PastRatesStay
=============================================================================
