------------------------------ MODULE Accounts ------------------------------
(***************************************************************************)
(* Double entry (crates/tpt-erp-ledger/src/double_entry.rs), the chart of  *)
(* accounts and the statements computed from balances (examples/gl/src/    *)
(* coa.rs, journal.rs, reporting.rs, close.rs).  Everything here is a      *)
(* function of its arguments.  An entry is [account, side, amount]; Money  *)
(* is an integer number of minor units.                                    *)
(***************************************************************************)
EXTENDS Integers, SequencesExt

CONSTANTS
  Account,  \* every account id somebody posts to
  Kind      \* ChartOfAccounts: the type of each account in the chart

Kinds == {"Asset", "Liability", "Equity", "Revenue", "Expense"}
Chart == DOMAIN Kind

ASSUME AccountsAssumption == Chart \subseteq Account /\ Kind \in [Chart -> Kinds]

LedgerEntry == [account : Account, side : {"Debit", "Credit"}, amount : Int]

NormalSide(kind) == IF kind \in {"Asset", "Expense"} THEN "Debit" ELSE "Credit"
Permanent(kind) == kind \notin {"Revenue", "Expense"}
Opposite(side) == IF side = "Debit" THEN "Credit" ELSE "Debit"

\* Sum of the amounts on one side of a sequence of entries.
Total(entries, side) ==
  FoldLeft(LAMBDA sum, e : IF e.side = side THEN sum + e.amount ELSE sum, 0, entries)

BalancedEntries(entries) == Total(entries, "Debit") = Total(entries, "Credit")

\* DoubleEntry::validate
Validates(entries) == Len(entries) >= 2 /\ BalancedEntries(entries)

\* An AccountBalance, the effect of one leg on it, and its readings.
ZeroBalance == [debits |-> 0, credits |-> 0]
WithLeg(bal, leg) ==
  IF leg.side = "Debit" THEN [bal EXCEPT !.debits = @ + leg.amount]
                        ELSE [bal EXCEPT !.credits = @ + leg.amount]
Signed(bal, kind) ==
  IF NormalSide(kind) = "Debit" THEN bal.debits - bal.credits ELSE bal.credits - bal.debits

\* The balance a log of legs replays to.
Replayed(log) == FoldLeft(WithLeg, ZeroBalance, log)

Reversing(entries) == [i \in DOMAIN entries |-> [entries[i] EXCEPT !.side = Opposite(@)]]

\* generate_closing_entries over the balances that were read: every temporary
\* account is zeroed, the difference goes to retained earnings.
ClosingEntries(bal, retained) ==
  LET temporary == {a \in Chart : ~Permanent(Kind[a]) /\ Signed(bal[a], Kind[a]) # 0}
      zeroing == [i \in 1..Cardinality(temporary) |->
                    LET a == SetToSeq(temporary)[i]
                    IN [account |-> a, side |-> Opposite(NormalSide(Kind[a])),
                        amount |-> Signed(bal[a], Kind[a])]]
      net == Total(zeroing, "Debit") - Total(zeroing, "Credit")
  IN IF net = 0 THEN zeroing
     ELSE Append(zeroing, [account |-> retained,
                           side |-> IF net > 0 THEN "Credit" ELSE "Debit",
                           amount |-> IF net > 0 THEN net ELSE -net])

-----------------------------------------------------------------------------
(* reporting.rs: only accounts of the chart are in a statement.            *)

SumOf(bal, kinds) ==
  MapThenSumSet(LAMBDA a : Signed(bal[a], Kind[a]), {a \in Chart : Kind[a] \in kinds})

\* trial_balance, trial_balance_now
TrialBalance(bal) ==
  [debits  |-> MapThenSumSet(LAMBDA a : bal[a].debits, Chart),
   credits |-> MapThenSumSet(LAMBDA a : bal[a].credits, Chart)]
TrialBalanced(bal) == TrialBalance(bal).debits = TrialBalance(bal).credits

\* income_statement: the net income
NetIncome(bal) == SumOf(bal, {"Revenue"}) - SumOf(bal, {"Expense"})

\* balance_sheet, with its net income folded into equity
SheetBalanced(bal) ==
  SumOf(bal, {"Asset"}) = SumOf(bal, {"Liability"}) + SumOf(bal, {"Equity"}) + NetIncome(bal)

\* The three statements over one view of the balances: the running ones (the
\* _now functions), or those a rebuild returned (cached_reports).
Reports(bal) ==
  [trialBalanced |-> TrialBalanced(bal), netIncome |-> NetIncome(bal), sheetBalanced |-> SheetBalanced(bal)]

=============================================================================
