---------------------------- MODULE TenantCredits ----------------------------
(***************************************************************************)
(* The credits of one tenant: the rows of tenant_quotas that hold its      *)
(* balance and the credit_transactions that explain it, with the           *)
(* statements of SubscriptionService.  Every statement runs in a           *)
(* transaction of its caller at READ COMMITTED.  An UPDATE that finds rows *)
(* holds their locks until the commit, so it is one step with the commit;  *)
(* one that finds none locks nothing, and the INSERT that follows it is    *)
(* another step.                                                           *)
(***************************************************************************)
EXTENDS Integers, Sequences, FiniteSets, FiniteSetsExt

CONSTANTS
  Refs,     \* reference ids: payment events and audits
  Value     \* credits that a transaction of each reference adds

ASSUME CreditsAssumption == IsFiniteSet(Refs) /\ Value \in [Refs -> Int]

VARIABLES
  quota,    \* credits_balance of the rows of tenant_quotas, in table order
  ledger    \* credit_transactions with each reference id

creditVars == <<quota, ledger>>

CreditsTypeOK ==
  /\ quota \in Seq(Int)
  /\ ledger \in [Refs -> Nat]

\* No code inserts a quota row but allocateCredits itself.
CreditsInit ==
  /\ quota = <<>>
  /\ ledger = [r \in Refs |-> 0]

Posted(r) == ledger' = [ledger EXCEPT ![r] = @ + 1]

\* UPDATE tenant_quotas SET credits_balance = credits_balance + n: tenant_id is
\* not unique, so every row of the tenant changes.
AddToRows(n) == quota' = [i \in DOMAIN quota |-> quota[i] + n]

\* allocateCredits, when the tenant has a row.
AllocateToRows(r) ==
  /\ quota # <<>>
  /\ AddToRows(Value[r])
  /\ Posted(r)

\* Mutant of AllocateNewRow: the row is created with the column's default.
MutNewRowEmpty(r) ==
  /\ quota' = Append(quota, 0)
  /\ Posted(r)

\* allocateCredits, after its UPDATE has found none.
AllocateNewRow(r) ==
  /\ quota' = Append(quota, Value[r])
  /\ Posted(r)

\* Mutant of Sufficient: the test is made before the deduction.
MutSufficientBefore(r) == \E i \in DOMAIN quota : quota[i] >= 0

\* consumeCredits: the first row that the UPDATE returns tells whether the
\* balance suffices (the deduction is undone if not), and any row may be first.
Sufficient(r) == \E i \in DOMAIN quota : quota[i] + Value[r] >= 0

Consume(r) ==
  /\ Sufficient(r)
  /\ AddToRows(Value[r])
  /\ Posted(r)

-----------------------------------------------------------------------------

\* The credits that the transactions add up to.
LedgerTotal == MapThenSumSet(LAMBDA r : ledger[r] * Value[r], Refs)

\* The balance that is checked is the sum of the transactions, whatever steps
\* of allocations and consumptions interleave, as long as one row holds it.
BalanceIsLedger == Len(quota) = 1 => quota[1] = LedgerTotal

\* No interleaving of consumptions overdraws a balance held by one row.
NeverOverdrawn == Len(quota) = 1 => quota[1] >= 0

=============================================================================
