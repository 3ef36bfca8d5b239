------------------------------ MODULE AuditRun ------------------------------
(***************************************************************************)
(* A site audit: triggerAuditAction inserts the audits row and sends the   *)
(* event "audit.requested" inside one transaction that commits after the   *)
(* send; the Inngest function run-audit consumes a credit, crawls, analyses*)
(* and patches the row, in steps.  Inngest runs a step at least once: when *)
(* the process dies after the effect of a step and before its result is    *)
(* recorded, the step is run again, and a function one of whose steps has  *)
(* used up its retries is abandoned.                                       *)
(***************************************************************************)
EXTENDS TenantCredits

CONSTANTS
  Audits,       \* audits, each requested at most once
  MaxRetries    \* retries of a step

ASSUME AuditAssumption ==
  /\ Audits \subseteq Refs
  /\ \A a \in Audits : Value[a] = -1      \* CREDITS_PER_AUDIT
  /\ MaxRetries \in Nat

VARIABLES
  tx,       \* the transaction of triggerAuditAction, by audit
  row,      \* status of the audits row, "none" while it is not committed
  due,      \* the step of run-audit that is next
  retries   \* retries used by that step

auditVars == <<creditVars, tx, row, due, retries>>

Steps == {"charge", "reject", "crawling", "crawl", "crawlfailed",
          "analyzing", "analyze", "analysisfailed", "complete"}

RowStatus == {"pending", "crawling", "analyzing", "completed", "failed"}

AuditTypeOK ==
  /\ CreditsTypeOK
  /\ tx \in [Audits -> {"none", "inserted", "sent", "committed", "aborted"}]
  /\ row \in [Audits -> RowStatus \cup {"none"}]
  /\ due \in [Audits -> Steps \cup {"idle", "ended", "abandoned"}]
  /\ retries \in [Audits -> 0..MaxRetries]

AuditInit ==
  /\ CreditsInit
  /\ tx = [a \in Audits |-> "none"]
  /\ row = [a \in Audits |-> "none"]
  /\ due = [a \in Audits |-> "idle"]
  /\ retries = [a \in Audits |-> 0]

-----------------------------------------------------------------------------
(* triggerAuditAction.                                                     *)

InsertAudit(a) ==
  /\ tx[a] = "none"
  /\ tx' = [tx EXCEPT ![a] = "inserted"]
  /\ UNCHANGED <<creditVars, row, due, retries>>

\* inngest.send: the function may start at once.
SendEvent(a) ==
  /\ tx[a] = "inserted"
  /\ tx' = [tx EXCEPT ![a] = "sent"]
  /\ due' = [due EXCEPT ![a] = "charge"]
  /\ UNCHANGED <<creditVars, row, retries>>

Commit(a) ==
  /\ tx[a] = "sent"
  /\ tx' = [tx EXCEPT ![a] = "committed"]
  /\ row' = [row EXCEPT ![a] = "pending"]
  /\ UNCHANGED <<creditVars, due, retries>>

\* The send throws, or the commit fails after it.
Abort(a) ==
  /\ tx[a] \in {"inserted", "sent"}
  /\ tx' = [tx EXCEPT ![a] = "aborted"]
  /\ UNCHANGED <<creditVars, row, due, retries>>

-----------------------------------------------------------------------------
(* run-audit.                                                              *)

\* The step a is at has had its effect: its result is recorded and the function
\* goes on to the step next; or it is lost, and the step is run again.
Recorded(a, next) ==
  /\ due' = [due EXCEPT ![a] = next]
  /\ retries' = [retries EXCEPT ![a] = 0]

\* Mutant of Lost: nothing is recorded, so that the function starts over.
MutLostStartsOver(a) ==
  IF retries[a] < MaxRetries
  THEN /\ retries' = [retries EXCEPT ![a] = @ + 1]
       /\ due' = [due EXCEPT ![a] = "charge"]
  ELSE due' = [due EXCEPT ![a] = "abandoned"] /\ UNCHANGED retries

Lost(a) ==
  IF retries[a] < MaxRetries
  THEN retries' = [retries EXCEPT ![a] = @ + 1] /\ UNCHANGED due
  ELSE due' = [due EXCEPT ![a] = "abandoned"] /\ UNCHANGED retries

\* Mutant of Charge: the function goes on without the credit.
MutChargeIgnored(a) ==
  /\ due[a] = "charge"
  /\ Consume(a) \/ UNCHANGED creditVars
  /\ Recorded(a, "crawling") \/ Lost(a)
  /\ UNCHANGED <<tx, row>>

\* "consume-credits": it catches every error (an insufficient balance, a lost
\* connection, even one lost as the transaction commits), and its result says
\* whether the audit goes on.
Charge(a) ==
  /\ due[a] = "charge"
  /\ \/ Consume(a) /\ Recorded(a, "crawling")
     \/ (Consume(a) \/ UNCHANGED creditVars) /\ (Recorded(a, "reject") \/ Lost(a))
  /\ UNCHANGED <<tx, row>>

\* patchAudit: the UPDATE changes no row while the INSERT is not committed, and
\* does not tell.
Patched(a, status) ==
  row' = [row EXCEPT ![a] = IF @ = "none" THEN "none" ELSE status]

Patch(a, step, status, next) ==
  /\ due[a] = step
  /\ \/ Patched(a, status) /\ (Recorded(a, next) \/ Lost(a))
     \/ UNCHANGED row /\ Lost(a)
  /\ UNCHANGED <<creditVars, tx>>

\* crawlWebsite and analyzeSeoForAEO report failure in their result.
Work(a, step, success, failure) ==
  /\ due[a] = step
  /\ Recorded(a, success) \/ Recorded(a, failure) \/ Lost(a)
  /\ UNCHANGED <<creditVars, tx, row>>

Reject(a) == Patch(a, "reject", "failed", "ended")
Crawling(a) == Patch(a, "crawling", "crawling", "crawl")
Crawl(a) == Work(a, "crawl", "analyzing", "crawlfailed")
CrawlFailed(a) == Patch(a, "crawlfailed", "failed", "ended")
Analyzing(a) == Patch(a, "analyzing", "analyzing", "analyze")
Analyze(a) == Work(a, "analyze", "complete", "analysisfailed")
AnalysisFailed(a) == Patch(a, "analysisfailed", "failed", "ended")
Complete(a) == Patch(a, "complete", "completed", "ended")

AuditNext ==
  \E a \in Audits :
    \/ InsertAudit(a) \/ SendEvent(a) \/ Commit(a) \/ Abort(a)
    \/ Charge(a) \/ Reject(a) \/ Crawling(a) \/ Crawl(a) \/ CrawlFailed(a)
    \/ Analyzing(a) \/ Analyze(a) \/ AnalysisFailed(a) \/ Complete(a)

-----------------------------------------------------------------------------

\* No audit is worked on before it has been paid for, whatever step is run
\* again: the credit is committed before the crawl of its page starts.
NoUnpaidAudit ==
  \A a \in Audits :
    row[a] \in {"crawling", "analyzing", "completed"} \/ due[a] \in Steps \ {"charge", "reject"}
      => ledger[a] > 0

Rank ==
  [none |-> 0, pending |-> 1, crawling |-> 2, analyzing |-> 3,
   completed |-> 4, failed |-> 4]

\* The status a user sees never goes back, and the outcome of an audit is
\* final, although every step may be run again.
StatusNeverRegresses ==
  [][\A a \in Audits : row'[a] = row[a] \/ Rank[row'[a]] > Rank[row[a]]]_auditVars

=============================================================================
