--------------------------- MODULE Billing_proofs ---------------------------
(***************************************************************************)
(* Proofs for any events, deliveries, audits and retries: a payment is     *)
(* credited at most once, no audit is worked on unpaid nor goes back to a  *)
(* former status, and a balance held by one row is never overdrawn and is  *)
(* the sum of the transactions.                                            *)
(***************************************************************************)
EXTENDS Billing, FiniteSetTheorems, WellFoundedInduction, TLAPS

CreditPoint == {"credit", "newrow"}

\* Between the two transactions of a handler its event is recorded and not yet
\* credited, and no other handler of that event stands there.
Creditor ==
  /\ \A d \in Deliveries :
       handler[d] \in CreditPoint => EventOf[d] \in processed /\ ledger[EventOf[d]] = 0
  /\ \A c, d \in Deliveries :
       handler[c] \in CreditPoint /\ handler[d] \in CreditPoint /\ EventOf[c] = EventOf[d] => c = d

WebhookInv == WebhookTypeOK /\ CreditedOnce /\ Creditor

\* Initially nothing is credited.
LEMMA WebhookInitInv == WebhookInit => WebhookInv
BY CreditsAssumption, WebhookAssumption
   DEF WebhookInit, CreditsInit, WebhookInv, WebhookTypeOK, CreditsTypeOK, CreditedOnce,
       Creditor, CreditPoint, Answers

\* What an UPDATE of the tenant's rows does.
LEMMA AddingKeepsRows ==
  ASSUME NEW n \in Int, quota \in Seq(Int), AddToRows(n)
  PROVE  /\ quota' \in Seq(Int) /\ Len(quota') = Len(quota)
         /\ \A i \in DOMAIN quota : quota'[i] = quota[i] + n
<1>1. quota' = [i \in 1..Len(quota) |-> quota[i] + n]
  BY DEF AddToRows
<1>2. \A i \in 1..Len(quota) : quota[i] + n \in Int
  OBVIOUS
<1> QED BY <1>1, <1>2

\* What an allocation, to rows or as a new row, does to the ledger.
LEMMA AllocationPosts ==
  ASSUME NEW e \in Refs, CreditsTypeOK, AllocateToRows(e) \/ AllocateNewRow(e)
  PROVE  CreditsTypeOK' /\ ledger' = [ledger EXCEPT ![e] = @ + 1]
<1>1. Value[e] \in Int
  BY CreditsAssumption
<1>2. ledger' = [ledger EXCEPT ![e] = @ + 1] /\ ledger' \in [Refs -> Nat]
  BY DEF AllocateToRows, AllocateNewRow, Posted, CreditsTypeOK
<1>3. quota' \in Seq(Int)
  <2>1. CASE AllocateToRows(e)
    BY <1>1, <2>1 DEF AllocateToRows, AddToRows, CreditsTypeOK
  <2>2. CASE AllocateNewRow(e)
    BY <1>1, <2>2 DEF AllocateNewRow, CreditsTypeOK
  <2> QED BY <2>1, <2>2
<1> QED BY <1>2, <1>3 DEF CreditsTypeOK

\* A handler that goes on to an answer without touching the tables.
LEMMA LeavingKeeps ==
  ASSUME NEW d \in Deliveries, NEW to \in Answers, WebhookInv, Reaches(d, to),
         UNCHANGED <<creditVars, processed>>
  PROVE  WebhookInv'
BY WebhookAssumption
   DEF WebhookInv, WebhookTypeOK, CreditsTypeOK, CreditedOnce, Creditor, CreditPoint,
       Reaches, Answers, creditVars

\* The transaction that credits an event ends the handler's turn.
LEMMA CreditingKeeps ==
  ASSUME NEW d \in Deliveries, WebhookInv, handler[d] \in CreditPoint,
         AllocateToRows(EventOf[d]) \/ AllocateNewRow(EventOf[d]),
         Reaches(d, "done"), UNCHANGED processed
  PROVE  WebhookInv'
<1>1. EventOf[d] \in Events /\ EventOf[d] \in Refs
  BY WebhookAssumption
<1>2. CreditsTypeOK' /\ ledger' = [ledger EXCEPT ![EventOf[d]] = @ + 1]
  BY <1>1, AllocationPosts DEF WebhookInv, WebhookTypeOK
<1>3. EventOf[d] \in processed /\ ledger[EventOf[d]] = 0
  BY DEF WebhookInv, Creditor
<1>4. WebhookTypeOK'
  BY <1>2 DEF WebhookInv, WebhookTypeOK, Reaches, Answers
<1>5. CreditedOnce'
  BY <1>1, <1>2, <1>3, WebhookAssumption DEF WebhookInv, CreditedOnce, WebhookTypeOK, CreditsTypeOK
<1>6. Creditor'
  BY <1>1, <1>2, WebhookAssumption
     DEF WebhookInv, Creditor, CreditPoint, Reaches, WebhookTypeOK, CreditsTypeOK
<1> QED BY <1>4, <1>5, <1>6 DEF WebhookInv

\* Every step of every handler keeps the invariant.
LEMMA WebhookNextInv == WebhookInv /\ [WebhookNext]_webhookVars => WebhookInv'
<1> SUFFICES ASSUME WebhookInv, [WebhookNext]_webhookVars PROVE WebhookInv'
  OBVIOUS
<1>1. ASSUME NEW d \in Deliveries, Record(d) PROVE WebhookInv'
  <2>1. CASE EventOf[d] \in processed
    <3>1. Reaches(d, "repeat") /\ UNCHANGED <<creditVars, processed>>
      BY <1>1, <2>1 DEF Record
    <3> QED BY <3>1, LeavingKeeps DEF Answers
  <2>2. CASE EventOf[d] \notin processed
    <3>1. EventOf[d] \in Events /\ EventOf[d] \in Refs
      BY WebhookAssumption
    <3>2. ledger[EventOf[d]] = 0
      BY <2>2, <3>1 DEF WebhookInv, CreditedOnce, WebhookTypeOK, CreditsTypeOK
    <3>3. /\ processed' = processed \cup {EventOf[d]}
          /\ handler' = [handler EXCEPT ![d] =
                           IF EventOf[d] \in Crediting THEN "credit" ELSE "done"]
          /\ UNCHANGED <<quota, ledger>>
      BY <1>1, <2>2 DEF Record, Reaches, creditVars
    <3>4. WebhookTypeOK'
      BY <3>1, <3>3 DEF WebhookInv, WebhookTypeOK, CreditsTypeOK, Answers
    <3>5. CreditedOnce'
      <4> SUFFICES ASSUME NEW e \in Events
                   PROVE  ledger[e] <= (IF e \in processed' THEN 1 ELSE 0)
        BY <3>3 DEF CreditedOnce
      <4>1. ledger[e] \in Nat
        BY WebhookAssumption DEF WebhookInv, WebhookTypeOK, CreditsTypeOK
      <4>2. ledger[e] <= (IF e \in processed THEN 1 ELSE 0)
        BY DEF WebhookInv, CreditedOnce
      <4>3. e \in processed => e \in processed'
        BY <3>3
      <4> QED BY <4>1, <4>2, <4>3
    <3>6. \A c \in Deliveries : handler[c] \in CreditPoint => EventOf[c] # EventOf[d]
      BY <2>2 DEF WebhookInv, Creditor
    <3>7. Creditor'
      BY <3>1, <3>2, <3>3, <3>6 DEF WebhookInv, Creditor, CreditPoint, WebhookTypeOK
    <3> QED BY <3>4, <3>5, <3>7 DEF WebhookInv
  <2> QED BY <2>1, <2>2
<1>2. ASSUME NEW d \in Deliveries, Credit(d) PROVE WebhookInv'
  BY <1>2, CreditingKeeps DEF Credit, CreditPoint
<1>3. ASSUME NEW d \in Deliveries, CreditFindsNoRow(d) PROVE WebhookInv'
  BY <1>3, WebhookAssumption
     DEF CreditFindsNoRow, Reaches, WebhookInv, WebhookTypeOK, CreditsTypeOK, CreditedOnce,
         Creditor, CreditPoint, creditVars
<1>4. ASSUME NEW d \in Deliveries, CreditNewRow(d) PROVE WebhookInv'
  BY <1>4, CreditingKeeps DEF CreditNewRow, CreditPoint
<1>5. ASSUME NEW d \in Deliveries, TransactionFails(d) PROVE WebhookInv'
  BY <1>5, LeavingKeeps DEF TransactionFails, Answers
<1>6. ASSUME NEW d \in Deliveries, ServerDies(d) PROVE WebhookInv'
  BY <1>6, LeavingKeeps DEF ServerDies, Answers
<1>7. CASE UNCHANGED webhookVars
  BY <1>7 DEF webhookVars, creditVars, WebhookInv, WebhookTypeOK, CreditsTypeOK,
              CreditedOnce, Creditor
<1> QED BY <1>1, <1>2, <1>3, <1>4, <1>5, <1>6, <1>7 DEF WebhookNext

-----------------------------------------------------------------------------
(* The audits.                                                              *)

AuditInv == AuditTypeOK /\ NoUnpaidAudit

\* A charge posts one transaction of the audit, and never overdraws.
LEMMA ConsumePosts ==
  ASSUME NEW a \in Audits, CreditsTypeOK, Consume(a)
  PROVE  /\ CreditsTypeOK'
         /\ ledger' = [ledger EXCEPT ![a] = @ + 1]
         /\ NeverOverdrawn'
<1>1. a \in Refs /\ Value[a] \in Int
  BY CreditsAssumption, AuditAssumption
<1>2. ledger' = [ledger EXCEPT ![a] = @ + 1] /\ ledger' \in [Refs -> Nat]
  BY <1>1 DEF Consume, Posted, CreditsTypeOK
<1>3. AddToRows(Value[a])
  BY DEF Consume
<1>4. /\ quota' \in Seq(Int) /\ Len(quota') = Len(quota)
      /\ \A i \in DOMAIN quota : quota'[i] = quota[i] + Value[a]
  BY <1>1, <1>3, AddingKeepsRows DEF CreditsTypeOK
<1>5. NeverOverdrawn'
  <2> SUFFICES ASSUME Len(quota) = 1 PROVE quota'[1] >= 0
    BY <1>4 DEF NeverOverdrawn
  <2>1. PICK i \in DOMAIN quota : quota[i] + Value[a] >= 0
    BY DEF Consume, Sufficient
  <2>2. i = 1
    BY DEF CreditsTypeOK
  <2> QED BY <1>4, <2>1, <2>2
<1> QED BY <1>2, <1>4, <1>5 DEF CreditsTypeOK

\* Recording the result of a step, or losing it.
LEMMA OutcomeTypes ==
  ASSUME NEW a \in Audits, AuditTypeOK,
         NEW next \in Steps \cup {"ended"}, Recorded(a, next) \/ Lost(a)
  PROVE  /\ retries' \in [Audits -> 0..MaxRetries]
         /\ \E to \in {due[a], next, "abandoned"} : due' = [due EXCEPT ![a] = to]
<1>1. CASE Recorded(a, next)
  BY <1>1, AuditAssumption DEF Recorded, AuditTypeOK
<1>2. CASE Lost(a)
  <2>1. CASE retries[a] < MaxRetries
    BY <1>2, <2>1, AuditAssumption DEF Lost, AuditTypeOK
  <2>2. CASE ~(retries[a] < MaxRetries)
    BY <1>2, <2>2, AuditAssumption DEF Lost, AuditTypeOK
  <2> QED BY <2>1, <2>2
<1> QED BY <1>1, <1>2

\* triggerAuditAction starts the function at its charge, and commits a row that
\* nobody has worked on.
LEMMA RequestKeeps ==
  ASSUME NEW a \in Audits, AuditInv, CreditsTypeOK,
         InsertAudit(a) \/ SendEvent(a) \/ Commit(a) \/ Abort(a)
  PROVE  AuditInv'
<1>1. CASE InsertAudit(a)
  BY <1>1 DEF InsertAudit, AuditInv, AuditTypeOK, NoUnpaidAudit, CreditsTypeOK, creditVars
<1>2. CASE SendEvent(a)
  BY <1>2 DEF SendEvent, AuditInv, AuditTypeOK, NoUnpaidAudit, CreditsTypeOK, creditVars, Steps
<1>3. CASE Commit(a)
  BY <1>3 DEF Commit, AuditInv, AuditTypeOK, NoUnpaidAudit, CreditsTypeOK, creditVars, RowStatus
<1>4. CASE Abort(a)
  BY <1>4 DEF Abort, AuditInv, AuditTypeOK, NoUnpaidAudit, CreditsTypeOK, creditVars
<1> QED BY <1>1, <1>2, <1>3, <1>4

\* The function passes the charge only when a credit has been posted.
LEMMA ChargeKeeps ==
  ASSUME NEW a \in Audits, AuditInv, CreditsTypeOK, Charge(a)
  PROVE  AuditInv'
<1>1. a \in Refs /\ Audits \subseteq Refs
  BY AuditAssumption
<1>2. /\ ledger' \in [Refs -> Nat] /\ CreditsTypeOK'
      /\ \A b \in Audits : ledger'[b] >= ledger[b]
      /\ Consume(a) => ledger'[a] > 0
  <2>1. CASE Consume(a)
    <3>1. CreditsTypeOK' /\ ledger' = [ledger EXCEPT ![a] = @ + 1]
      BY <2>1, ConsumePosts
    <3>2. ledger \in [Refs -> Nat] /\ ledger' \in [Refs -> Nat]
      BY <3>1 DEF CreditsTypeOK
    <3> QED BY <1>1, <3>1, <3>2
  <2>2. CASE UNCHANGED creditVars
    <3>1. ~Consume(a)
      BY <1>1, <2>2 DEF Consume, Posted, creditVars, CreditsTypeOK
    <3> QED BY <1>1, <2>2, <3>1 DEF creditVars, CreditsTypeOK
  <2> QED BY <2>1, <2>2 DEF Charge
<1>3. \/ Consume(a) /\ Recorded(a, "crawling")
      \/ Recorded(a, "reject") \/ Lost(a)
  BY DEF Charge
<1>4. /\ retries' \in [Audits -> 0..MaxRetries]
      /\ \E to \in {"charge", "reject", "crawling", "abandoned"} :
           due' = [due EXCEPT ![a] = to] /\ (to = "crawling" => Consume(a))
  <2>1. CASE Consume(a) /\ Recorded(a, "crawling")
    BY <2>1, AuditAssumption DEF Recorded, AuditInv, AuditTypeOK
  <2>2. CASE Recorded(a, "reject") \/ Lost(a)
    <3>1. /\ retries' \in [Audits -> 0..MaxRetries]
          /\ \E to \in {due[a], "reject", "abandoned"} : due' = [due EXCEPT ![a] = to]
      BY <2>2, OutcomeTypes DEF AuditInv, Steps
    <3> QED BY <3>1 DEF Charge
  <2> QED BY <1>3, <2>1, <2>2
<1>5. row' = row /\ tx' = tx
  BY DEF Charge
<1>6. AuditTypeOK'
  BY <1>2, <1>4, <1>5 DEF AuditInv, AuditTypeOK, Steps
<1>7. NoUnpaidAudit'
  BY <1>1, <1>2, <1>4, <1>5 DEF AuditInv, AuditTypeOK, NoUnpaidAudit, CreditsTypeOK, Steps
<1> QED BY <1>6, <1>7 DEF AuditInv

\* The later steps work on an audit that is paid for, or reject one.
Worked == Steps \ {"charge", "reject"}

LEMMA PatchKeeps ==
  ASSUME NEW a \in Audits, AuditInv, CreditsTypeOK,
         NEW step \in Steps, NEW status \in RowStatus,
         NEW next \in Worked \cup {"ended"},
         step \in Worked \/ (status = "failed" /\ next = "ended"),
         Patch(a, step, status, next)
  PROVE  AuditInv'
<1>1. a \in Refs /\ Audits \subseteq Refs /\ UNCHANGED <<quota, ledger, tx>>
  BY AuditAssumption DEF Patch, creditVars
<1>2. /\ retries' \in [Audits -> 0..MaxRetries]
      /\ \E to \in {due[a], next, "abandoned"} : due' = [due EXCEPT ![a] = to]
  <2>1. Recorded(a, next) \/ Lost(a)
    BY DEF Patch
  <2> QED BY <2>1, OutcomeTypes DEF AuditInv, Worked
<1>3. due[a] = step
  BY DEF Patch
<1>4. \E st \in {row[a], status} : row' = [row EXCEPT ![a] = st]
  BY DEF Patch, Patched, AuditInv, AuditTypeOK
<1>5. AuditTypeOK'
  BY <1>1, <1>2, <1>4 DEF AuditInv, AuditTypeOK, Worked, CreditsTypeOK
<1>6. step \in Worked => ledger[a] > 0
  BY <1>3 DEF AuditInv, NoUnpaidAudit, Worked
<1>7. NoUnpaidAudit'
  BY <1>1, <1>2, <1>3, <1>4, <1>6
     DEF AuditInv, AuditTypeOK, NoUnpaidAudit, Worked, Steps, RowStatus
<1> QED BY <1>5, <1>7 DEF AuditInv

LEMMA WorkKeeps ==
  ASSUME NEW a \in Audits, AuditInv, CreditsTypeOK,
         NEW step \in Worked, NEW success \in Worked, NEW failure \in Worked,
         Work(a, step, success, failure)
  PROVE  AuditInv'
<1>1. /\ retries' \in [Audits -> 0..MaxRetries]
      /\ \E to \in Steps \cup {"abandoned"} : due' = [due EXCEPT ![a] = to]
  <2>1. Recorded(a, success) \/ Recorded(a, failure) \/ Lost(a)
    BY DEF Work
  <2>2. due[a] \in Steps
    BY DEF Work, Worked
  <2> QED BY <2>1, <2>2, OutcomeTypes DEF AuditInv, Worked
<1>2. UNCHANGED <<quota, ledger, tx, row>> /\ ledger[a] > 0
  BY DEF Work, creditVars, AuditInv, NoUnpaidAudit, Worked
<1>3. AuditTypeOK'
  BY <1>1, <1>2 DEF AuditInv, AuditTypeOK, CreditsTypeOK
<1>4. NoUnpaidAudit'
  BY <1>1, <1>2 DEF AuditInv, AuditTypeOK, NoUnpaidAudit
<1> QED BY <1>3, <1>4 DEF AuditInv

\* Every step of every audit keeps its invariant.
LEMMA AuditKeeps == AuditInv /\ CreditsTypeOK /\ AuditNext => AuditInv'
<1> SUFFICES ASSUME AuditInv, CreditsTypeOK, NEW a \in Audits,
                    \/ InsertAudit(a) \/ SendEvent(a) \/ Commit(a) \/ Abort(a)
                    \/ Charge(a) \/ Reject(a) \/ Crawling(a) \/ Crawl(a)
                    \/ CrawlFailed(a) \/ Analyzing(a) \/ Analyze(a)
                    \/ AnalysisFailed(a) \/ Complete(a)
             PROVE  AuditInv'
  BY DEF AuditNext
<1>1. CASE InsertAudit(a) \/ SendEvent(a) \/ Commit(a) \/ Abort(a)
  BY <1>1, RequestKeeps
<1>2. CASE Charge(a)
  BY <1>2, ChargeKeeps
<1>3. CASE Reject(a)
  BY <1>3, PatchKeeps DEF Reject, Steps, Worked, RowStatus
<1>4. CASE Crawling(a)
  BY <1>4, PatchKeeps DEF Crawling, Steps, Worked, RowStatus
<1>5. CASE Crawl(a)
  BY <1>5, WorkKeeps DEF Crawl, Steps, Worked
<1>6. CASE CrawlFailed(a)
  BY <1>6, PatchKeeps DEF CrawlFailed, Steps, Worked, RowStatus
<1>7. CASE Analyzing(a)
  BY <1>7, PatchKeeps DEF Analyzing, Steps, Worked, RowStatus
<1>8. CASE Analyze(a)
  BY <1>8, WorkKeeps DEF Analyze, Steps, Worked
<1>9. CASE AnalysisFailed(a)
  BY <1>9, PatchKeeps DEF AnalysisFailed, Steps, Worked, RowStatus
<1>10. CASE Complete(a)
  BY <1>10, PatchKeeps DEF Complete, Steps, Worked, RowStatus
<1> QED BY <1>1, <1>2, <1>3, <1>4, <1>5, <1>6, <1>7, <1>8, <1>9, <1>10

-----------------------------------------------------------------------------
(* The tenant's credits: both components together.                          *)

BillingInv == WebhookInv /\ AuditInv /\ NeverOverdrawn

\* An audit changes the credits only by its charge, and not the webhook.
LEMMA AuditCredits ==
  ASSUME NEW a \in Audits,
         \/ InsertAudit(a) \/ SendEvent(a) \/ Commit(a) \/ Abort(a)
         \/ Charge(a) \/ Reject(a) \/ Crawling(a) \/ Crawl(a)
         \/ CrawlFailed(a) \/ Analyzing(a) \/ Analyze(a)
         \/ AnalysisFailed(a) \/ Complete(a)
  PROVE  Consume(a) \/ UNCHANGED creditVars
BY DEF InsertAudit, SendEvent, Commit, Abort, Charge, Reject, Crawling, Crawl,
       CrawlFailed, Analyzing, Analyze, AnalysisFailed, Complete, Patch, Work

LEMMA AuditKeepsBilling ==
  BillingInv /\ AuditNext /\ UNCHANGED <<processed, handler>> => BillingInv'
<1> SUFFICES ASSUME BillingInv, AuditNext, UNCHANGED <<processed, handler>>
             PROVE  BillingInv'
  OBVIOUS
<1>1. PICK a \in Audits : Consume(a) \/ UNCHANGED creditVars
  BY AuditCredits DEF AuditNext
<1>2. CreditsTypeOK
  BY DEF BillingInv, WebhookInv, WebhookTypeOK
<1>3. CreditsTypeOK' /\ NeverOverdrawn' /\ \A e \in Events : ledger'[e] = ledger[e]
  <2>1. CASE Consume(a)
    <3>1. a \notin Events /\ Events \subseteq Refs
      BY BillingAssumption
    <3> QED BY <1>2, <2>1, <3>1, ConsumePosts DEF CreditsTypeOK
  <2>2. CASE UNCHANGED creditVars
    BY <1>2, <2>2 DEF creditVars, CreditsTypeOK, NeverOverdrawn, BillingInv
  <2> QED BY <1>1, <2>1, <2>2
<1>4. WebhookInv'
  BY <1>3, WebhookAssumption
     DEF BillingInv, WebhookInv, WebhookTypeOK, CreditedOnce, Creditor
<1>5. AuditInv'
  BY <1>2, AuditKeeps DEF BillingInv
<1> QED BY <1>3, <1>4, <1>5 DEF BillingInv

\* An allocation only adds: to the one row there is, or as a row of its own.
LEMMA AllocationNeverOverdraws ==
  ASSUME NEW e \in Events, CreditsTypeOK, NeverOverdrawn,
         AllocateToRows(e) \/ AllocateNewRow(e)
  PROVE  NeverOverdrawn'
<1>1. Value[e] \in Int /\ Value[e] > 0
  BY CreditsAssumption, WebhookAssumption
<1>2. CASE AllocateToRows(e)
  <2>1. /\ Len(quota') = Len(quota)
        /\ \A i \in DOMAIN quota : quota'[i] = quota[i] + Value[e]
    BY <1>1, <1>2, AddingKeepsRows DEF AllocateToRows, CreditsTypeOK
  <2>2. \A i \in 1..Len(quota) : quota[i] \in Int
    BY DEF CreditsTypeOK
  <2> SUFFICES ASSUME Len(quota) = 1 PROVE quota'[1] >= 0
    BY <2>1 DEF NeverOverdrawn
  <2> QED BY <1>1, <2>1, <2>2 DEF NeverOverdrawn
<1>3. CASE AllocateNewRow(e)
  <2> SUFFICES ASSUME Len(quota') = 1 PROVE quota'[1] >= 0
    BY DEF NeverOverdrawn
  <2>1. quota' = Append(quota, Value[e])
    BY <1>3 DEF AllocateNewRow
  <2>2. Len(quota) = 0 /\ quota'[1] = Value[e]
    BY <1>1, <2>1 DEF CreditsTypeOK
  <2> QED BY <1>1, <2>2
<1> QED BY <1>2, <1>3

\* A delivery changes the credits only by the allocation of its event.
LEMMA DeliveryCredits ==
  ASSUME NEW d \in Deliveries,
         \/ Record(d) \/ Credit(d) \/ CreditFindsNoRow(d) \/ CreditNewRow(d)
         \/ TransactionFails(d) \/ ServerDies(d)
  PROVE  \/ AllocateToRows(EventOf[d]) \/ AllocateNewRow(EventOf[d])
         \/ UNCHANGED creditVars
BY DEF Record, Credit, CreditFindsNoRow, CreditNewRow, TransactionFails, ServerDies

LEMMA WebhookKeepsBilling ==
  BillingInv /\ WebhookNext /\ UNCHANGED <<tx, row, due, retries>> => BillingInv'
<1> SUFFICES ASSUME BillingInv, WebhookNext, UNCHANGED <<tx, row, due, retries>>
             PROVE  BillingInv'
  OBVIOUS
<1>1. PICK d \in Deliveries :
        \/ AllocateToRows(EventOf[d]) \/ AllocateNewRow(EventOf[d])
        \/ UNCHANGED creditVars
  BY DeliveryCredits DEF WebhookNext
<1>2. CreditsTypeOK /\ EventOf[d] \in Events /\ EventOf[d] \in Refs
  BY WebhookAssumption DEF BillingInv, WebhookInv, WebhookTypeOK
<1>3. WebhookInv'
  BY WebhookNextInv DEF BillingInv
<1>4. CreditsTypeOK' /\ NeverOverdrawn' /\ \A a \in Audits : ledger'[a] = ledger[a]
  <2>1. CASE AllocateToRows(EventOf[d]) \/ AllocateNewRow(EventOf[d])
    <3>1. EventOf[d] \notin Audits /\ Audits \subseteq Refs
      BY <1>2, BillingAssumption
    <3>2. CreditsTypeOK' /\ ledger' = [ledger EXCEPT ![EventOf[d]] = @ + 1]
      BY <1>2, <2>1, AllocationPosts
    <3>3. NeverOverdrawn'
      BY <1>2, <2>1, AllocationNeverOverdraws DEF BillingInv
    <3> QED BY <1>2, <3>1, <3>2, <3>3 DEF CreditsTypeOK
  <2>2. CASE UNCHANGED creditVars
    BY <1>2, <2>2 DEF creditVars, CreditsTypeOK, NeverOverdrawn, BillingInv
  <2> QED BY <1>1, <2>1, <2>2
<1>5. AuditInv'
  BY <1>4 DEF BillingInv, AuditInv, AuditTypeOK, NoUnpaidAudit
<1> QED BY <1>3, <1>4, <1>5 DEF BillingInv

LEMMA BillingInvariant == BillingSpec => []BillingInv
<1>1. BillingInit => BillingInv
  <2> SUFFICES ASSUME BillingInit PROVE BillingInv
    OBVIOUS
  <2>1. WebhookInv
    BY WebhookInitInv DEF BillingInit
  <2>2. AuditInv
    BY <2>1, AuditAssumption
       DEF BillingInit, AuditInit, AuditInv, AuditTypeOK, NoUnpaidAudit, Steps,
           WebhookInv, WebhookTypeOK
  <2>3. NeverOverdrawn
    BY DEF BillingInit, WebhookInit, CreditsInit, NeverOverdrawn
  <2> QED BY <2>1, <2>2, <2>3 DEF BillingInv
<1>2. BillingInv /\ [BillingNext]_billingVars => BillingInv'
  <2>1. CASE UNCHANGED billingVars
    BY <2>1 DEF billingVars, webhookVars, auditVars, creditVars, BillingInv, WebhookInv,
       AuditInv, WebhookTypeOK, AuditTypeOK, CreditsTypeOK, CreditedOnce, Creditor,
       NoUnpaidAudit, NeverOverdrawn
  <2> QED BY <2>1, WebhookKeepsBilling, AuditKeepsBilling DEF BillingNext
<1> QED BY <1>1, <1>2, PTL DEF BillingSpec

\* The insert-before-process ledger of POST /api/webhooks/payment works: an
\* event is credited at most once, and never before it is recorded.
THEOREM CreditedOnceHolds == BillingSpec => []CreditedOnce
<1>1. BillingInv => CreditedOnce
  BY DEF BillingInv, WebhookInv
<1> QED BY <1>1, BillingInvariant, PTL

\* run-audit never works on an audit, nor shows it as worked on, before a credit
\* has been posted for it, however often its steps are run again.
THEOREM NoUnpaidAuditHolds == BillingSpec => []NoUnpaidAudit
<1>1. BillingInv => NoUnpaidAudit
  BY DEF BillingInv, AuditInv
<1> QED BY <1>1, BillingInvariant, PTL

\* consumeCredits never overdraws a balance that one row holds.
THEOREM NeverOverdrawnHolds == BillingSpec => []NeverOverdrawn
<1>1. BillingInv => NeverOverdrawn
  BY DEF BillingInv
<1> QED BY <1>1, BillingInvariant, PTL

-----------------------------------------------------------------------------
(* The status of an audit.                                                  *)

\* What a user can be shown of an audit whose function is at each step: the patches
\* of the steps before it, those that found no row left out, and, as it may have been
\* lost, the patch of this step.
Early == {"none", "pending"}

Shown(a) ==
  /\ tx[a] # "committed" => row[a] = "none"
  /\ due[a] = "charge" => row[a] \in Early
  /\ due[a] = "reject" => row[a] \in Early \cup {"failed"}
  /\ due[a] \in {"crawling", "crawl"} => row[a] \in Early \cup {"crawling"}
  /\ due[a] = "crawlfailed" => row[a] \in Early \cup {"crawling", "failed"}
  /\ due[a] \in {"analyzing", "analyze"} => row[a] \in Early \cup {"crawling", "analyzing"}
  /\ due[a] = "analysisfailed" => row[a] \in Early \cup {"crawling", "analyzing", "failed"}
  /\ due[a] = "complete" => row[a] \in Early \cup {"crawling", "analyzing", "completed"}

StatusInv == \A a \in Audits : Shown(a)

Advances(a) == row'[a] = row[a] \/ Rank[row'[a]] > Rank[row[a]]

\* The ranks of the statuses.
LEMMA Ranks ==
  /\ Rank["none"] = 0 /\ Rank["pending"] = 1 /\ Rank["crawling"] = 2
  /\ Rank["analyzing"] = 3 /\ Rank["completed"] = 4 /\ Rank["failed"] = 4
BY DEF Rank

\* The step of one audit changes nothing of the others.
LEMMA OthersStay ==
  ASSUME AuditTypeOK, NEW a \in Audits,
         \/ InsertAudit(a) \/ SendEvent(a) \/ Commit(a) \/ Abort(a)
         \/ Charge(a) \/ Reject(a) \/ Crawling(a) \/ Crawl(a)
         \/ CrawlFailed(a) \/ Analyzing(a) \/ Analyze(a)
         \/ AnalysisFailed(a) \/ Complete(a)
  PROVE  \A b \in Audits : b # a => tx'[b] = tx[b] /\ row'[b] = row[b] /\ due'[b] = due[b]
<1> DEFINE Same(b) == tx'[b] = tx[b] /\ row'[b] = row[b] /\ due'[b] = due[b]
<1> SUFFICES ASSUME NEW b \in Audits, b # a PROVE Same(b)
  OBVIOUS
<1>1. ASSUME NEW to, Recorded(a, to) \/ Lost(a) PROVE due'[b] = due[b]
  BY <1>1 DEF AuditTypeOK, Recorded, Lost
<1>2. ASSUME NEW step, NEW status, NEW next, Patch(a, step, status, next) PROVE Same(b)
  <2>1. Recorded(a, next) \/ Lost(a)
    BY <1>2 DEF Patch
  <2>2. row'[b] = row[b] /\ tx' = tx
    BY <1>2 DEF Patch, Patched, AuditTypeOK
  <2> QED
    BY <1>1, <2>1, <2>2
<1>3. ASSUME NEW step, NEW success, NEW failure, Work(a, step, success, failure) PROVE Same(b)
  BY <1>1, <1>3 DEF Work
<1>4. CASE InsertAudit(a) \/ SendEvent(a) \/ Commit(a) \/ Abort(a)
  BY <1>4 DEF InsertAudit, SendEvent, Commit, Abort, AuditTypeOK
<1>5. CASE Charge(a)
  BY <1>1, <1>5 DEF Charge
<1> QED
  BY <1>2, <1>3, <1>4, <1>5
     DEF Reject, Crawling, Crawl, CrawlFailed, Analyzing, Analyze, AnalysisFailed, Complete

\* Where the function may go from a step, and what the step may do to the row.
LEMMA PatchMoves ==
  ASSUME AuditTypeOK, NEW a \in Audits, NEW step, NEW status, NEW next,
         Patch(a, step, status, next)
  PROVE  /\ due[a] = step /\ tx'[a] = tx[a]
         /\ \/ /\ due'[a] \in {step, next, "abandoned"}
               /\ row'[a] = (IF row[a] = "none" THEN "none" ELSE status)
            \/ due'[a] \in {step, "abandoned"} /\ row'[a] = row[a]
BY DEF Patch, Patched, Recorded, Lost, AuditTypeOK

\* The same for a step that leaves the row alone.
LEMMA WorkMoves ==
  ASSUME AuditTypeOK, NEW a \in Audits, NEW step, NEW success, NEW failure,
         Work(a, step, success, failure)
  PROVE  /\ due[a] = step /\ tx'[a] = tx[a] /\ row'[a] = row[a]
         /\ due'[a] \in {step, success, failure, "abandoned"}
BY DEF Work, Recorded, Lost, AuditTypeOK

\* Every step of an audit goes on with it, and leaves what may be shown at the next.
LEMMA AuditAdvances ==
  ASSUME AuditTypeOK, NEW a \in Audits, Shown(a),
         \/ InsertAudit(a) \/ SendEvent(a) \/ Commit(a) \/ Abort(a)
         \/ Charge(a) \/ Reject(a) \/ Crawling(a) \/ Crawl(a)
         \/ CrawlFailed(a) \/ Analyzing(a) \/ Analyze(a)
         \/ AnalysisFailed(a) \/ Complete(a)
  PROVE  Shown(a)' /\ Advances(a)
<1>1. CASE InsertAudit(a)
  BY <1>1 DEF InsertAudit, Shown, Advances, AuditTypeOK, Early
<1>2. CASE SendEvent(a)
  BY <1>2 DEF SendEvent, Shown, Advances, AuditTypeOK, Early
<1>3. CASE Commit(a)
  <2>1. /\ row[a] = "none" /\ row'[a] = "pending" /\ tx'[a] = "committed"
        /\ due' = due
    BY <1>3 DEF Commit, Shown, AuditTypeOK
  <2>2. Shown(a)'
    BY <2>1 DEF Shown, Early
  <2> QED
    BY <2>1, <2>2, Ranks DEF Advances
<1>4. CASE Abort(a)
  BY <1>4 DEF Abort, Shown, Advances, AuditTypeOK, Early
<1>5. CASE Charge(a)
  <2>1. /\ due[a] = "charge" /\ tx' = tx /\ row' = row
        /\ due'[a] \in {"charge", "crawling", "reject", "abandoned"}
    BY <1>5 DEF Charge, Recorded, Lost, AuditTypeOK
  <2> QED
    BY <2>1 DEF Shown, Early, Advances
<1>6. CASE Reject(a)
  <2>1. Patch(a, "reject", "failed", "ended")
    BY <1>6 DEF Reject
  <2> QED
    BY <2>1, PatchMoves, Ranks DEF Shown, Early, Advances
<1>7. CASE Crawling(a)
  <2>1. Patch(a, "crawling", "crawling", "crawl")
    BY <1>7 DEF Crawling
  <2> QED
    BY <2>1, PatchMoves, Ranks DEF Shown, Early, Advances
<1>8. CASE Crawl(a)
  <2>1. Work(a, "crawl", "analyzing", "crawlfailed")
    BY <1>8 DEF Crawl
  <2> QED
    BY <2>1, WorkMoves DEF Shown, Early, Advances
<1>9. CASE CrawlFailed(a)
  <2>1. Patch(a, "crawlfailed", "failed", "ended")
    BY <1>9 DEF CrawlFailed
  <2> QED
    BY <2>1, PatchMoves, Ranks DEF Shown, Early, Advances
<1>10. CASE Analyzing(a)
  <2>1. Patch(a, "analyzing", "analyzing", "analyze")
    BY <1>10 DEF Analyzing
  <2> QED
    BY <2>1, PatchMoves, Ranks DEF Shown, Early, Advances
<1>11. CASE Analyze(a)
  <2>1. Work(a, "analyze", "complete", "analysisfailed")
    BY <1>11 DEF Analyze
  <2> QED
    BY <2>1, WorkMoves DEF Shown, Early, Advances
<1>12. CASE AnalysisFailed(a)
  <2>1. Patch(a, "analysisfailed", "failed", "ended")
    BY <1>12 DEF AnalysisFailed
  <2> QED
    BY <2>1, PatchMoves, Ranks DEF Shown, Early, Advances
<1>13. CASE Complete(a)
  <2>1. Patch(a, "complete", "completed", "ended")
    BY <1>13 DEF Complete
  <2> QED
    BY <2>1, PatchMoves, Ranks DEF Shown, Early, Advances
<1> QED
  BY <1>1, <1>2, <1>3, <1>4, <1>5, <1>6, <1>7, <1>8, <1>9, <1>10, <1>11, <1>12, <1>13

\* The steps together: nobody else changes the row of an audit.
LEMMA StatusStep ==
  ASSUME BillingInv, StatusInv, [BillingNext]_billingVars
  PROVE  StatusInv' /\ \A a \in Audits : Advances(a)
<1>1. AuditTypeOK
  BY DEF BillingInv, AuditInv
<1>2. CASE UNCHANGED <<tx, row, due>>
  BY <1>2 DEF StatusInv, Shown, Advances
<1>3. CASE AuditNext
  <2>1. PICK a \in Audits :
          \/ InsertAudit(a) \/ SendEvent(a) \/ Commit(a) \/ Abort(a)
          \/ Charge(a) \/ Reject(a) \/ Crawling(a) \/ Crawl(a)
          \/ CrawlFailed(a) \/ Analyzing(a) \/ Analyze(a)
          \/ AnalysisFailed(a) \/ Complete(a)
    BY <1>3 DEF AuditNext
  <2>2. Shown(a)' /\ Advances(a)
    BY <1>1, <2>1, AuditAdvances DEF StatusInv
  <2>3. \A b \in Audits : b # a => tx'[b] = tx[b] /\ row'[b] = row[b] /\ due'[b] = due[b]
    BY <1>1, <2>1, OthersStay
  <2>4. ASSUME NEW b \in Audits, b # a PROVE Shown(b)' /\ Advances(b)
    BY <2>3, <2>4 DEF StatusInv, Shown, Advances
  <2> QED
    BY <2>2, <2>4 DEF StatusInv
<1> QED
  BY <1>2, <1>3 DEF BillingNext, billingVars, auditVars

\* The status of an audit never goes back and its outcome is final, although Inngest
\* runs steps again and patchAudit does not tell whether it found the row.
THEOREM StatusNeverRegressesHolds == BillingSpec => StatusNeverRegresses
<1>1. BillingInit => StatusInv
  BY DEF BillingInit, AuditInit, StatusInv, Shown, Early
<1>2. BillingInv /\ StatusInv /\ [BillingNext]_billingVars => StatusInv'
  BY StatusStep
<1>3. BillingInv /\ StatusInv /\ [BillingNext]_billingVars
        => [\A a \in Audits : row'[a] = row[a] \/ Rank[row'[a]] > Rank[row[a]]]_auditVars
  BY StatusStep DEF Advances
<1> QED
  BY <1>1, <1>2, <1>3, BillingInvariant, PTL DEF BillingSpec, StatusNeverRegresses

-----------------------------------------------------------------------------
(* The sum of the ledger.  What MapThenSumSet adds up is a recursive        *)
(* function on the sets of references; it is unfolded here by hand.         *)

Part(l, r) == l[r] * Value[r]

Pick(s) == CHOOSE r \in s : TRUE

SumOf(l, g, s) == IF s = {} THEN 0 ELSE Part(l, Pick(s)) + g[s \ {Pick(s)}]

Sums(l, g) == g = [s \in SUBSET Refs |-> SumOf(l, g, s)]

Summed(l) == CHOOSE g : Sums(l, g)

\* The total of the ledger is the sum over all references.
LEMMA LedgerTotalIs ==
  LedgerTotal = Summed(ledger)[Refs] /\ LedgerTotal' = Summed(ledger')[Refs]
<1>1. LedgerTotal = Summed(ledger)[Refs]
  BY Zenon DEF LedgerTotal, MapThenSumSet, MapThenFoldSet, Summed, Sums, SumOf, Pick, Part
<1>2. LedgerTotal' = Summed(ledger')[Refs]
  BY Zenon DEF LedgerTotal, MapThenSumSet, MapThenFoldSet, Summed, Sums, SumOf, Pick, Part
<1> QED
  BY <1>1, <1>2

\* Induction over the natural numbers, for the numbers of a set.
LEMMA AllNumbers ==
  ASSUME NEW N \in SUBSET Nat, 0 \in N, \A n \in N : n + 1 \in N
  PROVE  N = Nat
<1> SUFFICES ASSUME Nat \ N # {} PROVE FALSE
  OBVIOUS
<1>1. PICK n \in Nat \ N : \A m \in Nat \ N : <<m, n>> \notin OpToRel(<, Nat)
  BY NatLessThanWellFounded, WFMin, Zenon
<1>2. n \in Nat /\ n # 0 /\ n \notin N
  OBVIOUS
<1>3. n - 1 \in Nat /\ n - 1 < n /\ n - 1 + 1 = n
  BY <1>2
<1>4. n - 1 \in N
  BY <1>1, <1>3 DEF OpToRel
<1> QED
  BY <1>2, <1>3, <1>4

\* Induction over the subsets of a finite set.
LEMMA AllSubsets ==
  ASSUME NEW S, IsFiniteSet(S), NEW M \in SUBSET SUBSET S, {} \in M,
         \A s \in SUBSET S : s # {} => \E r \in s : s \ {r} \in M => s \in M
  PROVE  M = SUBSET S
<1> DEFINE N == {n \in Nat : \A s \in SUBSET S : Cardinality(s) = n => s \in M}
<1>1. \A s \in SUBSET S : IsFiniteSet(s) /\ Cardinality(s) \in Nat
  BY FS_Subset, FS_CardinalityType
<1>2. 0 \in N
  BY <1>1, FS_EmptySet
<1>3. ASSUME NEW n \in N PROVE n + 1 \in N
  <2>1. ASSUME NEW s \in SUBSET S, Cardinality(s) = n + 1 PROVE s \in M
    <3>1. s # {}
      BY <2>1, FS_EmptySet
    <3>2. PICK r \in s : s \ {r} \in M => s \in M
      BY <3>1
    <3>3. Cardinality(s \ {r}) = n
      <4>1. IsFiniteSet(s) /\ n \in Nat
        BY <1>1, <1>3
      <4>2. Cardinality(s \ {r}) = Cardinality(s) - 1
        BY <3>2, <4>1, FS_RemoveElement
      <4> QED
        BY <2>1, <4>1, <4>2
    <3>4. s \ {r} \in SUBSET S
      OBVIOUS
    <3> QED
      BY <1>3, <3>2, <3>3, <3>4
  <2> QED
    BY <1>3, <2>1
<1>4. N = Nat
  <2>1. N \in SUBSET Nat
    OBVIOUS
  <2> HIDE DEF N
  <2> QED
    BY <1>2, <1>3, <2>1, AllNumbers
<1> QED
  BY <1>1, <1>4

\* There is such a function, and it is the one the definition chooses.
LEMMA SummedIs ==
  ASSUME NEW l \in [Refs -> Nat]
  PROVE  /\ Sums(l, Summed(l)) /\ Summed(l) \in [SUBSET Refs -> Int]
         /\ Summed(l)[{}] = 0
         /\ \A s \in SUBSET Refs :
              s # {} => /\ Pick(s) \in s
                        /\ Summed(l)[s] = Part(l, Pick(s)) + Summed(l)[s \ {Pick(s)}]
<1> DEFINE Good(g, n) == \A s \in SUBSET Refs : Cardinality(s) <= n => g[s] = SumOf(l, g, s)
           N == {n \in Nat : \E g \in [SUBSET Refs -> Int] : Good(g, n)}
<1>1. \A r \in Refs : Part(l, r) \in Int
  BY CreditsAssumption DEF Part
<1>2. \A s \in SUBSET Refs : IsFiniteSet(s) /\ Cardinality(s) \in Nat
  BY CreditsAssumption, FS_Subset, FS_CardinalityType
<1>3. \A s \in SUBSET Refs : s # {} => Pick(s) \in s
  BY DEF Pick
<1>4. ASSUME NEW s \in SUBSET Refs, s # {}
      PROVE  s \ {Pick(s)} \in SUBSET Refs /\ Cardinality(s \ {Pick(s)}) = Cardinality(s) - 1
  <2>1. IsFiniteSet(s) /\ Pick(s) \in s
    BY <1>2, <1>3, <1>4
  <2> QED
    BY <2>1, FS_RemoveElement
<1>5. \A g \in [SUBSET Refs -> Int] : \A s \in SUBSET Refs : SumOf(l, g, s) \in Int
  BY <1>1, <1>3, <1>4 DEF SumOf
<1>6. 0 \in N
  <2> DEFINE zero == [s \in SUBSET Refs |-> 0]
  <2>1. zero \in [SUBSET Refs -> Int]
    OBVIOUS
  <2>2. ASSUME NEW s \in SUBSET Refs, Cardinality(s) <= 0 PROVE zero[s] = SumOf(l, zero, s)
    <3>1. s = {}
      BY <1>2, <2>2, FS_EmptySet
    <3> QED
      BY <3>1 DEF SumOf
  <2> QED
    BY <2>1, <2>2
<1>7. ASSUME NEW n \in N PROVE n + 1 \in N
  <2>1. PICK g \in [SUBSET Refs -> Int] : Good(g, n)
    BY <1>7
  <2> DEFINE h == [s \in SUBSET Refs |-> SumOf(l, g, s)]
  <2>2. h \in [SUBSET Refs -> Int]
    BY <1>5
  <2>3. ASSUME NEW s \in SUBSET Refs, Cardinality(s) <= n + 1 PROVE h[s] = SumOf(l, h, s)
    <3>1. h[s] = SumOf(l, g, s)
      OBVIOUS
    <3>2. CASE s = {}
      BY <3>1, <3>2 DEF SumOf
    <3>3. CASE s # {}
      <4> DEFINE q == s \ {Pick(s)}
      <4>1. q \in SUBSET Refs /\ Cardinality(q) = Cardinality(s) - 1
        BY <1>4, <3>3
      <4>2. Cardinality(q) <= n
        BY <1>2, <1>7, <2>3, <4>1
      <4>3. g[q] = SumOf(l, g, q)
        BY <2>1, <4>1, <4>2
      <4>4. h[q] = g[q]
        BY <4>1, <4>3
      <4> HIDE DEF h
      <4> QED
        BY <3>1, <3>3, <4>4 DEF SumOf
    <3> QED
      BY <3>2, <3>3
  <2> HIDE DEF h
  <2>4. n + 1 \in Nat /\ Good(h, n + 1)
    BY <1>7, <2>3
  <2> QED
    BY <2>2, <2>4
<1>8. N = Nat
  <2>1. N \in SUBSET Nat
    OBVIOUS
  <2> HIDE DEF N
  <2> QED
    BY <1>6, <1>7, <2>1, AllNumbers
<1>9. \E g : Sums(l, g) /\ g \in [SUBSET Refs -> Int]
  <2>1. Cardinality(Refs) \in Nat /\ \A s \in SUBSET Refs : Cardinality(s) <= Cardinality(Refs)
    BY CreditsAssumption, FS_Subset, FS_CardinalityType
  <2>2. PICK g \in [SUBSET Refs -> Int] : Good(g, Cardinality(Refs))
    BY <1>8, <2>1
  <2>3. \A s \in SUBSET Refs : g[s] = SumOf(l, g, s)
    BY <2>1, <2>2
  <2>4. g = [s \in SUBSET Refs |-> g[s]]
    OBVIOUS
  <2>5. g = [s \in SUBSET Refs |-> SumOf(l, g, s)]
    BY <2>3, <2>4
  <2> QED
    BY <2>5 DEF Sums
<1>10. Sums(l, Summed(l))
  BY <1>9, Zenon DEF Summed
<1> DEFINE f == Summed(l)
<1>11. f = [s \in SUBSET Refs |-> SumOf(l, f, s)]
  BY <1>10, Zenon DEF Sums
<1> HIDE DEF f
<1>12. \A s \in SUBSET Refs : f[s] = SumOf(l, f, s)
  BY <1>11
<1>13. f[{}] = 0
  BY <1>12 DEF SumOf
<1>14. \A s \in SUBSET Refs : s # {} => f[s] = Part(l, Pick(s)) + f[s \ {Pick(s)}]
  BY <1>12 DEF SumOf
<1>15. f \in [SUBSET Refs -> Int]
  <2> DEFINE M == {s \in SUBSET Refs : f[s] \in Int}
  <2>1. ASSUME NEW s \in SUBSET Refs, s # {} PROVE \E r \in s : s \ {r} \in M => s \in M
    <3>1. PICK r \in s : r = Pick(s) /\ r \in Refs /\ f[s] = Part(l, r) + f[s \ {r}]
      BY <1>3, <1>14, <2>1
    <3>2. ASSUME s \ {r} \in M PROVE s \in M
      <4>1. f[s \ {r}] \in Int /\ Part(l, r) \in Int
        BY <1>1, <3>1, <3>2
      <4> QED
        BY <3>1, <4>1
    <3> QED
      BY <3>2
  <2>2. M \in SUBSET SUBSET Refs /\ {} \in M
    BY <1>13
  <2> HIDE DEF M
  <2>3. M = SUBSET Refs
    BY <2>1, <2>2, CreditsAssumption, AllSubsets
  <2> QED
    BY <1>11, <2>3 DEF M
<1> QED
  BY <1>3, <1>10, <1>13, <1>14, <1>15 DEF f

\* One more transaction of a reference adds its value to the sum, if it is in the set.
LEMMA PostingAdds ==
  ASSUME NEW l \in [Refs -> Nat], NEW r \in Refs
  PROVE  Summed([l EXCEPT ![r] = @ + 1])[Refs] = Summed(l)[Refs] + Value[r]
<1> DEFINE k == [l EXCEPT ![r] = @ + 1]
           F == Summed(l)
           G == Summed(k)
<1>1. k \in [Refs -> Nat] /\ Value[r] \in Int
  BY CreditsAssumption
<1>2. /\ Part(k, r) = Part(l, r) + Value[r]
      /\ \A q \in Refs : q # r => Part(k, q) = Part(l, q)
      /\ \A q \in Refs : Part(l, q) \in Int
  <2>1. l[r] \in Nat /\ k[r] = l[r] + 1 /\ \A q \in Refs : q # r => k[q] = l[q]
    OBVIOUS
  <2>2. \A q \in Refs : l[q] * Value[q] \in Int
    BY CreditsAssumption
  <2>3. (l[r] + 1) * Value[r] = l[r] * Value[r] + Value[r]
    BY <1>1, <2>1
  <2> HIDE DEF k
  <2> QED
    BY <2>1, <2>2, <2>3 DEF Part
<1> HIDE DEF k
<1>3. /\ F \in [SUBSET Refs -> Int] /\ F[{}] = 0
      /\ \A s \in SUBSET Refs :
           s # {} => Pick(s) \in s /\ F[s] = Part(l, Pick(s)) + F[s \ {Pick(s)}]
  BY SummedIs
<1>4. /\ G \in [SUBSET Refs -> Int] /\ G[{}] = 0
      /\ \A s \in SUBSET Refs : s # {} => G[s] = Part(k, Pick(s)) + G[s \ {Pick(s)}]
  BY <1>1, SummedIs
<1> HIDE DEF F, G
<1> DEFINE M == {s \in SUBSET Refs : G[s] = F[s] + (IF r \in s THEN Value[r] ELSE 0)}
<1>5. {} \in M /\ M \in SUBSET SUBSET Refs
  BY <1>3, <1>4
<1>6. ASSUME NEW s \in SUBSET Refs, s # {} PROVE \E p \in s : s \ {p} \in M => s \in M
  <2> DEFINE p == Pick(s)
             q == s \ {p}
  <2>1. p \in s /\ p \in Refs /\ q \in SUBSET Refs /\ (r \in q <=> r \in s /\ r # p)
    BY <1>3, <1>6
  <2>2. F[s] = Part(l, p) + F[q] /\ G[s] = Part(k, p) + G[q]
    BY <1>3, <1>4, <1>6
  <2>3. F[q] \in Int /\ G[q] \in Int /\ Part(l, p) \in Int
    BY <1>2, <1>3, <1>4, <2>1
  <2> HIDE DEF p, q
  <2>4. ASSUME q \in M PROVE s \in M
    <3>1. G[q] = F[q] + (IF r \in q THEN Value[r] ELSE 0)
      BY <2>4
    <3>2. CASE r = p
      <4>1. Part(k, p) = Part(l, p) + Value[r] /\ G[q] = F[q] /\ r \in s
        BY <1>2, <2>1, <2>3, <3>1, <3>2
      <4>2. G[s] = F[s] + Value[r]
        BY <1>1, <2>2, <2>3, <4>1
      <4> QED
        BY <4>1, <4>2
    <3>3. CASE r # p
      <4>1. Part(k, p) = Part(l, p) /\ (r \in q <=> r \in s)
        BY <1>2, <2>1, <3>3
      <4>2. G[s] = F[s] + (IF r \in s THEN Value[r] ELSE 0)
        BY <1>1, <2>2, <2>3, <3>1, <4>1
      <4> QED
        BY <4>2
    <3> QED
      BY <3>2, <3>3
  <2> QED
    BY <2>1, <2>4 DEF q
<1> HIDE DEF M
<1>7. M = SUBSET Refs
  BY <1>5, <1>6, CreditsAssumption, AllSubsets
<1>8. G[Refs] = F[Refs] + Value[r]
  BY <1>7 DEF M
<1> QED
  BY <1>8 DEF F, G, k

\* Nothing adds up to nothing.
LEMMA NothingPosted ==
  ASSUME NEW l \in [Refs -> Nat], \A r \in Refs : l[r] = 0
  PROVE  Summed(l)[Refs] = 0
<1> DEFINE F == Summed(l)
           M == {s \in SUBSET Refs : F[s] = 0}
<1>1. /\ F \in [SUBSET Refs -> Int] /\ F[{}] = 0
      /\ \A s \in SUBSET Refs :
           s # {} => Pick(s) \in s /\ F[s] = Part(l, Pick(s)) + F[s \ {Pick(s)}]
  BY SummedIs
<1> HIDE DEF F
<1>2. \A r \in Refs : Part(l, r) = 0
  BY CreditsAssumption DEF Part
<1>3. ASSUME NEW s \in SUBSET Refs, s # {} PROVE \E p \in s : s \ {p} \in M => s \in M
  <2>1. PICK p \in s : p = Pick(s) /\ p \in Refs /\ F[s] = Part(l, p) + F[s \ {p}]
    BY <1>1, <1>3
  <2>2. s \ {p} \in M => F[s \ {p}] = 0
    OBVIOUS
  <2>3. s \ {p} \in M => F[s] = 0
    BY <1>2, <2>1, <2>2
  <2> QED
    BY <2>1, <2>3
<1>4. {} \in M /\ M \in SUBSET SUBSET Refs
  BY <1>1
<1> HIDE DEF M
<1>5. M = SUBSET Refs
  BY <1>3, <1>4, CreditsAssumption, AllSubsets
<1> QED
  BY <1>5 DEF M, F

-----------------------------------------------------------------------------

\* As long as the tenant has no row, nothing has been posted.
LedgerInv == (Len(quota) = 0 => \A r \in Refs : ledger[r] = 0) /\ BalanceIsLedger

\* An UPDATE of the one row and its transaction add the same.
LEMMA RowsKeepLedger ==
  ASSUME NEW r \in Refs, CreditsTypeOK, LedgerInv, quota # <<>>, AddToRows(Value[r]), Posted(r)
  PROVE  LedgerInv'
<1>1. Value[r] \in Int /\ quota \in Seq(Int) /\ ledger \in [Refs -> Nat]
  BY CreditsAssumption DEF CreditsTypeOK
<1>2. /\ Len(quota') = Len(quota)
      /\ \A i \in DOMAIN quota : quota'[i] = quota[i] + Value[r]
  BY <1>1, AddingKeepsRows
<1>3. Len(quota) # 0
  BY <1>1
<1>4. ledger' = [ledger EXCEPT ![r] = @ + 1]
  BY DEF Posted
<1>5. LedgerTotal' = LedgerTotal + Value[r]
  BY <1>1, <1>4, LedgerTotalIs, PostingAdds
<1>6. BalanceIsLedger'
  <2> SUFFICES ASSUME Len(quota) = 1 PROVE quota'[1] = LedgerTotal'
    BY <1>2 DEF BalanceIsLedger
  <2> QED
    BY <1>1, <1>2, <1>5 DEF LedgerInv, BalanceIsLedger
<1> QED
  BY <1>2, <1>3, <1>6 DEF LedgerInv

\* The first row begins with the first transaction.
LEMMA RowKeepsLedger ==
  ASSUME NEW r \in Refs, CreditsTypeOK, LedgerInv, AllocateNewRow(r)
  PROVE  LedgerInv'
<1>1. Value[r] \in Int /\ quota \in Seq(Int) /\ ledger \in [Refs -> Nat]
  BY CreditsAssumption DEF CreditsTypeOK
<1>2. quota' = Append(quota, Value[r]) /\ ledger' = [ledger EXCEPT ![r] = @ + 1]
  BY DEF AllocateNewRow, Posted
<1>3. Len(quota') = Len(quota) + 1 /\ Len(quota) \in Nat /\ quota'[Len(quota) + 1] = Value[r]
  BY <1>1, <1>2
<1>4. LedgerTotal' = LedgerTotal + Value[r]
  BY <1>1, <1>2, LedgerTotalIs, PostingAdds
<1>5. BalanceIsLedger'
  <2> SUFFICES ASSUME Len(quota') = 1 PROVE quota'[1] = LedgerTotal'
    BY DEF BalanceIsLedger
  <2>1. Len(quota) = 0 /\ quota'[1] = Value[r]
    <3>1. Len(quota) = 0 /\ Len(quota) + 1 = 1
      BY <1>3
    <3> QED
      BY <1>3, <3>1
  <2>2. LedgerTotal = 0
    BY <1>1, <2>1, LedgerTotalIs, NothingPosted DEF LedgerInv
  <2> QED
    BY <1>1, <1>4, <2>1, <2>2
<1> QED
  BY <1>3, <1>5 DEF LedgerInv

\* The steps together.
LEMMA LedgerStep ==
  ASSUME BillingInv, LedgerInv, [BillingNext]_billingVars PROVE LedgerInv'
<1>1. CreditsTypeOK
  BY DEF BillingInv, WebhookInv, WebhookTypeOK
<1>2. CASE UNCHANGED creditVars
  <2>1. LedgerTotal' = LedgerTotal
    BY <1>2, LedgerTotalIs DEF creditVars
  <2> QED
    BY <1>2, <2>1 DEF LedgerInv, BalanceIsLedger, creditVars
<1>3. ASSUME NEW d \in Deliveries, AllocateToRows(EventOf[d]) \/ AllocateNewRow(EventOf[d])
      PROVE  LedgerInv'
  <2>1. EventOf[d] \in Refs
    BY WebhookAssumption
  <2> QED
    BY <1>1, <1>3, <2>1, RowsKeepLedger, RowKeepsLedger DEF AllocateToRows
<1>4. ASSUME NEW a \in Audits, Consume(a) PROVE LedgerInv'
  <2>1. a \in Refs /\ quota # <<>>
    BY <1>1, <1>4, AuditAssumption DEF Consume, Sufficient, CreditsTypeOK
  <2> QED
    BY <1>1, <1>4, <2>1, RowsKeepLedger DEF Consume
<1>5. CASE WebhookNext
  BY <1>2, <1>3, <1>5, DeliveryCredits DEF WebhookNext
<1>6. CASE AuditNext
  BY <1>2, <1>4, <1>6, AuditCredits DEF AuditNext
<1>7. CASE UNCHANGED billingVars
  BY <1>2, <1>7 DEF billingVars, webhookVars
<1> QED
  BY <1>5, <1>6, <1>7 DEF BillingNext

\* The balance that consumeCredits checks is the sum of credit_transactions, as long as
\* one row holds it, whatever transactions of payments and audits interleave.
THEOREM BalanceIsLedgerHolds == BillingSpec => []BalanceIsLedger
<1>1. BillingInit => LedgerInv
  <2> SUFFICES ASSUME BillingInit PROVE LedgerInv
    OBVIOUS
  <2>1. quota = <<>> /\ ledger = [r \in Refs |-> 0]
    BY DEF BillingInit, WebhookInit, CreditsInit
  <2> QED
    BY <2>1 DEF LedgerInv, BalanceIsLedger
<1>2. BillingInv /\ LedgerInv /\ [BillingNext]_billingVars => LedgerInv'
  BY LedgerStep
<1>3. LedgerInv => BalanceIsLedger
  BY DEF LedgerInv
<1> QED
  BY <1>1, <1>2, <1>3, BillingInvariant, PTL DEF BillingSpec

=============================================================================
