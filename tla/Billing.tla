------------------------------- MODULE Billing -------------------------------
(***************************************************************************)
(* A tenant's credits at work: payments allocate them through the webhook, *)
(* site audits consume them, and both change the same quota rows and the   *)
(* same ledger, each with its own transactions and its own failures.       *)
(***************************************************************************)
EXTENDS PaymentWebhook, AuditRun

ASSUME BillingAssumption == Refs = Events \cup Audits /\ Events \cap Audits = {}

billingVars == <<webhookVars, auditVars>>

BillingInit == WebhookInit /\ AuditInit

BillingNext ==
  \/ WebhookNext /\ UNCHANGED <<tx, row, due, retries>>
  \/ AuditNext /\ UNCHANGED <<processed, handler>>

BillingSpec == BillingInit /\ [][BillingNext]_billingVars

=============================================================================
