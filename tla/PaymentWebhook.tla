--------------------------- MODULE PaymentWebhook ---------------------------
(***************************************************************************)
(* POST /api/webhooks/payment.  The provider delivers every event at least *)
(* once, so deliveries of one event repeat and overlap.  The event id is   *)
(* recorded in a transaction of its own (insert before process); the       *)
(* credits are allocated in a second one, and the server may die between   *)
(* the two.                                                                *)
(***************************************************************************)
EXTENDS TenantCredits

CONSTANTS
  Events,       \* event ids
  Crediting,    \* the payment_success events
  Deliveries,   \* bound of the model: deliveries the provider makes
  EventOf       \* the event of each delivery

ASSUME WebhookAssumption ==
  /\ Crediting \subseteq Events /\ Events \subseteq Refs
  /\ EventOf \in [Deliveries -> Events]
  /\ \A e \in Events : Value[e] > 0

VARIABLES
  processed,    \* processed_webhook_events
  handler       \* handler[d]: where the handler of delivery d is

webhookVars == <<creditVars, processed, handler>>

\* The answers: 200 for an event applied now ("done") or before ("repeat"),
\* 500 ("failed"), none because the server died ("lost").
Answers == {"done", "repeat", "failed", "lost"}

WebhookTypeOK ==
  /\ CreditsTypeOK
  /\ processed \subseteq Events
  /\ handler \in [Deliveries -> {"sent", "credit", "newrow"} \cup Answers]

WebhookInit ==
  /\ CreditsInit
  /\ processed = {}
  /\ handler = [d \in Deliveries |-> "sent"]

Reaches(d, to) == handler' = [handler EXCEPT ![d] = to]

-----------------------------------------------------------------------------

\* Mutant of Record: the unique violation is not noticed.
MutRecordAgain(d) ==
  /\ handler[d] = "sent"
  /\ processed' = processed \cup {EventOf[d]}
  /\ Reaches(d, IF EventOf[d] \in Crediting THEN "credit" ELSE "done")
  /\ UNCHANGED creditVars

\* INSERT INTO processed_webhook_events, committed at once.
Record(d) ==
  /\ handler[d] = "sent"
  /\ IF EventOf[d] \in processed
     THEN Reaches(d, "repeat") /\ UNCHANGED processed
     ELSE /\ processed' = processed \cup {EventOf[d]}
          /\ Reaches(d, IF EventOf[d] \in Crediting THEN "credit" ELSE "done")
  /\ UNCHANGED creditVars

\* allocateCredits in the tenant's transaction.
Credit(d) ==
  /\ handler[d] = "credit"
  /\ AllocateToRows(EventOf[d])
  /\ Reaches(d, "done")
  /\ UNCHANGED processed

CreditFindsNoRow(d) ==
  /\ handler[d] = "credit" /\ quota = <<>>
  /\ Reaches(d, "newrow")
  /\ UNCHANGED <<creditVars, processed>>

CreditNewRow(d) ==
  /\ handler[d] = "newrow"
  /\ AllocateNewRow(EventOf[d])
  /\ Reaches(d, "done")
  /\ UNCHANGED processed

\* A transaction of the handler fails, and is rolled back.
TransactionFails(d) ==
  /\ handler[d] \in {"sent", "credit", "newrow"}
  /\ Reaches(d, "failed")
  /\ UNCHANGED <<creditVars, processed>>

\* The server dies, or its answer is lost.
ServerDies(d) ==
  /\ handler[d] \in {"credit", "newrow", "done"}
  /\ Reaches(d, "lost")
  /\ UNCHANGED <<creditVars, processed>>

WebhookNext ==
  \E d \in Deliveries :
    \/ Record(d) \/ Credit(d) \/ CreditFindsNoRow(d) \/ CreditNewRow(d)
    \/ TransactionFails(d) \/ ServerDies(d)

WebhookSpec == WebhookInit /\ [][WebhookNext]_webhookVars

-----------------------------------------------------------------------------

\* However often an event is delivered, it is credited at most once, and only
\* after it has been recorded (the insert-before-process ledger).
CreditedOnce ==
  \A e \in Events : ledger[e] <= (IF e \in processed THEN 1 ELSE 0)

\* What the route says as it acknowledges a repeated delivery: "this exact
\* event was already handled", so its credits are applied or being applied.
RepeatIsHandled ==
  \A d \in Deliveries :
    handler[d] = "repeat" /\ EventOf[d] \in Crediting =>
      \/ ledger[EventOf[d]] = 1
      \/ \E c \in Deliveries : EventOf[c] = EventOf[d] /\ handler[c] \in {"credit", "newrow"}

=============================================================================
