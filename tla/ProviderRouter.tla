---------------------------- MODULE ProviderRouter ----------------------------
(***************************************************************************)
(* ProviderRouter.execute: the crawl providers are tried in their order,   *)
(* each again after a delay while its errors are transient.  The count of  *)
(* attempts is one for all providers.  The worker's signal may be aborted, *)
(* and the duration of the policy may run out, at any time; both are       *)
(* looked at before an attempt.  Of the errors' classification only the    *)
(* two kinds that occur remain: every error that allows a fallback is also *)
(* retryable.                                                              *)
(***************************************************************************)
EXTENDS Naturals, Sequences

CONSTANTS
  Configurations,  \* each a sequence of provider ids, in their order
  MaxTries         \* policy.maxAttempts

ASSUME RouterAssumption ==
  Configurations \subseteq Seq(STRING) \ {<<>>} /\ MaxTries \in Nat \ {0}

VARIABLES
  providers,  \* of this router: what the environment configures
  stage,    \* where execute is, or how it has ended
  turn,     \* providerIndex, from 1
  tries,    \* attempts
  aborted,  \* the signal
  late      \* maxDurationMs has passed

routerVars == <<providers, stage, turn, tries, aborted, late>>

Outcomes == {"result", "failed", "cancelled", "timeout"}
Settled == stage \in Outcomes

RouterInit ==
  /\ providers \in Configurations
  /\ stage = "try" /\ turn = 1 /\ tries = 0
  /\ aborted = FALSE /\ late = FALSE

\* The top of the inner loop.
Refused ==
  /\ stage = "try" /\ (aborted \/ late)
  /\ stage' = IF aborted THEN "cancelled" ELSE "timeout"
  /\ UNCHANGED <<providers, turn, tries, aborted, late>>

Try ==
  /\ stage = "try" /\ ~aborted /\ ~late
  /\ stage' = "provider" /\ tries' = tries + 1
  /\ UNCHANGED <<providers, turn, aborted, late>>

\* The provider's answer: a result, or an error that allows no fallback, of
\* which CANCELLED is one.
Answers(outcome) ==
  /\ stage = "provider"
  /\ stage' = outcome
  /\ UNCHANGED <<providers, turn, tries, aborted, late>>

\* Mutant of TriesLeft: the attempts are counted for each provider.
MutTriesLeft == tries < MaxTries * turn

TriesLeft == tries < MaxTries

\* A transient error: another attempt after a delay, or, behind the last
\* attempt, the next provider, for which the loop has no limit of its own.
Transient ==
  /\ stage = "provider"
  /\ IF TriesLeft
     THEN stage' = "delay" /\ UNCHANGED turn
     ELSE IF aborted \/ turn = Len(providers)
     THEN stage' = (IF aborted THEN "cancelled" ELSE "failed") /\ UNCHANGED turn
     ELSE stage' = "try" /\ turn' = turn + 1
  /\ UNCHANGED <<providers, tries, aborted, late>>

\* abortableWait, which never outlasts the duration: it may just have passed
\* when the timer fires.
Waited ==
  /\ stage = "delay"
  /\ stage' = IF aborted THEN "cancelled" ELSE "try"
  /\ UNCHANGED <<providers, turn, tries, aborted, late>>

\* The heartbeat has failed, or the worker stops; the duration is over.
Abort == ~aborted /\ aborted' = TRUE /\ UNCHANGED <<providers, stage, turn, tries, late>>
Expires == ~late /\ late' = TRUE /\ UNCHANGED <<providers, stage, turn, tries, aborted>>

\* However many providers fail in turn, and however often, the providers are
\* called at most maxAttempts times, and once more for each fallback.
TriesBounded == tries <= MaxTries + Len(providers) - 1

=============================================================================
