------------------------------ MODULE PublicApi ------------------------------
(***************************************************************************)
(* withPublicApi: the requests that one tenant makes with its API key pass *)
(* a sliding-window rate limit, kept in the memory of each server process, *)
(* and the monthly token quota, which is read and then raised by two       *)
(* statements of one READ COMMITTED transaction, before the handler runs.  *)
(* The rate limiter awaits nothing but its in-memory store, so it is one   *)
(* step of its process.                                                    *)
(***************************************************************************)
EXTENDS Integers, Sequences, FiniteSets

CONSTANTS
  Servers,      \* server processes
  Handlers,     \* handlers that may be active at once
  ServerOf,     \* the process of each
  MaxRequests,  \* requests per window
  Window,       \* windowMs, a whole number of seconds
  Cost,         \* options.requireQuotaTokens
  TokenLimit,   \* tenant_quotas.monthly_token_limit
  MaxTime       \* bound of the model: when the clock stops

ASSUME PublicApiAssumption ==
  /\ IsFiniteSet(Handlers) /\ Handlers # {}
  /\ ServerOf \in [Handlers -> Servers]
  /\ MaxRequests \in Nat \ {0} /\ Window \in Nat \ {0}
  /\ Cost \in Nat \ {0} /\ TokenLimit \in Nat /\ Cost <= TokenLimit
  /\ MaxTime \in Nat

VARIABLES
  wall,
  stamps,    \* what the store of each process holds: the timestamps
  expiry,    \* and when that entry expires
  used,      \* tenant_quotas.used_tokens_this_month
  pc,        \* where each handler is
  passed,    \* history: every time each process has let a request pass
  runs       \* history: how often a handler has run

apiVars == <<wall, stamps, expiry, used, pc, passed, runs>>

ApiTypeOK ==
  /\ wall \in 0..MaxTime
  /\ stamps \in [Servers -> Seq(0..MaxTime)]
  /\ expiry \in [Servers -> Nat]
  /\ used \in Nat
  /\ pc \in [Handlers -> {"idle", "quota", "checked"}]
  /\ passed \in [Servers -> Seq(0..MaxTime)]
  /\ runs \in Nat

ApiInit ==
  /\ wall = 0
  /\ stamps = [s \in Servers |-> <<>>]
  /\ expiry = [s \in Servers |-> 0]
  /\ used = 0
  /\ pc = [r \in Handlers |-> "idle"]
  /\ passed = [s \in Servers |-> <<>>]
  /\ runs = 0

Goes(r, to) == pc' = [pc EXCEPT ![r] = to]

-----------------------------------------------------------------------------

\* InMemoryCacheStore.get: an entry is gone when its time comes.
Stored(s) == IF wall >= expiry[s] THEN <<>> ELSE stamps[s]

\* The timestamps that a filter t > since leaves: the clock never goes back, so
\* the list is in the order of time and the old ones are at its front.
After(list, since) ==
  SubSeq(list, Cardinality({i \in DOMAIN list : list[i] <= since}) + 1, Len(list))

\* Mutant of Valid: the filter keeps too little.
MutValid(s) == After(Stored(s), wall - Window + 1)

Valid(s) == After(Stored(s), wall - Window)

\* checkRateLimit answers false (429) or true; both write the list back.
RateLimited(r) ==
  LET s == ServerOf[r] IN
  /\ pc[r] = "idle"
  /\ Len(Valid(s)) >= MaxRequests
  /\ stamps' = [stamps EXCEPT ![s] = Valid(s)]
  /\ expiry' = [expiry EXCEPT ![s] = wall + Window]
  /\ UNCHANGED <<wall, used, pc, passed, runs>>

RatePasses(r) ==
  LET s == ServerOf[r] IN
  /\ pc[r] = "idle"
  /\ Len(Valid(s)) < MaxRequests
  /\ stamps' = [stamps EXCEPT ![s] = Append(Valid(s), wall)]
  /\ expiry' = [expiry EXCEPT ![s] = wall + Window]
  /\ passed' = [passed EXCEPT ![s] = Append(@, wall)]
  /\ Goes(r, "quota")
  /\ UNCHANGED <<wall, used, runs>>

\* Mutant of QuotaSuffices: the cost is forgotten.
MutQuotaSuffices == used <= TokenLimit

QuotaSuffices == used + Cost <= TokenLimit

\* enforceAndConsumeQuota: the SELECT,
QuotaRead(r) ==
  /\ pc[r] = "quota"
  /\ Goes(r, IF QuotaSuffices THEN "checked" ELSE "idle")
  /\ UNCHANGED <<wall, stamps, expiry, used, passed, runs>>

\* the UPDATE and the COMMIT, and then the endpoint's own handler.
QuotaConsumed(r) ==
  /\ pc[r] = "checked"
  /\ used' = used + Cost
  /\ runs' = runs + 1
  /\ Goes(r, "idle")
  /\ UNCHANGED <<wall, stamps, expiry, passed>>

\* Mutant of QuotaFails: the request is served in spite of the error.
MutQuotaFails(r) ==
  /\ pc[r] \in {"quota", "checked"}
  /\ runs' = runs + 1
  /\ Goes(r, "idle")
  /\ UNCHANGED <<wall, stamps, expiry, used, passed>>

\* The transaction fails: 500 and nothing is served, though a COMMIT whose
\* answer is lost has taken effect.
QuotaFails(r) ==
  /\ pc[r] \in {"quota", "checked"}
  /\ used' = used \/ (pc[r] = "checked" /\ used' = used + Cost)
  /\ Goes(r, "idle")
  /\ UNCHANGED <<wall, stamps, expiry, passed, runs>>

Tick ==
  /\ wall < MaxTime
  /\ wall' = wall + 1
  /\ UNCHANGED <<stamps, expiry, used, pc, passed, runs>>

ApiNext ==
  \/ \E r \in Handlers :
       RateLimited(r) \/ RatePasses(r) \/ QuotaRead(r) \/ QuotaConsumed(r) \/ QuotaFails(r)
  \/ Tick

ApiSpec == ApiInit /\ [][ApiNext]_apiVars

-----------------------------------------------------------------------------

\* A process never lets more than MaxRequests of a tenant's requests pass in any
\* window of that length, wherever the window starts and however often the
\* stored list has expired, been filtered and been written back.
WindowBounded ==
  \A s \in Servers : \A t \in 0..MaxTime :
    Cardinality({i \in DOMAIN passed[s] : passed[s][i] \in t..(t + Window - 1)})
      <= MaxRequests

Checked == {r \in Handlers : pc[r] = "checked"}

\* The usage may pass the limit, as requests that have read the same usage all
\* raise it, but nobody who reads it afterwards gets on: the quota is overshot
\* by less than one request for each handler that may be active.
OvershootBounded == used <= TokenLimit + Cost * (Cardinality(Handlers) - 1)

\* No call is served whose tokens are not in the usage, whatever fails.
NoFreeCalls == Cost * runs <= used

=============================================================================
