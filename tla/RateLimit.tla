------------------------------ MODULE RateLimit ------------------------------
(***************************************************************************)
(* The fixed-window rate limiter of src/lib/rate-limit.ts: a counter in    *)
(* Redis for each window of one rule and one caller, shared by all server  *)
(* processes.  A request reads the clock, increments the counter of that   *)
(* window, and, when it was the first, sets the counter's expiry; each is  *)
(* a round trip of its own, and the process may die between two of them.   *)
(***************************************************************************)
EXTENDS Integers, FiniteSets

CONSTANTS
  Hits,   \* requests of one caller under one rule
  Limit,      \* rule.limit
  WindowSeconds,     \* rule.windowSeconds
  MaxDelay,   \* bound of the model: how long a round trip takes at most
  LastSecond     \* bound of the model: when the clock stops

ASSUME RateLimitAssumption ==
  /\ IsFiniteSet(Hits) /\ Limit \in Nat \ {0} /\ WindowSeconds \in Nat \ {0}
  /\ LastSecond \in Nat /\ MaxDelay \in 0..WindowSeconds

VARIABLES
  now,    \* seconds
  counter,  \* the Redis keys, by window index
  at,       \* where each request is
  read      \* the clock each request has read

limitVars == <<now, counter, at, read>>

Never == -1

WindowOf(t) == t \div WindowSeconds
Windows == 0..WindowOf(LastSecond)

LimitTypeOK ==
  /\ now \in 0..LastSecond
  /\ counter \in [Windows -> [count : 0..Cardinality(Hits),
                              until : 0..(LastSecond + WindowSeconds) \cup {Never}]]
  /\ at \in [Hits -> {"idle", "incr", "expire", "allowed", "refused",
                          "unavailable", "died"}]
  /\ read \in [Hits -> 0..LastSecond]

LimitInit ==
  /\ now = 0
  /\ counter = [w \in Windows |-> [count |-> 0, until |-> Never]]
  /\ at = [r \in Hits |-> "idle"]
  /\ read = [r \in Hits |-> 0]

\* Mutant of WindowKey: one key for all windows.
MutWindowKey(r) == 0

\* The window index is part of the key.
WindowKey(r) == WindowOf(read[r])

\* The value INCR returns: a key whose time has passed is gone.
Incremented(k) ==
  IF counter[k].until # Never /\ counter[k].until <= now
  THEN [count |-> 1, until |-> Never]
  ELSE [counter[k] EXCEPT !.count = @ + 1]

Arrive(r) ==
  /\ at[r] = "idle"
  /\ at' = [at EXCEPT ![r] = "incr"]
  /\ read' = [read EXCEPT ![r] = now]
  /\ UNCHANGED <<now, counter>>

\* Mutant of Decision: one request too many.
MutDecision(count) == IF count <= Limit + 1 THEN "allowed" ELSE "refused"

Decision(count) == IF count <= Limit THEN "allowed" ELSE "refused"

Incr(r) ==
  /\ at[r] = "incr"
  /\ counter' = [counter EXCEPT ![WindowKey(r)] = Incremented(WindowKey(r))]
  /\ LET count == Incremented(WindowKey(r)).count
     IN  at' = [at EXCEPT ![r] = IF count = 1 THEN "expire" ELSE Decision(count)]
  /\ UNCHANGED <<now, read>>

Expire(r) ==
  /\ at[r] = "expire"
  /\ counter' = [counter EXCEPT ![WindowKey(r)].until = now + WindowSeconds]
  /\ at' = [at EXCEPT ![r] = Decision(1)]
  /\ UNCHANGED <<now, read>>

\* Redis fails, or its answer is lost after it has done what it was asked:
\* the limiter fails closed with 503.
RedisFails(r) ==
  /\ \/ at[r] \in {"incr", "expire"} /\ UNCHANGED counter
     \/ at[r] = "incr" /\ counter' = [counter EXCEPT ![WindowKey(r)] = Incremented(WindowKey(r))]
     \/ at[r] = "expire" /\ counter' = [counter EXCEPT ![WindowKey(r)].until = now + WindowSeconds]
  /\ at' = [at EXCEPT ![r] = "unavailable"]
  /\ UNCHANGED <<now, read>>

\* The process of the request dies between its round trips.
ProcessDies(r) ==
  /\ at[r] \in {"incr", "expire"}
  /\ at' = [at EXCEPT ![r] = "died"]
  /\ UNCHANGED <<now, counter, read>>

SecondPasses ==
  /\ now < LastSecond
  /\ \A r \in Hits : at[r] \in {"incr", "expire"} => now < read[r] + MaxDelay
  /\ now' = now + 1
  /\ UNCHANGED <<counter, at, read>>

LimitNext ==
  \/ \E r \in Hits :
       Arrive(r) \/ Incr(r) \/ Expire(r) \/ RedisFails(r) \/ ProcessDies(r)
  \/ SecondPasses

LimitSpec == LimitInit /\ [][LimitNext]_limitVars

-----------------------------------------------------------------------------

Allowed(w) == {r \in Hits : at[r] = "allowed" /\ WindowOf(read[r]) = w}

\* What RateLimitRule says of limit, the maximum number of allowed requests inside
\* the window: no more than limit requests of one window are allowed.
LimitHolds == \A w \in Windows : Cardinality(Allowed(w)) <= Limit

\* The key of a window expires a window after its first increment, so a late
\* increment may start it again and LimitHolds fails; but only once, for any
\* delays: no window ever admits more than twice the limit.
TwiceTheLimit == \A w \in Windows : Cardinality(Allowed(w)) <= 2 * Limit

\* A request is refused only when the limit has been used up by requests of its
\* own window: counters left without an expiry (the process died before EXPIRE)
\* never reach a later window.
RefusedOnlyWhenFull ==
  \A r \in Hits :
    at[r] = "refused" =>
      Cardinality({q \in Hits \ {r} :
                     /\ WindowOf(read[q]) = WindowOf(read[r])
                     /\ at[q] \in {"expire", "allowed", "refused", "unavailable", "died"}})
        >= Limit

=============================================================================
