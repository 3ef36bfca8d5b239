---------------------------- MODULE Limits_proofs -----------------------------
(***************************************************************************)
(* The two limiters, for any requests, handlers, processes and limits:     *)
(* the Redis counter lets through at most twice its limit in a window and  *)
(* does not refuse below it, the sliding window of the gateway is          *)
(* bounded, and so is the overshoot of its quota, in which no served call  *)
(* is missing.                                                             *)
(***************************************************************************)
EXTENDS RateLimit, PublicApi, FiniteSetTheorems, WellFoundedInduction, TLAPS

(* The Redis limiter.                                                       *)

CounterTypeOK ==
  /\ now \in 0..LastSecond
  /\ counter \in [Windows -> [count : Nat, until : Nat \cup {Never}]]
  /\ at \in [Hits -> {"idle", "incr", "expire", "allowed", "refused", "unavailable", "died"}]
  /\ read \in [Hits -> Nat]

Pending(r) == at[r] \in {"incr", "expire"}

\* A round trip is under way for no longer than a window.
InTime ==
  \A r \in Hits :
    /\ read[r] <= LastSecond /\ read[r] <= now
    /\ Pending(r) => now <= read[r] + WindowSeconds

\* The requests a counter has let through, or is about to.
Live(w) == {r \in Hits : at[r] \in {"expire", "allowed"} /\ WindowOf(read[r]) = w}

\* The requests that have come to their increment.
Counted(w) ==
  {r \in Hits : /\ at[r] \in {"expire", "allowed", "refused", "unavailable", "died"}
                /\ WindowOf(read[r]) = w}

\* When window w begins.
Begin(w) == w * WindowSeconds

UpToLimit(w) == IF counter[w].count <= Limit THEN counter[w].count ELSE Limit

\* A counter expires for the first time when its window is over: until then, and
\* as long as its expiry lies before the end of the window behind, it has let
\* through no more than it has counted.  It can start again once; the expiry it
\* is given then, if any, is later than any increment.
Epochs(w) ==
  /\ counter[w].until # Never => counter[w].until >= Begin(w) + WindowSeconds
  /\ Cardinality(Live(w)) <= Limit + UpToLimit(w)
  /\ now < Begin(w) + WindowSeconds => Cardinality(Live(w)) <= UpToLimit(w)
  /\ counter[w].until # Never /\ counter[w].until < Begin(w) + 2 * WindowSeconds =>
       Cardinality(Live(w)) <= UpToLimit(w)

\* A counter has not counted more than the requests of its window.
CountsRequests(w) == counter[w].count <= Cardinality(Counted(w))

LimitInv ==
  /\ CounterTypeOK /\ InTime
  /\ \A w \in Windows : Epochs(w) /\ CountsRequests(w)
  /\ RefusedOnlyWhenFull

-----------------------------------------------------------------------------

\* A second is in its window.
LEMMA WindowFacts ==
  ASSUME NEW t \in Nat
  PROVE  /\ WindowOf(t) \in Nat /\ Begin(WindowOf(t)) \in Nat
         /\ Begin(WindowOf(t)) <= t /\ t < Begin(WindowOf(t)) + WindowSeconds
BY RateLimitAssumption DEF WindowOf, Begin

\* The windows are named by their first seconds.
LEMMA WindowsType ==
  /\ Windows \subseteq Nat
  /\ \A w \in Windows : Begin(w) \in Nat
BY RateLimitAssumption DEF Windows, WindowOf, Begin

\* Time goes on, and so do the windows.
LEMMA WindowMonotone ==
  ASSUME NEW s \in Nat, NEW t \in Nat, s <= t PROVE WindowOf(s) <= WindowOf(t)
BY RateLimitAssumption DEF WindowOf

\* The key of a request is that of the window it has read.
LEMMA ReadsWindow ==
  ASSUME LimitInv, NEW r \in Hits PROVE WindowOf(read[r]) \in Windows
<1>1. read[r] \in Nat /\ read[r] <= LastSecond /\ LastSecond \in Nat
  BY RateLimitAssumption DEF LimitInv, CounterTypeOK, InTime
<1>2. WindowOf(read[r]) \in Nat /\ WindowOf(LastSecond) \in Nat
  BY <1>1, WindowFacts
<1> QED
  BY <1>1, <1>2, WindowMonotone DEF Windows

Stages == {"idle", "incr", "expire", "allowed", "refused", "unavailable", "died"}
Ends == {"expire", "allowed", "refused", "unavailable", "died"}

\* How the requests of a window change when one of them goes on.
LEMMA GoesOn ==
  ASSUME CounterTypeOK, NEW r \in Hits, NEW w, w = WindowOf(read[r]), NEW to \in Ends,
         at' = [at EXCEPT ![r] = to], read' = read
  PROVE  /\ \A v : v # w => Live(v)' = Live(v) /\ Counted(v)' = Counted(v)
         /\ Live(w)' = IF to \in {"expire", "allowed"} THEN Live(w) \cup {r} ELSE Live(w) \ {r}
         /\ Counted(w)' = Counted(w) \cup {r}
<1>1. at \in [Hits -> Stages] /\ to \in Stages
  BY DEF CounterTypeOK, Stages, Ends
<1>2. \A q \in Hits : at'[q] = IF q = r THEN to ELSE at[q]
  BY <1>1
<1>3. \A v : v # w => Live(v)' = Live(v) /\ Counted(v)' = Counted(v)
  BY <1>2 DEF Live, Counted
<1>4. Live(w)' = IF to \in {"expire", "allowed"} THEN Live(w) \cup {r} ELSE Live(w) \ {r}
  BY <1>2 DEF Live
<1>5. Counted(w)' = Counted(w) \cup {r}
  BY <1>2 DEF Counted, Ends
<1> QED
  BY <1>3, <1>4, <1>5

\* Finite sets of requests, as one comes or goes.
LEMMA CountsOfHits ==
  ASSUME NEW S \in SUBSET Hits, NEW r
  PROVE  /\ IsFiniteSet(S) /\ Cardinality(S) \in Nat
         /\ Cardinality(S \cup {r}) = IF r \in S THEN Cardinality(S) ELSE Cardinality(S) + 1
         /\ Cardinality(S \ {r}) = IF r \in S THEN Cardinality(S) - 1 ELSE Cardinality(S)
         /\ \A T \in SUBSET S : Cardinality(T) <= Cardinality(S)
<1>1. IsFiniteSet(S)
  BY RateLimitAssumption, FS_Subset
<1> QED
  BY <1>1, FS_CardinalityType, FS_AddElement, FS_RemoveElement, FS_Subset

\* The requests that RefusedOnlyWhenFull counts.
LEMMA RefusedFacts ==
  RefusedOnlyWhenFull <=>
    \A r \in Hits : at[r] = "refused" => Cardinality(Counted(WindowOf(read[r])) \ {r}) >= Limit
<1>1. \A r \in Hits :
        Counted(WindowOf(read[r])) \ {r} =
          {q \in Hits \ {r} :
             /\ WindowOf(read[q]) = WindowOf(read[r])
             /\ at[q] \in {"expire", "allowed", "refused", "unavailable", "died"}}
  BY DEF Counted
<1> QED
  BY <1>1 DEF RefusedOnlyWhenFull

\* What has to be shown of the refused ones after a step.
LEMMA RefusedFactsNext ==
  ASSUME \A r \in Hits :
           at'[r] = "refused" => Cardinality(Counted(WindowOf(read[r]))' \ {r}) >= Limit
  PROVE  RefusedOnlyWhenFull'
<1>1. \A r \in Hits :
        Counted(WindowOf(read[r]))' \ {r} =
          {q \in Hits \ {r} :
             /\ WindowOf(read'[q]) = WindowOf(read'[r])
             /\ at'[q] \in {"expire", "allowed", "refused", "unavailable", "died"}}
  BY DEF Counted
<1> QED
  BY <1>1 DEF RefusedOnlyWhenFull

\* Whoever goes on, the requests counted in a window become no fewer.
LEMMA RefusedStays ==
  ASSUME LimitInv, NEW r \in Hits, NEW w, w = WindowOf(read[r]), NEW to \in Ends,
         at' = [at EXCEPT ![r] = to], read' = read,
         to = "refused" => Cardinality(Counted(w)) >= Limit, r \notin Counted(w) \/ to # "refused"
  PROVE  RefusedOnlyWhenFull'
<1>1. CounterTypeOK
  BY DEF LimitInv
<1>2. /\ \A v : v # w => Counted(v)' = Counted(v)
      /\ Counted(w)' = Counted(w) \cup {r}
  BY <1>1, GoesOn
<1>3. ASSUME NEW q \in Hits, at'[q] = "refused"
      PROVE  Cardinality(Counted(WindowOf(read[q]))' \ {q}) >= Limit
  <2> DEFINE v == WindowOf(read[q])
             was == Counted(v) \ {q}
             is == Counted(v)' \ {q}
  <2>1. Counted(v) \subseteq Counted(v)' /\ Counted(v)' \subseteq Hits
    BY <1>2 DEF Counted
  <2>2. was \subseteq is /\ is \subseteq Hits
    BY <2>1
  <2>3. Cardinality(was) <= Cardinality(is) /\ Cardinality(was) \in Nat /\ Cardinality(is) \in Nat
    BY <2>2, CountsOfHits
  <2>4. Cardinality(was) >= Limit
    <3>1. CASE q = r
      <4>1. to = "refused"
        BY <1>1, <1>3, <3>1 DEF CounterTypeOK
      <4>2. v = w /\ was = Counted(w)
        BY <3>1, <4>1
      <4> QED
        BY <4>1, <4>2
    <3>2. CASE q # r
      <4>1. at[q] = "refused"
        BY <1>1, <1>3, <3>2 DEF CounterTypeOK
      <4> QED
        BY <4>1, RefusedFacts DEF LimitInv
    <3> QED
      BY <3>1, <3>2
  <2>5. Cardinality(is) >= Limit
    BY <2>3, <2>4, RateLimitAssumption
  <2> QED
    BY <2>5
<1> QED
  BY <1>3, RefusedFactsNext

\* What a step of a pending request has to show.
LEMMA PendingStep ==
  ASSUME LimitInv, NEW r \in Hits, Pending(r), NEW w, w = WindowOf(read[r]), NEW to \in Ends,
         NEW key \in [count : Nat, until : Nat \cup {Never}],
         at' = [at EXCEPT ![r] = to], counter' = [counter EXCEPT ![w] = key],
         UNCHANGED <<now, read>>,
         Epochs(w)', CountsRequests(w)',
         to = "refused" => Cardinality(Counted(w)) >= Limit,
         to \in {"expire", "refused"} => at[r] = "incr"
  PROVE  LimitInv'
<1>1. CounterTypeOK /\ w \in Windows
  BY ReadsWindow DEF LimitInv
<1>2. CounterTypeOK'
  BY <1>1 DEF CounterTypeOK, Ends
<1>3. InTime'
  <2>1. \A q \in Hits : Pending(q)' => Pending(q)
    BY <1>1 DEF CounterTypeOK, Pending
  <2> QED
    BY <2>1 DEF LimitInv, InTime
<1>4. ASSUME NEW v \in Windows, v # w PROVE Epochs(v)' /\ CountsRequests(v)'
  <2>1. Live(v)' = Live(v) /\ Counted(v)' = Counted(v)
    BY <1>1, <1>4, GoesOn
  <2>2. counter'[v] = counter[v] /\ now' = now
    BY <1>1, <1>4 DEF CounterTypeOK
  <2>3. Epochs(v) /\ CountsRequests(v)
    BY DEF LimitInv
  <2> QED
    BY <2>1, <2>2, <2>3 DEF Epochs, CountsRequests, UpToLimit
<1>5. RefusedOnlyWhenFull'
  <2>1. r \notin Counted(w) \/ to # "refused"
    BY DEF Pending, Counted
  <2> QED
    BY <2>1, RefusedStays
<1> QED
  BY <1>2, <1>3, <1>4, <1>5 DEF LimitInv

\* An increment, whatever the request does behind it.
LEMMA IncrementFacts ==
  ASSUME LimitInv, NEW r \in Hits, at[r] = "incr", NEW w, w = WindowOf(read[r]), NEW to \in Ends,
         at' = [at EXCEPT ![r] = to], read' = read, now' = now,
         counter' = [counter EXCEPT ![w] = Incremented(w)],
         to \in {"expire", "allowed"} => Incremented(w).count <= Limit
  PROVE  /\ Incremented(w) \in [count : Nat, until : Nat \cup {Never}]
         /\ Epochs(w)' /\ CountsRequests(w)'
         /\ Incremented(w).count <= Cardinality(Counted(w)) + 1
<1>1. CounterTypeOK /\ w \in Windows /\ w \in Nat /\ Begin(w) \in Nat /\ InTime
  BY ReadsWindow, WindowsType DEF LimitInv
<1>2. counter[w] \in [count : Nat, until : Nat \cup {Never}] /\ now \in Nat
  BY <1>1 DEF CounterTypeOK
<1>3. /\ Incremented(w) \in [count : Nat, until : Nat \cup {Never}]
      /\ \/ /\ counter[w].until # Never /\ counter[w].until <= now
            /\ Incremented(w).count = 1 /\ Incremented(w).until = Never
         \/ /\ Incremented(w).count = counter[w].count + 1
            /\ Incremented(w).until = counter[w].until
  BY <1>2 DEF Incremented
<1> DEFINE k == Incremented(w)
<1>4. counter'[w] = k
  BY <1>1 DEF CounterTypeOK
<1> HIDE DEF k
<1>5. /\ Counted(w)' = Counted(w) \cup {r}
      /\ r \notin Live(w) /\ r \notin Counted(w)
      /\ to \notin {"expire", "allowed"} => Live(w)' = Live(w)
      /\ to \in {"expire", "allowed"} => Live(w)' = Live(w) \cup {r}
  <2>1. /\ Live(w)' = IF to \in {"expire", "allowed"} THEN Live(w) \cup {r} ELSE Live(w) \ {r}
        /\ Counted(w)' = Counted(w) \cup {r}
    BY <1>1, GoesOn
  <2>2. r \notin Live(w) /\ r \notin Counted(w)
    BY DEF Live, Counted
  <2> HIDE DEF Live, Counted
  <2> QED
    BY <2>1, <2>2
<1>6. /\ Cardinality(Live(w)) \in Nat /\ Cardinality(Counted(w)) \in Nat
      /\ Cardinality(Live(w)') = IF to \in {"expire", "allowed"} THEN Cardinality(Live(w)) + 1
                                                                 ELSE Cardinality(Live(w))
      /\ Cardinality(Counted(w)') = Cardinality(Counted(w)) + 1
  BY <1>5, CountsOfHits DEF Live, Counted
<1>7. Epochs(w) /\ CountsRequests(w)
  BY <1>1 DEF LimitInv
<1>8. read[r] \in Nat /\ now <= read[r] + WindowSeconds /\ read[r] < Begin(w) + WindowSeconds
  BY <1>1, WindowFacts DEF InTime, Pending, CounterTypeOK
<1>9. now < Begin(w) + 2 * WindowSeconds /\ WindowSeconds \in Nat \ {0} /\ Limit \in Nat \ {0}
  BY <1>1, <1>2, <1>8, RateLimitAssumption
<1>10. k.count \in Nat /\ k.until \in Nat \cup {Never} /\ counter[w].count \in Nat
       /\ counter[w].until \in Nat \cup {Never}
  BY <1>2, <1>3 DEF k
<1>11. CountsRequests(w)' /\ k.count <= Cardinality(Counted(w)) + 1
  BY <1>3, <1>4, <1>6, <1>7, <1>10 DEF CountsRequests, k
<1>12. Epochs(w)'
  <2>1. CASE /\ counter[w].until # Never /\ counter[w].until <= now
             /\ k.count = 1 /\ k.until = Never
    <3>1. Cardinality(Live(w)) <= Limit /\ now >= Begin(w) + WindowSeconds
      BY <1>1, <1>2, <1>6, <1>7, <1>9, <1>10, <2>1 DEF Epochs, UpToLimit, Never
    <3>2. UpToLimit(w)' = 1
      BY <1>4, <1>9, <2>1 DEF UpToLimit
    <3> QED
      BY <1>1, <1>2, <1>4, <1>6, <1>9, <2>1, <3>1, <3>2 DEF Epochs
  <2>2. CASE k.count = counter[w].count + 1 /\ k.until = counter[w].until
    <3>1. UpToLimit(w)' = (IF k.count <= Limit THEN k.count ELSE Limit)
      BY <1>4 DEF UpToLimit
    <3>2. to \in {"expire", "allowed"} => k.count <= Limit
      BY DEF k
    <3>3. Cardinality(Live(w)') - Cardinality(Live(w)) <= UpToLimit(w)' - UpToLimit(w)
      BY <1>6, <1>9, <1>10, <2>2, <3>1, <3>2 DEF UpToLimit
    <3>4. UpToLimit(w) \in Nat /\ UpToLimit(w)' \in Nat
      BY <1>9, <1>10, <3>1 DEF UpToLimit
    <3> QED
      BY <1>1, <1>2, <1>4, <1>6, <1>7, <1>9, <2>2, <3>3, <3>4 DEF Epochs
  <2> QED
    BY <1>3, <2>1, <2>2 DEF k
<1> QED
  BY <1>3, <1>11, <1>12 DEF k

\* An expiry is set, or not; who has been counted stays so.
LEMMA ExpiryFacts ==
  ASSUME LimitInv, NEW r \in Hits, Pending(r), NEW w, w = WindowOf(read[r]), NEW to \in Ends,
         NEW key, key \in {counter[w], [counter[w] EXCEPT !.until = now + WindowSeconds]},
         at' = [at EXCEPT ![r] = to], read' = read, now' = now,
         counter' = [counter EXCEPT ![w] = key],
         to \in {"expire", "allowed"} => at[r] = "expire"
  PROVE  key \in [count : Nat, until : Nat \cup {Never}] /\ Epochs(w)' /\ CountsRequests(w)'
<1>1. CounterTypeOK /\ w \in Windows /\ w \in Nat /\ Begin(w) \in Nat /\ InTime
  BY ReadsWindow, WindowsType DEF LimitInv
<1>2. counter[w] \in [count : Nat, until : Nat \cup {Never}] /\ now \in Nat
  BY <1>1 DEF CounterTypeOK
<1>3. WindowSeconds \in Nat \ {0} /\ Limit \in Nat \ {0}
  BY RateLimitAssumption
<1>4. /\ key \in [count : Nat, until : Nat \cup {Never}] /\ key.count = counter[w].count
      /\ key.until = counter[w].until \/ key.until = now + WindowSeconds
  BY <1>2, <1>3
<1>5. counter'[w] = key
  BY <1>1 DEF CounterTypeOK
<1>6. Live(w)' \subseteq Live(w) /\ Counted(w) \subseteq Counted(w)'
  <2>1. /\ Live(w)' = IF to \in {"expire", "allowed"} THEN Live(w) \cup {r} ELSE Live(w) \ {r}
        /\ Counted(w)' = Counted(w) \cup {r}
    BY <1>1, GoesOn
  <2>2. to \in {"expire", "allowed"} => r \in Live(w)
    BY DEF Live
  <2> QED
    BY <2>1, <2>2
<1>7. /\ Cardinality(Live(w)) \in Nat /\ Cardinality(Counted(w)) \in Nat
      /\ Cardinality(Live(w)') \in Nat /\ Cardinality(Counted(w)') \in Nat
      /\ Cardinality(Live(w)') <= Cardinality(Live(w))
      /\ Cardinality(Counted(w)) <= Cardinality(Counted(w)')
  <2>1. Live(w) \in SUBSET Hits /\ Counted(w)' \in SUBSET Hits /\ Counted(w) \in SUBSET Hits
        /\ Live(w)' \in SUBSET Hits
    BY DEF Live, Counted
  <2> QED
    BY <1>6, <2>1, CountsOfHits
<1>8. Epochs(w) /\ CountsRequests(w)
  BY <1>1 DEF LimitInv
<1>9. now >= Begin(w)
  <2>1. read[r] \in Nat /\ read[r] <= now
    BY <1>1 DEF CounterTypeOK, InTime
  <2> QED
    BY <1>1, <1>2, <2>1, WindowFacts
<1>10. UpToLimit(w)' = UpToLimit(w) /\ UpToLimit(w) \in Nat
  BY <1>2, <1>3, <1>4, <1>5 DEF UpToLimit
<1>11. CountsRequests(w)'
  BY <1>2, <1>4, <1>5, <1>7, <1>8 DEF CountsRequests
<1>12. Epochs(w)'
  <2>1. CASE key.until = counter[w].until
    BY <1>1, <1>2, <1>3, <1>5, <1>7, <1>8, <1>10, <2>1 DEF Epochs
  <2>2. CASE key.until = now + WindowSeconds
    BY <1>1, <1>2, <1>3, <1>5, <1>7, <1>8, <1>9, <1>10, <2>2 DEF Epochs
  <2> QED
    BY <1>4, <2>1, <2>2
<1> QED
  BY <1>4, <1>11, <1>12

\* The limiter's decision, and what Redis may have done to a counter.
LEMMA AnswersFacts ==
  ASSUME LimitInv, NEW r \in Hits
  PROVE  /\ WindowKey(r) \in Windows /\ WindowKey(r) = WindowOf(read[r])
         /\ counter[WindowKey(r)] \in [count : Nat, until : Nat \cup {Never}]
         /\ [counter EXCEPT ![WindowKey(r)].until = now + WindowSeconds]
              = [counter EXCEPT ![WindowKey(r)] =
                   [counter[WindowKey(r)] EXCEPT !.until = now + WindowSeconds]]
         /\ counter = [counter EXCEPT ![WindowKey(r)] = counter[WindowKey(r)]]
BY ReadsWindow DEF LimitInv, CounterTypeOK, WindowKey

\* INCR counts the request, or begins a count.
LEMMA IncrKeepsLimitInv ==
  ASSUME LimitInv, NEW r \in Hits, Incr(r) PROVE LimitInv'
<1> PICK w \in Windows : w = WindowKey(r)
  BY AnswersFacts
<1> DEFINE count == Incremented(w).count
           to == IF count = 1 THEN "expire" ELSE Decision(count)
<1>1. w = WindowOf(read[r]) /\ at[r] = "incr" /\ Pending(r)
  BY AnswersFacts DEF Incr, Pending
<1>2. /\ counter' = [counter EXCEPT ![w] = Incremented(w)] /\ at' = [at EXCEPT ![r] = to]
      /\ now' = now /\ read' = read
  BY DEF Incr
<1>3. /\ to \in Ends /\ to \in {"expire", "refused", "allowed"}
      /\ to \in {"expire", "allowed"} => count = 1 \/ count <= Limit
      /\ to = "refused" => count # 1 /\ ~(count <= Limit)
  BY DEF Decision, Ends
<1>4. to \in {"expire", "allowed"} => Incremented(w).count <= Limit
  BY <1>3, RateLimitAssumption
<1> HIDE DEF to
<1>5. /\ Incremented(w) \in [count : Nat, until : Nat \cup {Never}]
      /\ Epochs(w)' /\ CountsRequests(w)'
      /\ Incremented(w).count <= Cardinality(Counted(w)) + 1
  BY <1>1, <1>2, <1>3, <1>4, IncrementFacts
<1>6. to = "refused" => Cardinality(Counted(w)) >= Limit
  <2>1. Counted(w) \in SUBSET Hits
    BY DEF Counted
  <2>2. Cardinality(Counted(w)) \in Nat /\ Incremented(w).count \in Nat
    BY <1>5, <2>1, CountsOfHits
  <2> QED
    BY <1>3, <1>5, <2>2, RateLimitAssumption
<1>7. to \in {"expire", "refused"} => at[r] = "incr"
  BY <1>1
<1>8. UNCHANGED <<now, read>>
  BY <1>2
<1> QED
  BY <1>1, <1>2, <1>3, <1>5, <1>6, <1>7, <1>8, PendingStep

\* Redis sets the expiry, or does not; the request ends, never refused.
LEMMA ExpiryKeepsLimitInv ==
  ASSUME LimitInv, NEW r \in Hits, Pending(r), NEW to \in {"allowed", "unavailable", "died"},
         to = "allowed" => at[r] = "expire",
         at' = [at EXCEPT ![r] = to], UNCHANGED <<now, read>>,
         \/ counter' = counter
         \/ counter' = [counter EXCEPT ![WindowKey(r)].until = now + WindowSeconds]
  PROVE  LimitInv'
<1> PICK w \in Windows : w = WindowKey(r)
  BY AnswersFacts
<1>1. w = WindowOf(read[r]) /\ to \in Ends /\ read' = read /\ now' = now
  BY AnswersFacts DEF Ends
<1>2. PICK key \in {counter[w], [counter[w] EXCEPT !.until = now + WindowSeconds]} :
        counter' = [counter EXCEPT ![w] = key]
  BY AnswersFacts
<1>3. to \in {"expire", "allowed"} => at[r] = "expire"
  OBVIOUS
<1>4. to = "refused" => Cardinality(Counted(w)) >= Limit
  OBVIOUS
<1>5. to \in {"expire", "refused"} => at[r] = "incr"
  OBVIOUS
<1>6. key \in [count : Nat, until : Nat \cup {Never}] /\ Epochs(w)' /\ CountsRequests(w)'
  BY <1>1, <1>2, <1>3, ExpiryFacts
<1> QED
  BY <1>1, <1>2, <1>4, <1>5, <1>6, PendingStep

\* The command of a request fails.
LEMMA RedisFailsKeepsLimitInv ==
  ASSUME LimitInv, NEW r \in Hits, RedisFails(r) PROVE LimitInv'
<1> PICK w \in Windows : w = WindowKey(r)
  BY AnswersFacts
<1> DEFINE to == "unavailable"
<1>1. w = WindowOf(read[r]) /\ Pending(r)
  BY AnswersFacts DEF RedisFails, Pending
<1>2. at' = [at EXCEPT ![r] = to] /\ now' = now /\ read' = read /\ UNCHANGED <<now, read>>
  BY DEF RedisFails
<1>3. CASE at[r] = "incr" /\ counter' = [counter EXCEPT ![w] = Incremented(w)]
  <2>1. to \in Ends
    BY DEF Ends
  <2>2. to \in {"expire", "allowed"} => Incremented(w).count <= Limit
    OBVIOUS
  <2>3. to = "refused" => Cardinality(Counted(w)) >= Limit
    OBVIOUS
  <2>4. to \in {"expire", "refused"} => at[r] = "incr"
    OBVIOUS
  <2> HIDE DEF to
  <2>5. /\ Incremented(w) \in [count : Nat, until : Nat \cup {Never}]
        /\ Epochs(w)' /\ CountsRequests(w)'
    BY <1>1, <1>2, <1>3, <2>1, <2>2, IncrementFacts
  <2> QED
    BY <1>1, <1>2, <1>3, <2>1, <2>3, <2>4, <2>5, PendingStep
<1>4. CASE counter' = counter \/ counter' = [counter EXCEPT ![w].until = now + WindowSeconds]
  BY <1>1, <1>2, <1>4, ExpiryKeepsLimitInv
<1> QED
  BY <1>3, <1>4 DEF RedisFails

\* A request that arrives, or a second that passes, changes no count.
LEMMA ArriveKeepsLimitInv ==
  ASSUME LimitInv, NEW r \in Hits, Arrive(r) PROVE LimitInv'
<1>1. CounterTypeOK /\ now \in Nat /\ now <= LastSecond
  BY RateLimitAssumption DEF LimitInv, CounterTypeOK
<1>2. /\ at[r] = "idle" /\ at' = [at EXCEPT ![r] = "incr"] /\ read' = [read EXCEPT ![r] = now]
      /\ now' = now /\ counter' = counter
  BY DEF Arrive
<1>3. CounterTypeOK'
  BY <1>1, <1>2 DEF CounterTypeOK
<1>4. InTime'
  <2>1. \A q \in Hits : \/ q = r /\ read'[q] = now /\ at'[q] = "incr"
                        \/ q # r /\ read'[q] = read[q] /\ at'[q] = at[q]
    BY <1>1, <1>2 DEF CounterTypeOK
  <2> QED
    BY <1>1, <1>2, <2>1, RateLimitAssumption DEF LimitInv, InTime, Pending
<1>5. \A w \in Windows : Live(w)' = Live(w) /\ Counted(w)' = Counted(w)
  BY <1>1, <1>2 DEF CounterTypeOK, Live, Counted
<1>6. \A w \in Windows : Epochs(w)' /\ CountsRequests(w)'
  BY <1>2, <1>5 DEF LimitInv, Epochs, CountsRequests, UpToLimit
<1>7. RefusedOnlyWhenFull'
  <2>1. ASSUME NEW q \in Hits, at'[q] = "refused"
        PROVE  Cardinality(Counted(WindowOf(read[q]))' \ {q}) >= Limit
    <3>1. q # r /\ at[q] = "refused" /\ read'[q] = read[q]
      BY <1>1, <1>2, <2>1 DEF CounterTypeOK
    <3> PICK v \in Windows : v = WindowOf(read[q])
      BY ReadsWindow
    <3>2. Counted(v)' = Counted(v) /\ WindowOf(read'[q]) = v
      BY <1>5, <3>1
    <3>3. Cardinality(Counted(v) \ {q}) >= Limit
      BY <3>1, RefusedFacts DEF LimitInv
    <3> QED
      BY <3>2, <3>3
  <2>2. ASSUME NEW q \in Hits, at'[q] = "refused"
        PROVE  {p \in Hits \ {q} :
                 /\ WindowOf(read'[p]) = WindowOf(read'[q])
                 /\ at'[p] \in {"expire", "allowed", "refused", "unavailable", "died"}}
               = Counted(WindowOf(read[q]))' \ {q}
    <3>1. read'[q] = read[q]
      BY <1>1, <1>2, <2>2 DEF CounterTypeOK
    <3> QED
      BY <3>1 DEF Counted
  <2> QED
    BY <2>1, <2>2 DEF RefusedOnlyWhenFull
<1> QED
  BY <1>3, <1>4, <1>6, <1>7 DEF LimitInv

\* A second passes.
LEMMA SecondKeepsLimitInv ==
  ASSUME LimitInv, SecondPasses PROVE LimitInv'
<1>1. /\ CounterTypeOK /\ now \in Nat /\ now < LastSecond /\ now' = now + 1
      /\ counter' = counter /\ at' = at /\ read' = read
  BY RateLimitAssumption DEF LimitInv, CounterTypeOK, SecondPasses
<1>2. CounterTypeOK'
  BY <1>1, RateLimitAssumption DEF CounterTypeOK
<1>3. InTime'
  <2>1. \A q \in Hits : Pending(q) => now < read[q] + MaxDelay
    BY DEF SecondPasses, Pending
  <2>2. \A q \in Hits : read[q] \in Nat
    BY <1>1 DEF CounterTypeOK
  <2> QED
    BY <1>1, <2>1, <2>2, RateLimitAssumption DEF LimitInv, InTime, Pending
<1>4. \A w \in Windows : Live(w)' = Live(w) /\ Counted(w)' = Counted(w)
  BY <1>1 DEF Live, Counted
<1>5. ASSUME NEW w \in Windows PROVE Epochs(w)' /\ CountsRequests(w)'
  <2>1. Begin(w) + WindowSeconds \in Nat
    BY WindowsType, RateLimitAssumption
  <2>2. Epochs(w) /\ CountsRequests(w) /\ UpToLimit(w)' = UpToLimit(w)
    BY <1>1 DEF LimitInv, UpToLimit
  <2>3. now' < Begin(w) + WindowSeconds => now < Begin(w) + WindowSeconds
    BY <1>1, <2>1
  <2> QED
    BY <1>1, <1>4, <2>2, <2>3 DEF Epochs, CountsRequests
<1>6. RefusedOnlyWhenFull'
  BY <1>1 DEF LimitInv, RefusedOnlyWhenFull
<1> QED
  BY <1>2, <1>3, <1>5, <1>6 DEF LimitInv

\* The steps together.
LEMMA LimitInvStep ==
  ASSUME LimitInv, [LimitNext]_limitVars PROVE LimitInv'
<1>1. ASSUME NEW r \in Hits, Expire(r) PROVE LimitInv'
  <2>1. Decision(1) = "allowed"
    BY RateLimitAssumption DEF Decision
  <2> QED
    BY <1>1, <2>1, ExpiryKeepsLimitInv DEF Expire, Pending
<1>2. ASSUME NEW r \in Hits, ProcessDies(r) PROVE LimitInv'
  BY <1>2, ExpiryKeepsLimitInv DEF ProcessDies, Pending
<1>3. CASE UNCHANGED limitVars
  <2>1. now' = now /\ counter' = counter /\ at' = at /\ read' = read
    BY <1>3 DEF limitVars
  <2>2. \A w : Epochs(w)' = Epochs(w) /\ CountsRequests(w)' = CountsRequests(w)
    BY <2>1 DEF Epochs, CountsRequests, UpToLimit, Live, Counted
  <2> QED
    BY <2>1, <2>2 DEF LimitInv, CounterTypeOK, InTime, Pending, RefusedOnlyWhenFull
<1> QED
  BY <1>1, <1>2, <1>3, ArriveKeepsLimitInv, IncrKeepsLimitInv, RedisFailsKeepsLimitInv,
     SecondKeepsLimitInv DEF LimitNext

LEMMA LimitInvInit == ASSUME LimitInit PROVE LimitInv
<1>1. CounterTypeOK /\ InTime /\ RefusedOnlyWhenFull
  BY RateLimitAssumption
     DEF LimitInit, CounterTypeOK, InTime, Pending, RefusedOnlyWhenFull
<1>2. ASSUME NEW w \in Windows PROVE Epochs(w) /\ CountsRequests(w)
  <2>1. Live(w) = {} /\ Counted(w) = {}
    BY DEF LimitInit, Live, Counted
  <2>2. Cardinality(Live(w)) = 0 /\ Cardinality(Counted(w)) = 0
    BY <2>1, FS_EmptySet
  <2>3. counter[w].count = 0 /\ counter[w].until = Never
    BY DEF LimitInit
  <2> QED
    BY <2>2, <2>3, RateLimitAssumption DEF Epochs, CountsRequests, UpToLimit
<1> QED
  BY <1>1, <1>2 DEF LimitInv

LEMMA LimitInvHolds == LimitSpec => []LimitInv
<1> QED
  BY LimitInvInit, LimitInvStep, PTL DEF LimitSpec

\* However late the increments come and whatever dies between two round trips,
\* a window lets through at most twice its limit.
THEOREM TwiceTheLimitHolds == LimitSpec => []TwiceTheLimit
<1>1. ASSUME LimitInv, NEW w \in Windows PROVE Cardinality(Allowed(w)) <= 2 * Limit
  <2>1. Allowed(w) \subseteq Live(w) /\ Live(w) \subseteq Hits
    BY DEF Allowed, Live
  <2>2. /\ Cardinality(Allowed(w)) \in Nat /\ Cardinality(Live(w)) \in Nat
        /\ Cardinality(Allowed(w)) <= Cardinality(Live(w))
    BY <2>1, CountsOfHits
  <2>3. Cardinality(Live(w)) <= Limit + UpToLimit(w)
    BY <1>1 DEF LimitInv, Epochs
  <2>4. UpToLimit(w) \in Nat /\ UpToLimit(w) <= Limit
    BY <1>1, RateLimitAssumption DEF LimitInv, CounterTypeOK, UpToLimit
  <2> QED
    BY <2>2, <2>3, <2>4, RateLimitAssumption
<1>2. LimitInv => TwiceTheLimit
  BY <1>1 DEF TwiceTheLimit
<1> QED
  BY <1>2, LimitInvHolds, PTL

\* A caller is refused only in a window that really has had its limit of other
\* requests: no counter of an earlier window, expired or left behind, counts.
THEOREM RefusedOnlyWhenFullHolds == LimitSpec => []RefusedOnlyWhenFull
<1>1. LimitInv => RefusedOnlyWhenFull
  BY DEF LimitInv
<1> QED
  BY <1>1, LimitInvHolds, PTL

-----------------------------------------------------------------------------
(* The quota of the gateway.                                                *)

N == Cardinality(Handlers)

QuotaTypeOK ==
  /\ used \in Nat
  /\ pc \in [Handlers -> {"idle", "quota", "checked"}]

\* What has been consumed, together with what the handlers that have passed the
\* test are about to consume, fits in the limit and one request less than there
\* are handlers: the strengthening that makes the bound inductive.
Promised == used + Cost * Cardinality(Checked) <= TokenLimit + Cost * (N - 1)

QuotaInv == QuotaTypeOK /\ Promised

\* The handlers that have passed the test are among the handlers.
LEMMA Counts ==
  ASSUME NEW C \in SUBSET Handlers
  PROVE  /\ IsFiniteSet(C) /\ Cardinality(C) \in Nat
         /\ N \in Nat /\ N >= 1 /\ Cardinality(C) <= N
<1>1. IsFiniteSet(Handlers) /\ Handlers # {}
  BY PublicApiAssumption
<1>2. IsFiniteSet(C) /\ Cardinality(C) <= Cardinality(Handlers)
  BY <1>1, FS_Subset
<1>3. Cardinality(C) \in Nat /\ Cardinality(Handlers) \in Nat
  BY <1>1, <1>2, FS_CardinalityType
<1>4. Cardinality(Handlers) # 0
  BY <1>1, FS_EmptySet
<1> QED BY <1>2, <1>3, <1>4 DEF N

\* Products of the cost.
LEMMA Products ==
  ASSUME NEW c \in Nat, NEW m \in Nat, NEW n \in Nat
  PROVE  /\ c * m \in Nat
         /\ c * (m + 1) = c * m + c
         /\ c * (m - 1) = c * m - c
         /\ m <= n => c * m <= c * n
<1>1. /\ c * m \in Nat /\ c * (m + 1) = c * m + c /\ c * (m - 1) = c * m - c
  OBVIOUS
<1>2. ASSUME m <= n PROVE c * m <= c * n
  <2>1. n - m \in Nat /\ n = m + (n - m)
    BY <1>2
  <2>2. c * n = c * m + c * (n - m) /\ c * (n - m) \in Nat /\ c * m \in Nat
    BY <2>1
  <2> QED BY <2>2
<1> QED BY <1>1, <1>2

\* Nothing is used and nobody has passed the test.
LEMMA InitQuota == ApiInit => QuotaInv
<1> SUFFICES ASSUME ApiInit PROVE QuotaInv
  OBVIOUS
<1>1. QuotaTypeOK
  BY DEF ApiInit, QuotaTypeOK
<1>2. Checked = {} /\ Cardinality(Checked) = 0
  BY FS_EmptySet DEF ApiInit, Checked
<1>3. N - 1 \in Nat
  BY Counts
<1>4. Cost * (N - 1) \in Nat /\ Cost * 0 = 0
  BY <1>3, PublicApiAssumption
<1>5. Promised
  BY <1>2, <1>4, PublicApiAssumption DEF ApiInit, Promised
<1> QED BY <1>1, <1>5 DEF QuotaInv

\* A handler that passes the test has just seen room for its own tokens; the
\* other handlers are at most N - 1.
LEMMA ReadKeeps ==
  ASSUME NEW r \in Handlers, QuotaInv, QuotaRead(r)
  PROVE  QuotaInv'
<1>1. QuotaTypeOK'
  BY DEF QuotaInv, QuotaTypeOK, QuotaRead, Goes
<1>2. used' = used
  BY DEF QuotaRead
<1>3. CASE QuotaSuffices
  <2>1. Cardinality(Checked') \in Nat /\ N \in Nat /\ N >= 1 /\ Cardinality(Checked') <= N
    BY Counts DEF Checked
  <2>2. Cost * Cardinality(Checked') <= Cost * N /\ Cost * (N - 1) = Cost * N - Cost
    BY <2>1, Products, PublicApiAssumption
  <2>3. Cost * Cardinality(Checked') \in Nat /\ Cost * N \in Nat
    BY <2>1, Products, PublicApiAssumption
  <2>4. used + Cost <= TokenLimit
    BY <1>3 DEF QuotaSuffices
  <2>5. Promised'
    BY <1>2, <2>2, <2>3, <2>4, PublicApiAssumption DEF Promised, N, QuotaInv, QuotaTypeOK
  <2> QED BY <1>1, <2>5 DEF QuotaInv
<1>4. CASE ~ QuotaSuffices
  <2>1. Checked' = Checked
    BY <1>4 DEF QuotaRead, Goes, Checked, QuotaInv, QuotaTypeOK
  <2> QED BY <1>1, <1>2, <2>1 DEF QuotaInv, Promised, N
<1> QED BY <1>3, <1>4

\* A handler that leaves, having consumed its tokens or nothing at all.
LEMMA LeavingKeeps ==
  ASSUME NEW r \in Handlers, QuotaInv, Goes(r, "idle"),
         used' = used \/ (pc[r] = "checked" /\ used' = used + Cost)
  PROVE  QuotaInv'
<1>1. QuotaTypeOK'
  BY PublicApiAssumption DEF QuotaInv, QuotaTypeOK, Goes
<1>2. Checked' = Checked \ {r}
  BY DEF Goes, Checked, QuotaInv, QuotaTypeOK
<1>3. /\ IsFiniteSet(Checked) /\ Cardinality(Checked) \in Nat /\ N \in Nat /\ N >= 1
  BY Counts DEF Checked
<1>4. Cardinality(Checked') = IF r \in Checked THEN Cardinality(Checked) - 1
                                               ELSE Cardinality(Checked)
  BY <1>2, <1>3, FS_RemoveElement
<1>5. /\ Cost * (Cardinality(Checked) - 1) = Cost * Cardinality(Checked) - Cost
      /\ Cost * Cardinality(Checked) \in Nat /\ Cost * (N - 1) \in Int
  BY <1>3, Products, PublicApiAssumption
<1>6. pc[r] = "checked" => r \in Checked
  BY DEF Checked
<1>7. Promised'
  <2>1. used + Cost * Cardinality(Checked) <= TokenLimit + Cost * (N - 1)
    BY DEF QuotaInv, Promised
  <2>2. used' + Cost * Cardinality(Checked') <= used + Cost * Cardinality(Checked)
    BY <1>3, <1>4, <1>5, <1>6, PublicApiAssumption DEF QuotaInv, QuotaTypeOK
  <2>3. Cost * Cardinality(Checked') \in Int
    BY <1>4, <1>5, PublicApiAssumption
  <2>4. used' + Cost * Cardinality(Checked') <= TokenLimit + Cost * (N - 1)
    BY <1>1, <1>5, <2>1, <2>2, <2>3, PublicApiAssumption DEF QuotaInv, QuotaTypeOK
  <2> QED BY <2>4 DEF Promised, N
<1> QED BY <1>1, <1>7 DEF QuotaInv

\* A step that touches neither the usage nor who has passed the test.
LEMMA OtherKeeps ==
  ASSUME QuotaInv, QuotaTypeOK', used' = used, Checked' = Checked
  PROVE  QuotaInv'
BY DEF QuotaInv, Promised, N

\* Every step keeps the promise.
LEMMA NextQuota == QuotaInv /\ [ApiNext]_apiVars => QuotaInv'
<1> SUFFICES ASSUME QuotaInv, [ApiNext]_apiVars PROVE QuotaInv'
  OBVIOUS
<1>1. ASSUME NEW r \in Handlers, RateLimited(r) PROVE QuotaInv'
  BY <1>1, OtherKeeps DEF RateLimited, QuotaInv, QuotaTypeOK, Checked
<1>2. ASSUME NEW r \in Handlers, RatePasses(r) PROVE QuotaInv'
  <2>1. used' = used /\ pc' = [pc EXCEPT ![r] = "quota"] /\ pc[r] = "idle"
    BY <1>2 DEF RatePasses, Goes
  <2> QED BY <2>1, OtherKeeps DEF QuotaInv, QuotaTypeOK, Checked
<1>3. ASSUME NEW r \in Handlers, QuotaRead(r) PROVE QuotaInv'
  BY <1>3, ReadKeeps
<1>4. ASSUME NEW r \in Handlers, QuotaConsumed(r) PROVE QuotaInv'
  BY <1>4, LeavingKeeps DEF QuotaConsumed
<1>5. ASSUME NEW r \in Handlers, QuotaFails(r) PROVE QuotaInv'
  BY <1>5, LeavingKeeps DEF QuotaFails
<1>6. CASE Tick
  BY <1>6, OtherKeeps DEF Tick, QuotaInv, QuotaTypeOK, Checked
<1>7. CASE UNCHANGED apiVars
  BY <1>7, OtherKeeps DEF apiVars, QuotaInv, QuotaTypeOK, Checked
<1> QED BY <1>1, <1>2, <1>3, <1>4, <1>5, <1>6, <1>7 DEF ApiNext

\* enforceAndConsumeQuota reads and raises the usage in two statements, yet the
\* usage never exceeds the limit by more than the tokens of all handlers but one.
THEOREM OvershootBoundedHolds == ApiSpec => []OvershootBounded
<1>1. QuotaInv => OvershootBounded
  <2> SUFFICES ASSUME QuotaInv PROVE OvershootBounded
    OBVIOUS
  <2>1. Cardinality(Checked) \in Nat /\ N \in Nat
    BY Counts DEF Checked
  <2>2. Cost * Cardinality(Checked) \in Nat /\ Cost * (N - 1) \in Int
    BY <2>1, PublicApiAssumption
  <2> QED BY <2>2, PublicApiAssumption
         DEF QuotaInv, QuotaTypeOK, Promised, OvershootBounded, N
<1> QED BY <1>1, InitQuota, NextQuota, PTL DEF ApiSpec

-----------------------------------------------------------------------------

\* A call is counted as served in the step that raises the usage by its cost,
\* and no failure gives tokens back.
THEOREM NoFreeCallsHolds == ApiSpec => []NoFreeCalls
<1> DEFINE Inv == runs \in Nat /\ used \in Nat /\ NoFreeCalls
<1> USE DEF NoFreeCalls
<1>1. ApiInit => Inv
  BY PublicApiAssumption DEF ApiInit
<1>2. Inv /\ [ApiNext]_apiVars => Inv'
  <2> SUFFICES ASSUME Inv, [ApiNext]_apiVars PROVE Inv'
    OBVIOUS
  <2>0. ASSUME used' = used \/ used' = used + Cost, UNCHANGED runs PROVE Inv'
    <3>1. used' \in Nat /\ used' >= used /\ Cost * runs \in Nat
      BY <2>0, PublicApiAssumption
    <3> QED BY <2>0, <3>1
  <2>1. ASSUME NEW r \in Handlers, QuotaConsumed(r) PROVE Inv'
    <3>1. used' = used + Cost /\ runs' = runs + 1
      BY <2>1 DEF QuotaConsumed
    <3>2. Cost * runs \in Nat /\ Cost * (runs + 1) = Cost * runs + Cost
      BY Products, PublicApiAssumption
    <3> QED BY <3>1, <3>2, PublicApiAssumption
  <2>2. ASSUME NEW r \in Handlers,
               RateLimited(r) \/ RatePasses(r) \/ QuotaRead(r) \/ QuotaFails(r)
        PROVE  Inv'
    BY <2>0, <2>2 DEF RateLimited, RatePasses, QuotaRead, QuotaFails
  <2>3. CASE Tick \/ UNCHANGED apiVars
    BY <2>0, <2>3 DEF Tick, apiVars
  <2> QED BY <2>1, <2>2, <2>3 DEF ApiNext
<1> QED BY <1>1, <1>2, PTL DEF ApiSpec

-----------------------------------------------------------------------------
(* The sliding window of the gateway.                                       *)

\* Every time at which a process let a request pass, in order; what the store
\* holds are the last of them, and what it has lost is out of the window, by
\* the filter or with the whole entry; MaxRequests passes later, a window is over.
Lost(s, d) ==
  /\ d <= Len(passed[s])
  /\ Len(stamps[s]) = Len(passed[s]) - d
  /\ \A i \in 1..Len(stamps[s]) : stamps[s][i] = passed[s][d + i]
  /\ \A i \in 1..d : passed[s][i] <= wall - Window

InOrderOfTime(s) ==
  /\ \A i \in 1..Len(passed[s]) : passed[s][i] <= wall /\ passed[s][i] + Window <= expiry[s]
  /\ \A i, j \in 1..Len(passed[s]) : i <= j => passed[s][i] <= passed[s][j]

Apart(s) ==
  \A i \in 1..Len(passed[s]) :
    i + MaxRequests <= Len(passed[s]) => passed[s][i] + Window <= passed[s][i + MaxRequests]

WindowTypeOK ==
  /\ wall \in Nat
  /\ stamps \in [Servers -> Seq(Nat)]
  /\ expiry \in [Servers -> Nat]
  /\ passed \in [Servers -> Seq(Nat)]

Slides(s) == InOrderOfTime(s) /\ Apart(s) /\ \E d \in Nat : Lost(s, d)

WindowInv == WindowTypeOK /\ \A s \in Servers : Slides(s)

\* A set of natural numbers has a least one.
LEMMA Least ==
  ASSUME NEW S \in SUBSET Nat, S # {}
  PROVE  \E x \in S : \A y \in S : x <= y
<1>1. PICK x \in S : \A y \in S : <<y, x>> \notin OpToRel(<, Nat)
  BY NatLessThanWellFounded, WFMin, Zenon
<1>2. \A y \in S : ~ (y < x)
  BY <1>1 DEF OpToRel
<1> QED
  BY <1>2

\* In a list in the order of time, After leaves out the first k.
LEMMA AfterFacts ==
  ASSUME NEW list \in Seq(Nat), NEW since \in Int,
         \A i, j \in 1..Len(list) : i <= j => list[i] <= list[j]
  PROVE  \E k \in 0..Len(list) :
           /\ \A i \in 1..k : list[i] <= since
           /\ After(list, since) \in Seq(Nat)
           /\ Len(After(list, since)) = Len(list) - k
           /\ \A i \in 1..(Len(list) - k) : After(list, since)[i] = list[k + i]
<1> DEFINE n == Len(list)
           old == {i \in 1..n : list[i] <= since}
           K == {k \in 0..n : \A i \in (k + 1)..n : list[i] > since}
<1>1. n \in Nat /\ \A i \in 1..n : list[i] \in Nat
  OBVIOUS
<1>2. n \in K /\ K \in SUBSET Nat
  BY <1>1
<1>3. PICK k \in K : \A j \in K : k <= j
  BY <1>2, Least
<1>4. \A i \in 1..k : list[i] <= since
  <2>1. CASE k = 0
    BY <2>1
  <2>2. CASE k # 0
    <3>1. k - 1 \in 0..n /\ k - 1 \notin K /\ k \in 1..n
      <4>1. k \in 0..n /\ n \in Nat
        BY <1>1, <1>3
      <4>2. k - 1 \in 0..n /\ k \in 1..n /\ ~ (k <= k - 1)
        BY <2>2, <4>1
      <4> QED
        BY <1>3, <4>2
    <3>2. PICK i \in k..n : ~ (list[i] > since)
      BY <3>1
    <3>3. i = k
      <4>1. i # k => i \in (k + 1)..n
        BY <1>1, <3>1
      <4> QED
        BY <1>3, <3>2, <4>1
    <3>4. list[k] <= since
      BY <1>1, <3>1, <3>2, <3>3
    <3>5. ASSUME NEW j \in 1..k PROVE list[j] <= since
      <4>1. j \in 1..n /\ j <= k /\ list[j] <= list[k]
        BY <1>1, <3>1
      <4> QED
        BY <1>1, <3>1, <3>4, <4>1
    <3> QED
      BY <3>5
  <2> QED
    BY <2>1, <2>2
<1>5. old = 1..k
  <2>1. k \in 0..n /\ \A i \in (k + 1)..n : list[i] > since
    BY <1>3
  <2>2. \A i \in 1..n : list[i] <= since <=> i <= k
    BY <1>1, <1>4, <2>1
  <2> QED
    BY <1>1, <2>1, <2>2
<1>6. Cardinality(old) = k
  <2>1. /\ k \in Nat /\ 1 \in Int /\ k \in Int
        /\ (k = 0 => 1 > k) /\ (k # 0 => ~ (1 > k) /\ k - 1 + 1 = k)
    BY <1>1, <1>3
  <2>2. Cardinality(1..k) = IF 1 > k THEN 0 ELSE k - 1 + 1
    BY <2>1, FS_Interval
  <2> QED
    BY <1>5, <2>1, <2>2
<1>7. After(list, since) = SubSeq(list, k + 1, n)
  <2>1. {i \in DOMAIN list : list[i] <= since} = old
    OBVIOUS
  <2> HIDE DEF old
  <2> QED
    BY <1>6, <2>1 DEF After
<1> HIDE DEF n
<1>8. /\ SubSeq(list, k + 1, n) \in Seq(Nat) /\ Len(SubSeq(list, k + 1, n)) = n - k
      /\ \A i \in 1..(n - k) : SubSeq(list, k + 1, n)[i] = list[k + i]
  BY <1>1, <1>3 DEF n
<1> QED
  BY <1>3, <1>4, <1>7, <1>8 DEF n

\* What the limiter finds: the passes of the last window, and no others are younger.
LEMMA ValidFacts ==
  ASSUME WindowInv, NEW s \in Servers
  PROVE  /\ Valid(s) \in Seq(Nat)
         /\ \E d \in Nat :
              /\ d <= Len(passed[s])
              /\ Len(Valid(s)) = Len(passed[s]) - d
              /\ \A i \in 1..Len(Valid(s)) : Valid(s)[i] = passed[s][d + i]
              /\ \A i \in 1..d : passed[s][i] <= wall - Window
<1> DEFINE P == passed[s]
           n == Len(P)
           Q == Stored(s)
           V == Valid(s)
<1>1. /\ wall \in Nat /\ P \in Seq(Nat) /\ n \in Nat /\ stamps[s] \in Seq(Nat)
      /\ expiry[s] \in Nat /\ Window \in Nat
  BY PublicApiAssumption DEF WindowInv, WindowTypeOK
<1>2. /\ \A i \in 1..n : P[i] \in Nat /\ P[i] <= wall /\ P[i] + Window <= expiry[s]
      /\ \A i, j \in 1..n : i <= j => P[i] <= P[j]
  BY <1>1, SMTT(20) DEF WindowInv, Slides, InOrderOfTime
<1>3. PICK d \in Nat : Lost(s, d)
  BY DEF WindowInv, Slides
<1>4. /\ Q \in Seq(Nat)
      /\ \E e \in 0..n : /\ Len(Q) = n - e
                         /\ \A i \in 1..(n - e) : Q[i] = P[e + i]
                         /\ \A i \in 1..e : P[i] <= wall - Window
  <2>1. CASE wall >= expiry[s]
    <3>1. Q = <<>> /\ Len(Q) = 0 /\ Q \in Seq(Nat) /\ n \in 0..n /\ 1..(n - n) = {}
      BY <1>1, <2>1 DEF Stored
    <3>2. \A i \in 1..n : P[i] <= wall - Window
      BY <1>1, <1>2, <2>1
    <3> QED
      BY <1>1, <3>1, <3>2, SMTT(20)
  <2>2. CASE ~ (wall >= expiry[s])
    <3>1. Q = stamps[s] /\ Len(Q) \in Nat
      BY <1>1, <2>2 DEF Stored
    <3>2. d \in 0..n /\ Len(stamps[s]) = n - d
      BY <1>1, <1>3 DEF Lost
    <3> QED
      BY <1>1, <1>3, <3>1, <3>2 DEF Lost
  <2> QED
    BY <2>1, <2>2
<1>5. PICK e \in 0..n : /\ Len(Q) = n - e
                        /\ \A i \in 1..(n - e) : Q[i] = P[e + i]
                        /\ \A i \in 1..e : P[i] <= wall - Window
  BY <1>4
<1>6. \A i, j \in 1..Len(Q) : i <= j => Q[i] <= Q[j]
  <2> SUFFICES ASSUME NEW i \in 1..Len(Q), NEW j \in 1..Len(Q), i <= j PROVE Q[i] <= Q[j]
    OBVIOUS
  <2>1. e + i \in 1..n /\ e + j \in 1..n /\ e + i <= e + j
    <3>1. e \in 0..n /\ Len(Q) = n - e
      BY <1>5
    <3> HIDE DEF Q, n
    <3> QED
      BY <1>1, <3>1
  <2>2. i \in 1..(n - e) /\ j \in 1..(n - e)
    BY <1>5
  <2>3. Q[i] = P[e + i] /\ Q[j] = P[e + j]
    BY <1>5, <2>2
  <2> HIDE DEF P, Q, n
  <2> QED
    BY <1>2, <2>1, <2>3
<1> HIDE DEF P, Q, n
<1>7. wall - Window \in Int
  BY <1>1
<1>8. V = After(Q, wall - Window)
  BY DEF Valid, Q
<1>9. PICK k \in 0..Len(Q) :
        /\ \A i \in 1..k : Q[i] <= wall - Window
        /\ V \in Seq(Nat)
        /\ Len(V) = Len(Q) - k
        /\ \A i \in 1..(Len(Q) - k) : V[i] = Q[k + i]
  <2>1. Q \in Seq(Nat)
    BY <1>4
  <2> HIDE DEF V
  <2> QED
    BY <1>6, <1>7, <1>8, <2>1, AfterFacts
<1> HIDE DEF V
<1>10. e + k \in Nat /\ e + k <= n /\ Len(V) = n - (e + k)
  BY <1>1, <1>5, <1>9
<1>11. ASSUME NEW i \in 1..Len(V) PROVE V[i] = P[(e + k) + i]
  <2>1. i \in 1..(Len(Q) - k) /\ k + i \in 1..(n - e) /\ e + (k + i) = (e + k) + i
    BY <1>1, <1>5, <1>9
  <2>2. V[i] = Q[k + i] /\ Q[k + i] = P[e + (k + i)]
    BY <1>5, <1>9, <2>1
  <2> QED
    BY <2>1, <2>2
<1>12. ASSUME NEW i \in 1..(e + k) PROVE P[i] <= wall - Window
  <2>1. CASE i \in 1..e
    BY <1>5, <2>1
  <2>2. CASE i \notin 1..e
    <3>1. i - e \in 1..k /\ i - e \in 1..(n - e) /\ e + (i - e) = i
      BY <1>1, <1>5, <1>9, <2>2, SMTT(20)
    <3>2. Q[i - e] = P[e + (i - e)] /\ Q[i - e] <= wall - Window
      BY <1>5, <1>9, <3>1
    <3> QED
      BY <3>1, <3>2
  <2> QED
    BY <2>1, <2>2
<1> QED
  BY <1>9, <1>10, <1>11, <1>12 DEF P, n, V

\* A request that is refused leaves the filtered list.
LEMMA LimitedKeepsWindow ==
  ASSUME WindowInv, NEW r \in Handlers, RateLimited(r) PROVE WindowInv'
<1> PICK s \in Servers : s = ServerOf[r]
  BY PublicApiAssumption
<1>1. /\ stamps' = [stamps EXCEPT ![s] = Valid(s)]
      /\ expiry' = [expiry EXCEPT ![s] = wall + Window]
      /\ wall' = wall /\ passed' = passed
  BY DEF RateLimited
<1>2. WindowTypeOK /\ Window \in Nat /\ wall \in Nat
  BY PublicApiAssumption DEF WindowInv, WindowTypeOK
<1>3. WindowTypeOK'
  BY <1>1, <1>2, ValidFacts DEF WindowTypeOK
<1>4. ASSUME NEW t \in Servers, t # s PROVE Slides(t)'
  <2>1. stamps'[t] = stamps[t] /\ expiry'[t] = expiry[t] /\ passed'[t] = passed[t]
    BY <1>1, <1>2, <1>4 DEF WindowTypeOK
  <2>2. Slides(t)
    BY DEF WindowInv
  <2> QED
    BY <1>1, <2>1, <2>2 DEF Slides, InOrderOfTime, Apart, Lost
<1>5. Slides(s)'
  <2>1. stamps'[s] = Valid(s) /\ expiry'[s] = wall + Window /\ passed'[s] = passed[s]
    BY <1>1, <1>2 DEF WindowTypeOK
  <2>2. Slides(s) /\ \A i \in 1..Len(passed[s]) : passed[s][i] \in Nat
    BY <1>2 DEF WindowInv, WindowTypeOK
  <2>3. InOrderOfTime(s)'
    BY <1>1, <1>2, <2>1, <2>2 DEF Slides, InOrderOfTime
  <2>4. Apart(s)'
    BY <2>1, <2>2 DEF Slides, Apart
  <2>5. \E d \in Nat : Lost(s, d)'
    <3>1. PICK d \in Nat :
            /\ d <= Len(passed[s])
            /\ Len(Valid(s)) = Len(passed[s]) - d
            /\ \A i \in 1..Len(Valid(s)) : Valid(s)[i] = passed[s][d + i]
            /\ \A i \in 1..d : passed[s][i] <= wall - Window
      BY ValidFacts
    <3>2. Lost(s, d)'
      BY <1>1, <2>1, <3>1 DEF Lost
    <3> QED
      BY <3>2
  <2> QED
    BY <2>3, <2>4, <2>5 DEF Slides
<1> QED
  BY <1>3, <1>4, <1>5 DEF WindowInv

\* A request that passes is the last of its list.
LEMMA PassKeepsWindow ==
  ASSUME WindowInv, NEW r \in Handlers, RatePasses(r) PROVE WindowInv'
<1> PICK s \in Servers : s = ServerOf[r]
  BY PublicApiAssumption
<1> DEFINE P == passed[s]
           n == Len(P)
           V == Valid(s)
           PP == Append(P, wall)
           VV == Append(V, wall)
<1>1. /\ Len(V) < MaxRequests
      /\ stamps' = [stamps EXCEPT ![s] = VV] /\ expiry' = [expiry EXCEPT ![s] = wall + Window]
      /\ wall' = wall /\ passed' = [passed EXCEPT ![s] = PP]
  BY DEF RatePasses
<1>2. /\ WindowTypeOK /\ Window \in Nat /\ wall \in Nat /\ MaxRequests \in Nat \ {0}
      /\ P \in Seq(Nat) /\ V \in Seq(Nat) /\ n \in Nat
  BY PublicApiAssumption, ValidFacts DEF WindowInv, WindowTypeOK
<1>3. PICK d \in Nat :
        /\ d <= n /\ Len(V) = n - d
        /\ \A i \in 1..Len(V) : V[i] = P[d + i]
        /\ \A i \in 1..d : P[i] <= wall - Window
  BY ValidFacts
<1> HIDE DEF V
<1>4. /\ PP \in Seq(Nat) /\ Len(PP) = n + 1 /\ PP[n + 1] = wall
      /\ \A i \in 1..n : PP[i] = P[i] /\ P[i] \in Nat
      /\ VV \in Seq(Nat) /\ Len(VV) = Len(V) + 1 /\ VV[Len(V) + 1] = wall
      /\ \A i \in 1..Len(V) : VV[i] = V[i]
  BY <1>2, SMTT(20)
<1>5. WindowTypeOK'
  BY <1>1, <1>2, <1>4 DEF WindowTypeOK
<1>6. ASSUME NEW t \in Servers, t # s PROVE Slides(t)'
  <2>1. stamps'[t] = stamps[t] /\ expiry'[t] = expiry[t] /\ passed'[t] = passed[t]
    BY <1>1, <1>2, <1>6 DEF WindowTypeOK
  <2>2. Slides(t)
    BY DEF WindowInv
  <2> QED
    BY <1>1, <2>1, <2>2 DEF Slides, InOrderOfTime, Apart, Lost
<1>7. /\ \A i \in 1..n : P[i] <= wall
      /\ \A i, j \in 1..n : i <= j => P[i] <= P[j]
      /\ \A i \in 1..n : i + MaxRequests <= n => P[i] + Window <= P[i + MaxRequests]
  BY DEF WindowInv, Slides, InOrderOfTime, Apart
<1> HIDE DEF P, n, PP, VV
<1>8. stamps'[s] = VV /\ expiry'[s] = wall + Window /\ passed'[s] = PP
  BY <1>1, <1>2 DEF WindowTypeOK
<1>9. InOrderOfTime(s)'
  <2>1. \A i \in 1..(n + 1) : PP[i] \in Nat /\ PP[i] <= wall
    <3> TAKE i \in 1..(n + 1)
    <3>1. CASE i = n + 1
      BY <1>2, <1>4, <3>1
    <3>2. CASE i # n + 1
      <4>1. i \in 1..n
        BY <1>2, <3>2
      <4> QED
        BY <1>4, <1>7, <4>1
    <3> QED
      BY <3>1, <3>2
  <2>2. ASSUME NEW i \in 1..(n + 1), NEW j \in 1..(n + 1), i <= j PROVE PP[i] <= PP[j]
    <3>1. CASE j = n + 1
      BY <1>4, <2>1, <3>1
    <3>2. CASE j # n + 1
      <4>1. i \in 1..n /\ j \in 1..n
        BY <1>2, <2>2, <3>2
      <4> QED
        BY <1>4, <1>7, <2>2, <4>1
    <3> QED
      BY <3>1, <3>2
  <2>3. \A i \in 1..(n + 1) : PP[i] <= wall /\ PP[i] + Window <= wall + Window
    BY <1>2, <2>1
  <2> QED
    BY <1>1, <1>4, <1>8, <2>2, <2>3 DEF InOrderOfTime
<1>10. Apart(s)'
  <2>1. ASSUME NEW i \in 1..(n + 1), i + MaxRequests <= n + 1
        PROVE  PP[i] + Window <= PP[i + MaxRequests]
    <3>1. i \in 1..n /\ i + MaxRequests \in 1..(n + 1)
      BY <1>2, <2>1
    <3>2. CASE i + MaxRequests = n + 1
      <4>1. i \in 1..d
        BY <1>1, <1>2, <1>3, <3>1, <3>2
      <4>2. P[i] <= wall - Window /\ P[i] \in Nat
        BY <1>3, <1>4, <3>1, <4>1
      <4> QED
        <5>1. PP[i] = P[i] /\ PP[i + MaxRequests] = wall
          BY <1>4, <3>1, <3>2
        <5> QED
          BY <1>2, <4>2, <5>1
    <3>3. CASE i + MaxRequests # n + 1
      <4>1. i + MaxRequests \in 1..n /\ i + MaxRequests <= n
        BY <1>2, <3>1, <3>3
      <4> QED
        BY <1>4, <1>7, <3>1, <4>1
    <3> QED
      BY <3>2, <3>3
  <2> QED
    BY <1>4, <1>8, <2>1 DEF Apart
<1>11. Lost(s, d)'
  <2>1. d <= n + 1 /\ Len(VV) = (n + 1) - d
    BY <1>2, <1>3, <1>4
  <2>2. ASSUME NEW i \in 1..Len(VV) PROVE VV[i] = PP[d + i]
    <3>1. CASE i = Len(V) + 1
      BY <1>2, <1>3, <1>4, <3>1
    <3>2. CASE i # Len(V) + 1
      <4>1. i \in 1..Len(V) /\ d + i \in 1..n
        BY <1>2, <1>3, <1>4, <3>2
      <4> QED
        BY <1>3, <1>4, <4>1
    <3> QED
      BY <3>1, <3>2
  <2>3. ASSUME NEW i \in 1..d PROVE PP[i] <= wall - Window
    <3>1. i \in 1..n
      BY <1>2, <1>3
    <3> QED
      BY <1>3, <1>4, <3>1
  <2> QED
    BY <1>1, <1>4, <1>8, <2>1, <2>2, <2>3 DEF Lost
<1> QED
  BY <1>5, <1>6, <1>9, <1>10, <1>11 DEF WindowInv, Slides

\* The steps together, with those of the quota and the clock.
LEMMA WindowInvStep ==
  ASSUME WindowInv, [ApiNext]_apiVars PROVE WindowInv'
<1>1. ASSUME UNCHANGED <<stamps, expiry, passed>>, wall' = wall \/ wall' = wall + 1
      PROVE  WindowInv'
  <2>1. WindowTypeOK /\ wall \in Nat /\ wall' \in Nat /\ wall <= wall' /\ Window \in Nat
    BY <1>1, PublicApiAssumption DEF WindowInv, WindowTypeOK
  <2>2. WindowTypeOK'
    BY <1>1, <2>1 DEF WindowTypeOK
  <2>3. ASSUME NEW s \in Servers PROVE Slides(s)'
    <3>1. Slides(s) /\ \A i \in 1..Len(passed[s]) : passed[s][i] \in Nat
      BY <2>1 DEF WindowInv, WindowTypeOK
    <3>2. Apart(s)' /\ InOrderOfTime(s)'
      BY <1>1, <2>1, <3>1 DEF Slides, Apart, InOrderOfTime
    <3>3. PICK d \in Nat : Lost(s, d)
      BY <3>1 DEF Slides
    <3>4. \A i \in 1..d : i \in 1..Len(passed[s])
      BY <2>1, <3>3 DEF Lost, WindowTypeOK
    <3>5. \A i \in 1..d : passed[s][i] <= wall' - Window
      BY <2>1, <3>1, <3>3, <3>4 DEF Lost
    <3>6. Lost(s, d)'
      BY <1>1, <3>3, <3>5 DEF Lost
    <3> QED
      BY <3>2, <3>6 DEF Slides
  <2> QED
    BY <2>2, <2>3 DEF WindowInv
<1>2. ASSUME NEW r \in Handlers, QuotaRead(r) \/ QuotaConsumed(r) \/ QuotaFails(r)
      PROVE  WindowInv'
  BY <1>1, <1>2 DEF QuotaRead, QuotaConsumed, QuotaFails
<1>3. CASE Tick \/ UNCHANGED apiVars
  BY <1>1, <1>3 DEF Tick, apiVars
<1> QED
  BY <1>2, <1>3, LimitedKeepsWindow, PassKeepsWindow DEF ApiNext

LEMMA WindowInvInit == ASSUME ApiInit PROVE WindowInv
<1>1. WindowTypeOK
  BY DEF ApiInit, WindowTypeOK
<1>2. ASSUME NEW s \in Servers PROVE Slides(s)
  <2>1. passed[s] = <<>> /\ stamps[s] = <<>> /\ Len(passed[s]) = 0 /\ Len(stamps[s]) = 0
    BY DEF ApiInit
  <2>2. Lost(s, 0)
    BY <2>1 DEF Lost
  <2> QED
    BY <2>1, <2>2 DEF Slides, InOrderOfTime, Apart
<1> QED
  BY <1>1, <1>2 DEF WindowInv

\* However often the store's entry expires or is filtered, no window of the
\* given length, wherever it starts, sees more passes than MaxRequests.
THEOREM WindowBoundedHolds == ApiSpec => []WindowBounded
<1>1. ASSUME WindowInv, NEW s \in Servers, NEW t \in 0..MaxTime
      PROVE  Cardinality({i \in DOMAIN passed[s] : passed[s][i] \in t..(t + Window - 1)})
               <= MaxRequests
  <2> DEFINE P == passed[s]
             n == Len(P)
             I == {i \in DOMAIN P : P[i] \in t..(t + Window - 1)}
  <2>1. /\ P \in Seq(Nat) /\ n \in Nat /\ DOMAIN P = 1..n /\ \A i \in 1..n : P[i] \in Nat
        /\ Window \in Nat /\ MaxRequests \in Nat \ {0}
    BY <1>1, PublicApiAssumption DEF WindowInv, WindowTypeOK
  <2>2. /\ \A i, j \in 1..n : i <= j => P[i] <= P[j]
        /\ \A i \in 1..n : i + MaxRequests <= n => P[i] + Window <= P[i + MaxRequests]
    BY <1>1 DEF WindowInv, Slides, InOrderOfTime, Apart
  <2>3. CASE I = {}
    <3>1. Cardinality(I) = 0
      <4> HIDE DEF I
      <4> QED
        BY <2>3, FS_EmptySet
    <3> QED
      BY <2>1, <3>1
  <2>4. CASE I # {}
    <3>1. I \in SUBSET Nat
      BY <2>1
    <3>2. PICK lo \in I : \A i \in I : lo <= i
      BY <2>4, <3>1, Least
    <3> HIDE DEF P, n
    <3>3. lo \in 1..n /\ P[lo] >= t /\ P[lo] \in Nat
      BY <2>1, <3>2
    <3>4. ASSUME NEW i \in I, i >= lo + MaxRequests PROVE FALSE
      <4>1. i \in 1..n /\ P[i] \in Nat /\ P[i] <= t + Window - 1
        BY <2>1
      <4>2. lo + MaxRequests \in 1..n /\ lo + MaxRequests <= n
        BY <2>1, <3>3, <3>4, <4>1
      <4>3. P[lo] + Window <= P[lo + MaxRequests] /\ P[lo + MaxRequests] <= P[i]
        BY <2>2, <3>3, <3>4, <4>1, <4>2
      <4>4. P[lo + MaxRequests] \in Nat
        BY <2>1, <4>2
      <4> QED
        BY <2>1, <3>3, <4>1, <4>3, <4>4
    <3>5. I \subseteq lo..(lo + MaxRequests - 1)
      BY <2>1, <3>1, <3>2, <3>4
    <3>6. IsFiniteSet(lo..(lo + MaxRequests - 1))
          /\ Cardinality(lo..(lo + MaxRequests - 1)) = MaxRequests
      <4>1. lo \in Int /\ lo + MaxRequests - 1 \in Int /\ ~ (lo > lo + MaxRequests - 1)
            /\ (lo + MaxRequests - 1) - lo + 1 = MaxRequests
        BY <2>1, <3>3
      <4> QED
        BY <4>1, FS_Interval
    <3> HIDE DEF I
    <3>7. Cardinality(I) <= MaxRequests
      <4>1. PICK J : J = lo..(lo + MaxRequests - 1)
        OBVIOUS
      <4>2. IsFiniteSet(J) /\ Cardinality(J) = MaxRequests /\ I \in SUBSET J
        BY <3>5, <3>6, <4>1
      <4>3. Cardinality(I) <= Cardinality(J)
        BY <4>2, FS_Subset, Zenon
      <4> QED
        BY <4>2, <4>3
    <3> QED
      BY <3>7 DEF I, P
  <2> QED
    BY <2>3, <2>4
<1>2. WindowInv => WindowBounded
  BY <1>1 DEF WindowBounded
<1> QED
  BY <1>2, WindowInvInit, WindowInvStep, PTL DEF ApiSpec

=============================================================================
