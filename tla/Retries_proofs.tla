---------------------------- MODULE Retries_proofs ----------------------------
(***************************************************************************)
(* The two executions that retry.  For any providers, pages, hosts, links  *)
(* and delays a crawl calls its providers a bounded number of times, and   *)
(* its turns at a host keep their distance; for any jobs, clients and      *)
(* number of attempts no execution is left that could write to a job that  *)
(* has completed or failed.                                                *)
(***************************************************************************)
EXTENDS HttpCrawl, JobService, FiniteSetTheorems, SequenceTheorems, TLAPS

(* The provider router and the internal provider.                           *)

\* The router's count: an attempt is behind each fallback but the first MaxTries.
RouterInv ==
  /\ providers \in Seq(STRING) \ {<<>>}
  /\ tries \in Nat /\ turn \in 1..Len(providers)
  /\ tries <= MaxTries + turn - 1
  /\ stage \in {"try", "delay"} => tries < MaxTries + turn - 1

LEMMA RouterInvInit == RouterInit => RouterInv
<1> SUFFICES ASSUME RouterInit PROVE RouterInv
  OBVIOUS
<1>1. providers \in Seq(STRING) \ {<<>>} /\ MaxTries \in Nat \ {0}
  BY RouterAssumption DEF RouterInit
<1>2. Len(providers) \in Nat /\ Len(providers) >= 1
  BY <1>1
<1> QED
  BY <1>1, <1>2 DEF RouterInit, RouterInv

\* Every step of the router keeps its count.
LEMMA RouterInvStep ==
  ASSUME RouterInv,
         \/ Refused \/ Try \/ Transient \/ Waited \/ Abort \/ Expires
         \/ \E outcome \in Outcomes : Answers(outcome)
         \/ UNCHANGED routerVars
  PROVE  RouterInv'
<1> USE RouterAssumption DEF RouterInv
<1>0. Len(providers) \in Nat
  OBVIOUS
<1>1. CASE Refused
  BY <1>1 DEF Refused
<1>2. CASE Try
  BY <1>2 DEF Try
<1>3. CASE Transient
  <2>1. CASE TriesLeft
    BY <1>3, <2>1 DEF Transient, TriesLeft
  <2>2. CASE ~TriesLeft
    BY <1>0, <1>3, <2>2 DEF Transient, TriesLeft
  <2> QED
    BY <2>1, <2>2
<1>4. CASE Waited
  BY <1>4 DEF Waited
<1>5. CASE Abort \/ Expires
  BY <1>5 DEF Abort, Expires
<1>6. ASSUME NEW outcome \in Outcomes, Answers(outcome) PROVE RouterInv'
  BY <1>6 DEF Answers, Outcomes
<1>7. CASE UNCHANGED routerVars
  BY <1>7 DEF routerVars
<1> QED
  BY <1>1, <1>2, <1>3, <1>4, <1>5, <1>6, <1>7

\* What a failed task does to the router is a step of the router.
LEMMA RejectsIsOfRouter ==
  ASSUME NEW e, NEW error \in {"transient", "cancelled", "failed"}, Rejects(e, error)
  PROVE  Transient \/ (\E outcome \in Outcomes : Answers(outcome)) \/ UNCHANGED routerVars
BY DEF Rejects, Outcomes

\* So the crawl keeps the count as well.
LEMMA CrawlKeepsRouterInv == RouterInv /\ [CrawlNext]_crawlVars => RouterInv'
<1> SUFFICES ASSUME RouterInv, [CrawlNext]_crawlVars PROVE RouterInv'
  OBVIOUS
<1>1. CASE StartTry \/ RouterStep
  BY <1>1, RouterInvStep DEF StartTry, RouterStep
<1>2. CASE OtherProvider
  BY <1>2, RouterInvStep DEF OtherProvider, Outcomes
<1>3. ASSUME NEW e \in Execs, StartPage(e) PROVE RouterInv'
  <2>1. Transient \/ UNCHANGED routerVars
    BY <1>3 DEF StartPage
  <2> QED
    BY <2>1, RouterInvStep
<1>4. ASSUME NEW e \in Execs, Returns(e) PROVE RouterInv'
  BY <1>4, RouterInvStep DEF Returns, Outcomes
<1>5. ASSUME NEW e \in Execs, NEW h \in Hosts, RobotsFetched(e, h) PROVE RouterInv'
  BY <1>5, RouterInvStep DEF RobotsFetched
<1>6. ASSUME NEW e \in Execs, NEW x \in Fetches,
             \/ Measure(e, x) \/ TakesTurn(e, x) \/ Request(e, x) \/ Redirect(e, x)
             \/ PageFetched(e, x)
      PROVE  RouterInv'
  BY <1>6, RouterInvStep DEF Measure, TakesTurn, Request, Redirect, PageFetched
<1>7. ASSUME NEW e \in Execs, NEW x \in Fetches, TaskFails(e, x) PROVE RouterInv'
  <2>1. PICK error \in {"transient", "cancelled", "failed"} : Rejects(e, error)
    BY <1>7 DEF TaskFails, Errors
  <2> QED
    BY <2>1, RejectsIsOfRouter, RouterInvStep
<1>8. CASE ClockTicks
  BY <1>8, RouterInvStep DEF ClockTicks
<1>9. CASE Abort \/ Expires
  BY <1>9, RouterInvStep
<1>10. CASE UNCHANGED crawlVars
  BY <1>10, RouterInvStep DEF crawlVars
<1> QED
  BY <1>1, <1>2, <1>3, <1>4, <1>5, <1>6, <1>7, <1>8, <1>9, <1>10
     DEF CrawlNext, CrawlStep, TaskStep

\* Each provider that fails ends a round of tries, and a fallback adds one: however many
\* providers there are, the router calls them a bounded number of times.
THEOREM TriesBoundedHolds == CrawlSpec => []TriesBounded
<1>1. CrawlInit => RouterInv
  BY RouterInvInit DEF CrawlInit
<1>2. RouterInv => TriesBounded
  <2> SUFFICES ASSUME RouterInv PROVE TriesBounded
    OBVIOUS
  <2>1. Len(providers) \in Nat /\ MaxTries \in Nat
    BY RouterAssumption DEF RouterInv
  <2> QED
    BY <2>1 DEF RouterInv, TriesBounded
<1> QED
  BY <1>1, <1>2, CrawlKeepsRouterInv, PTL DEF CrawlSpec

-----------------------------------------------------------------------------

Entry == [page : Pages, depth : Nat]

CrawlTypeOK ==
  /\ pending \in [Execs -> Seq(Entry)] /\ visited \in [Execs -> Seq(Entry)]
  /\ task \in [Execs -> [Fetches -> {"none", "ended"} \cup Working]]
  /\ line \in [Execs -> [Hosts -> Seq(Fetches)]]
  /\ left \in [Execs -> [Fetches -> Nat]]
  /\ age \in [Execs -> [Hosts -> 0..Spacing]]
  /\ documents \in [Execs -> SUBSET Pages]

\* Every page that has a task has been visited.
TasksVisited ==
  \A e \in Execs, p \in Pages :
    task[e][p] # "none" => \E i \in DOMAIN visited[e] : visited[e][i].page = p

\* A delay is that of the first of the line, and ends a spacing behind the last turn.
FirstDelays ==
  \A e \in Execs, x \in Fetches :
    task[e][x] = "delay" =>
      MyTurn(e, x) /\ left[e][x] = Spacing - age[e][Host(x)]

CrawlInv == CrawlTypeOK /\ TasksVisited /\ FirstDelays

Spaced == \A e \in Execs, x \in Fetches : Turns(e, x) => age[e][Host(x)] = Spacing

\* Every fetch has its host.
LEMMA HostType == \A x \in Fetches : Host(x) \in Hosts
BY CrawlAssumption DEF Fetches, Host

LEMMA CrawlInvInit == CrawlInit => CrawlInv
<1> SUFFICES ASSUME CrawlInit PROVE CrawlInv
  OBVIOUS
<1>1. CrawlTypeOK
  BY CrawlAssumption DEF CrawlInit, CrawlTypeOK, Working
<1>2. TasksVisited /\ FirstDelays
  BY DEF CrawlInit, TasksVisited, FirstDelays, Fetches
<1> QED
  BY <1>1, <1>2 DEF CrawlInv

\* A step that leaves tasks, lines and delays alone.
LEMMA QuietCrawl ==
  ASSUME CrawlInv, UNCHANGED <<visited, task, line, left, age, documents>>,
         pending' \in [Execs -> Seq(Entry)]
  PROVE  CrawlInv' /\ Spaced
<1>1. CrawlInv'
  BY DEF CrawlInv, CrawlTypeOK, TasksVisited, FirstDelays, MyTurn
<1>2. Spaced
  BY DEF Spaced, Turns
<1> QED
  BY <1>1, <1>2

\* A new execution begins with nothing under way.
LEMMA StartTryStep ==
  ASSUME CrawlInv, StartTry PROVE CrawlInv' /\ Spaced
<1>1. [page |-> Root, depth |-> 0] \in Entry
  BY CrawlAssumption DEF Entry
<1> HIDE DEF Entry
<1>2. <<[page |-> Root, depth |-> 0]>> \in Seq(Entry)
  BY <1>1
<1>3. pending' \in [Execs -> Seq(Entry)]
  BY <1>2 DEF StartTry, CrawlInv, CrawlTypeOK
<1> QED
  BY <1>3, QuietCrawl DEF StartTry

\* Somebody joins the line of a host, at its end: the first remains the first.
LEMMA Joins ==
  ASSUME NEW s \in Seq(Fetches), NEW q \in Seq(Fetches)
  PROVE  /\ s \o q \in Seq(Fetches)
         /\ s # <<>> => s \o q # <<>> /\ Head(s \o q) = Head(s)
<1>1. s \o q \in Seq(Fetches) /\ Len(s \o q) = Len(s) + Len(q)
  OBVIOUS
<1>2. ASSUME s # <<>> PROVE s \o q # <<>> /\ Head(s \o q) = Head(s)
  <2>1. Len(s) \in Nat \ {0} /\ Len(q) \in Nat
    BY <1>2
  <2>2. (s \o q)[1] = s[1] /\ Len(s \o q) # 0
    BY <1>1, <2>1
  <2> QED
    BY <1>2, <2>1, <2>2
<1> QED
  BY <1>1, <1>2

\* A step of tasks of execution e in which delays neither begin nor end in a
\* turn, and lines only grow.
LEMMA LinesGrow ==
  ASSUME CrawlInv, NEW e \in Execs,
         task' \in [Execs -> [Fetches -> {"none", "ended"} \cup Working]],
         line' \in [Execs -> [Hosts -> Seq(Fetches)]],
         visited' \in [Execs -> Seq(Entry)], pending' \in [Execs -> Seq(Entry)],
         documents' \in [Execs -> SUBSET Pages],
         UNCHANGED <<left, age>>,
         \A f \in Execs \ {e} :
           task'[f] = task[f] /\ line'[f] = line[f] /\ visited'[f] = visited[f],
         \A x \in Fetches : task'[e][x] = "delay" => task[e][x] = "delay",
         \A x \in Fetches : task[e][x] = "delay" => task'[e][x] # "validate",
         \A h \in Hosts : line[e][h] # <<>> =>
           line'[e][h] # <<>> /\ Head(line'[e][h]) = Head(line[e][h]),
         \A p \in Pages : task'[e][p] # "none" =>
           \E i \in DOMAIN visited'[e] : visited'[e][i].page = p
  PROVE  CrawlInv' /\ Spaced
<1>1. CrawlTypeOK'
  BY DEF CrawlInv, CrawlTypeOK
<1>2. TasksVisited'
  <2>1. SUFFICES ASSUME NEW f \in Execs, NEW p \in Pages, task'[f][p] # "none"
                 PROVE  \E i \in DOMAIN visited'[f] : visited'[f][i].page = p
    BY DEF TasksVisited
  <2>2. CASE f = e
    BY <2>1, <2>2
  <2>3. CASE f # e
    <3>1. task'[f] = task[f] /\ visited'[f] = visited[f]
      BY <2>3
    <3> QED
      BY <2>1, <3>1 DEF CrawlInv, TasksVisited
  <2> QED
    BY <2>2, <2>3
<1>3. FirstDelays'
  <2>1. SUFFICES ASSUME NEW f \in Execs, NEW x \in Fetches, task'[f][x] = "delay"
                 PROVE  /\ line'[f][Host(x)] # <<>> /\ x = Head(line'[f][Host(x)])
                        /\ left'[f][x] = Spacing - age'[f][Host(x)]
    BY DEF FirstDelays, MyTurn
  <2>2. task[f][x] = "delay"
    BY <2>1
  <2>3. /\ line[f][Host(x)] # <<>> /\ x = Head(line[f][Host(x)])
        /\ left[f][x] = Spacing - age[f][Host(x)]
    BY <2>2 DEF CrawlInv, FirstDelays, MyTurn
  <2>4. Host(x) \in Hosts
    BY HostType
  <2> QED
    BY <2>3, <2>4
<1>4. Spaced
  BY DEF Spaced, Turns
<1> QED
  BY <1>1, <1>2, <1>3, <1>4 DEF CrawlInv

\* A page or robots.txt x of execution e leaves the line of its host, the first in it.
LEMMA FirstLeaves ==
  ASSUME CrawlInv, NEW e \in Execs, NEW x \in Fetches,
         task[e][x] \in {"delay", "validate", "fetch"},
         Leaves(e, x)
  PROVE  /\ line' \in [Execs -> [Hosts -> Seq(Fetches)]]
         /\ \A f \in Execs \ {e} : line'[f] = line[f]
         /\ \A y \in Fetches : y # x /\ task[e][y] = "delay" =>
              line'[e][Host(y)] = line[e][Host(y)]
<1>1. Host(x) \in Hosts
  BY HostType
<1>2. line[e][Host(x)] \in Seq(Fetches)
  BY <1>1 DEF CrawlInv, CrawlTypeOK
<1>3. task[e][x] = "delay" => Tail(line[e][Host(x)]) \in Seq(Fetches)
  BY <1>2 DEF CrawlInv, FirstDelays, MyTurn
<1>4. \A y \in Fetches : y # x /\ task[e][y] = "delay" /\ task[e][x] = "delay" => Host(y) # Host(x)
  BY DEF CrawlInv, FirstDelays, MyTurn
<1> DEFINE new == IF task[e][x] = "delay" THEN Tail(line[e][Host(x)]) ELSE line[e][Host(x)]
<1>5. new \in Seq(Fetches) /\ (task[e][x] # "delay" => new = line[e][Host(x)])
  BY <1>2, <1>3
<1>6. line' = [line EXCEPT ![e][Host(x)] = new]
  BY DEF Leaves
<1> HIDE DEF new
<1>7. line \in [Execs -> [Hosts -> Seq(Fetches)]]
  BY DEF CrawlInv, CrawlTypeOK
<1>8. line' \in [Execs -> [Hosts -> Seq(Fetches)]]
  BY <1>1, <1>5, <1>6, <1>7
<1>9. \A f \in Execs \ {e} : line'[f] = line[f]
  BY <1>6, <1>7
<1>10. \A h \in Hosts : line'[e][h] = IF h = Host(x) THEN new ELSE line[e][h]
  BY <1>1, <1>6, <1>7
<1>11. ASSUME NEW y \in Fetches, y # x, task[e][y] = "delay"
       PROVE  line'[e][Host(y)] = line[e][Host(y)]
  <2>1. Host(y) \in Hosts
    BY HostType
  <2> QED
    BY <1>4, <1>5, <1>10, <1>11, <2>1
<1> QED
  BY <1>8, <1>9, <1>11

\* Sequences that grow at the end, and lose their first.
LEMMA SeqFacts ==
  ASSUME NEW S, NEW s \in Seq(S), NEW x \in S
  PROVE  /\ s \o <<x>> = Append(s, x) /\ <<x>> \in Seq(S) /\ Append(s, x) \in Seq(S)
         /\ DOMAIN Append(s, x) = 1..(Len(s) + 1) /\ DOMAIN s = 1..Len(s)
         /\ Append(s, x)[Len(s) + 1] = x
         /\ \A i \in 1..Len(s) : Append(s, x)[i] = s[i]
         /\ s # <<>> => Head(s) \in S /\ Tail(s) \in Seq(S)
OBVIOUS

\* A page that is started has not been visited.
LEMMA StartPageStep ==
  ASSUME CrawlInv, NEW e \in Execs, StartPage(e) PROVE CrawlInv' /\ Spaced
<1> DEFINE p == Head(pending[e]).page
           h == HostOf[p]
<1>1. pending[e] # <<>> /\ pending' = [pending EXCEPT ![e] = Tail(@)]
      /\ UNCHANGED <<left, age, documents>>
  BY DEF StartPage, CanStart
<1>2. pending[e] \in Seq(Entry) /\ visited[e] \in Seq(Entry)
  BY DEF CrawlInv, CrawlTypeOK
<1>3. Head(pending[e]) \in Entry /\ Tail(pending[e]) \in Seq(Entry)
  BY <1>1, <1>2, SeqFacts
<1>4. pending' \in [Execs -> Seq(Entry)]
  <2> HIDE DEF Entry
  <2> QED
    BY <1>1, <1>3 DEF CrawlInv, CrawlTypeOK
<1>5. p \in Pages /\ h \in Hosts /\ p \in Fetches /\ h \in Fetches /\ p # h /\ p \notin Hosts
  BY <1>3, CrawlAssumption DEF Entry, Fetches
<1>6. CASE UNCHANGED <<visited, task, robotsText, line>>
  BY <1>1, <1>4, <1>6, QuietCrawl
<1>7. CASE /\ visited' = [visited EXCEPT ![e] = Append(@, Head(pending[e]))]
           /\ \/ task' = [task EXCEPT ![e][p] = "robots", ![e][h] = "line"]
                 /\ line' = [line EXCEPT ![e][h] = Append(@, h)]
              \/ task' = [task EXCEPT ![e][p] = "robots"] /\ line' = line
              \/ task' = [task EXCEPT ![e][p] = "ended"] /\ line' = line
              \/ task' = [task EXCEPT ![e][p] = "line"]
                 /\ line' = [line EXCEPT ![e][h] = Append(@, p)]
  <2> DEFINE entry == Head(pending[e])
  <2>1. /\ visited' \in [Execs -> Seq(Entry)] /\ visited'[e] = Append(visited[e], entry)
        /\ \A f \in Execs \ {e} : visited'[f] = visited[f]
    <3>1. Append(visited[e], entry) \in Seq(Entry)
      BY <1>2, <1>3, SeqFacts
    <3> HIDE DEF Entry
    <3> QED
      BY <1>7, <3>1 DEF CrawlInv, CrawlTypeOK
  <2>2. task \in [Execs -> [Fetches -> {"none", "ended"} \cup Working]]
    BY DEF CrawlInv, CrawlTypeOK
  <2>3. {"robots", "line", "ended"} \subseteq {"none", "ended"} \cup Working
    BY DEF Working
  <2>4. PICK a \in {"robots", "line", "ended"}, b \in {"robots", "line", "ended"} :
          \/ task' = [task EXCEPT ![e][p] = a, ![e][h] = b]
          \/ task' = [task EXCEPT ![e][p] = a]
    BY <1>7
  <2>5. /\ task' \in [Execs -> [Fetches -> {"none", "ended"} \cup Working]]
        /\ \A f \in Execs \ {e} : task'[f] = task[f]
        /\ \A x \in Fetches : x \notin {p, h} => task'[e][x] = task[e][x]
        /\ \A x \in {p, h} : task'[e][x] = task[e][x] \/ task'[e][x] \in {"robots", "line", "ended"}
        /\ \A x \in Pages : x # p => task'[e][x] = task[e][x]
    <3> HIDE DEF p, h, Working
    <3>1. ASSUME NEW x \in Pages, x # p PROVE x # h /\ x \in Fetches
      BY <1>5, <3>1, CrawlAssumption DEF Fetches
    <3> QED
      BY <1>5, <2>2, <2>3, <2>4, <3>1
  <2>6. line \in [Execs -> [Hosts -> Seq(Fetches)]]
    BY DEF CrawlInv, CrawlTypeOK
  <2>7. PICK x \in Fetches :
          line' = line \/ line' = [line EXCEPT ![e][h] = Append(@, x)]
    BY <1>5, <1>7
  <2>8. /\ Append(line[e][h], x) \in Seq(Fetches)
        /\ line[e][h] # <<>> => /\ Append(line[e][h], x) # <<>>
                                /\ Head(Append(line[e][h], x)) = Head(line[e][h])
    <3>1. line[e][h] \in Seq(Fetches)
      BY <1>5, <2>6
    <3> HIDE DEF h
    <3> QED
      BY <3>1, SeqFacts, Joins
  <2>9. /\ line' \in [Execs -> [Hosts -> Seq(Fetches)]]
        /\ \A f \in Execs \ {e} : line'[f] = line[f]
        /\ \A g \in Hosts : line[e][g] # <<>> =>
             line'[e][g] # <<>> /\ Head(line'[e][g]) = Head(line[e][g])
    <3> HIDE DEF h
    <3> DEFINE new == Append(line[e][h], x)
    <3>1. line' = line \/ line' = [line EXCEPT ![e][h] = new]
      BY <2>7
    <3>2. new \in Seq(Fetches) /\ (line[e][h] # <<>> => new # <<>> /\ Head(new) = Head(line[e][h]))
      BY <2>8
    <3> HIDE DEF new
    <3>3. CASE line' = line
      BY <2>6, <3>3
    <3>4. CASE line' = [line EXCEPT ![e][h] = new]
      BY <1>5, <2>6, <3>2, <3>4
    <3> QED
      BY <3>1, <3>3, <3>4
  <2>10. ASSUME NEW q \in Pages, task'[e][q] # "none"
         PROVE  \E i \in DOMAIN visited'[e] : visited'[e][i].page = q
    <3>1. CASE q = p
      <4>1. /\ Len(visited[e]) + 1 \in DOMAIN visited'[e]
            /\ visited'[e][Len(visited[e]) + 1] = entry
        BY <1>2, <1>3, <2>1, SeqFacts
      <4> QED
        BY <3>1, <4>1
    <3>2. CASE q # p
      <4>1. task[e][q] # "none"
        BY <2>5, <2>10, <3>2
      <4>2. PICK i \in DOMAIN visited[e] : visited[e][i].page = q
        BY <4>1 DEF CrawlInv, TasksVisited
      <4>3. i \in DOMAIN visited'[e] /\ visited'[e][i] = visited[e][i]
        BY <1>2, <1>3, <2>1, <4>2, SeqFacts
      <4> QED
        BY <4>2, <4>3
    <3> QED
      BY <3>1, <3>2
  <2>11. \A y \in Fetches : task'[e][y] = task[e][y] \/ task'[e][y] \in {"robots", "line", "ended"}
    BY <2>5
  <2>12. documents' \in [Execs -> SUBSET Pages]
    BY <1>1 DEF CrawlInv, CrawlTypeOK
  <2>13. \A y \in Fetches : (task'[e][y] = "delay" => task[e][y] = "delay")
                          /\ (task[e][y] = "delay" => task'[e][y] # "validate")
    BY <2>11
  <2>14. \A q \in Pages :
           task'[e][q] # "none" => \E i \in DOMAIN visited'[e] : visited'[e][i].page = q
    BY <2>10
  <2>15. \A f \in Execs \ {e} :
           task'[f] = task[f] /\ line'[f] = line[f] /\ visited'[f] = visited[f]
    BY <2>1, <2>5, <2>9
  <2>16. task' \in [Execs -> [Fetches -> {"none", "ended"} \cup Working]]
         /\ line' \in [Execs -> [Hosts -> Seq(Fetches)]] /\ visited' \in [Execs -> Seq(Entry)]
    BY <2>1, <2>5, <2>9
  <2>17. \A g \in Hosts : line[e][g] # <<>> =>
           line'[e][g] # <<>> /\ Head(line'[e][g]) = Head(line[e][g])
    BY <2>9
  <2>18. UNCHANGED <<left, age>>
    BY <1>1
  <2> HIDE DEF p, h, entry
  <2> QED
    BY <1>4, <2>12, <2>13, <2>14, <2>15, <2>16, <2>17, <2>18, LinesGrow
<1> QED
  BY <1>6, <1>7 DEF StartPage

\* The task whose turn it is waits for the rest of the spacing.
LEMMA MeasureStep ==
  ASSUME CrawlInv, NEW e \in Execs, NEW x \in Fetches, Measure(e, x) PROVE CrawlInv' /\ Spaced
<1>1. Host(x) \in Hosts
  BY HostType
<1>2. Spacing - age[e][Host(x)] \in Nat
  BY <1>1, CrawlAssumption DEF CrawlInv, CrawlTypeOK
<1>3. /\ UNCHANGED <<pending, visited, line, age, documents>> /\ MyTurn(e, x) /\ task[e][x] = "line"
      /\ left' = [left EXCEPT ![e][x] = Spacing - age[e][Host(x)]]
      /\ task' = [task EXCEPT ![e][x] = "delay"]
  BY DEF Measure
<1>4. CrawlTypeOK'
  BY <1>2, <1>3 DEF CrawlInv, CrawlTypeOK, Working
<1>5. TasksVisited'
  <2>1. \A f \in Execs, p \in Pages : task'[f][p] # "none" => task[f][p] # "none"
    BY <1>3 DEF CrawlInv, CrawlTypeOK, Fetches
  <2> QED
    BY <1>3, <2>1 DEF CrawlInv, TasksVisited
<1>6. FirstDelays'
  <2>1. \A f \in Execs, y \in Fetches : f # e \/ y # x =>
          task'[f][y] = task[f][y] /\ left'[f][y] = left[f][y]
    BY <1>3 DEF CrawlInv, CrawlTypeOK
  <2>2. left'[e][x] = Spacing - age[e][Host(x)]
    BY <1>3 DEF CrawlInv, CrawlTypeOK
  <2> QED
    BY <1>3, <2>1, <2>2 DEF CrawlInv, FirstDelays, MyTurn
<1>7. Spaced
  BY <1>3 DEF CrawlInv, CrawlTypeOK, Spaced, Turns
<1> QED
  BY <1>4, <1>5, <1>6, <1>7 DEF CrawlInv

\* The only step that takes a turn.
LEMMA TurnStep ==
  ASSUME CrawlInv, NEW e \in Execs, NEW x \in Fetches, TakesTurn(e, x) PROVE CrawlInv' /\ Spaced
<1>1. Host(x) \in Hosts
  BY HostType
<1>2. /\ UNCHANGED <<pending, visited, left, documents>> /\ Leaves(e, x)
      /\ task[e][x] = "delay" /\ left[e][x] = 0
      /\ age' = [age EXCEPT ![e][Host(x)] = 0]
      /\ task' = [task EXCEPT ![e][x] = "validate"]
  BY DEF TakesTurn
<1>3. /\ line' \in [Execs -> [Hosts -> Seq(Fetches)]]
      /\ \A f \in Execs \ {e} : line'[f] = line[f]
      /\ \A y \in Fetches : y # x /\ task[e][y] = "delay" =>
           line'[e][Host(y)] = line[e][Host(y)]
  BY <1>2, FirstLeaves
<1>4. CrawlTypeOK'
  <2>1. age' \in [Execs -> [Hosts -> 0..Spacing]]
    BY <1>1, <1>2, CrawlAssumption DEF CrawlInv, CrawlTypeOK
  <2>2. task' \in [Execs -> [Fetches -> {"none", "ended"} \cup Working]]
    BY <1>2 DEF CrawlInv, CrawlTypeOK, Working
  <2> QED
    BY <1>2, <1>3, <2>1, <2>2 DEF CrawlInv, CrawlTypeOK
<1>5. \A f \in Execs, y \in Fetches : f # e \/ y # x => task'[f][y] = task[f][y]
  BY <1>2 DEF CrawlInv, CrawlTypeOK
<1>6. task'[e][x] = "validate"
  BY <1>2 DEF CrawlInv, CrawlTypeOK
<1>7. TasksVisited'
  <2>1. \A f \in Execs, p \in Pages : task'[f][p] # "none" => task[f][p] # "none"
    BY <1>2, <1>5 DEF Fetches
  <2> QED
    BY <1>2, <2>1 DEF CrawlInv, TasksVisited
<1>8. FirstDelays'
  <2>1. SUFFICES ASSUME NEW f \in Execs, NEW y \in Fetches, task'[f][y] = "delay"
                 PROVE  /\ line'[f][Host(y)] # <<>> /\ y = Head(line'[f][Host(y)])
                        /\ left'[f][y] = Spacing - age'[f][Host(y)]
    BY DEF FirstDelays, MyTurn
  <2>2. task[f][y] = "delay" /\ (f # e \/ y # x) /\ Host(y) \in Hosts
    BY <1>5, <1>6, <2>1, HostType
  <2>3. /\ line[f][Host(y)] # <<>> /\ y = Head(line[f][Host(y)])
        /\ left[f][y] = Spacing - age[f][Host(y)]
    BY <2>2 DEF CrawlInv, FirstDelays, MyTurn
  <2>4. line'[f][Host(y)] = line[f][Host(y)]
    BY <1>3, <2>2
  <2>5. f # e \/ Host(y) # Host(x)
    BY <1>2, <2>2 DEF CrawlInv, FirstDelays, MyTurn
  <2>6. age'[f][Host(y)] = age[f][Host(y)]
    BY <1>1, <1>2, <2>2, <2>5 DEF CrawlInv, CrawlTypeOK
  <2> QED
    BY <1>2, <2>3, <2>4, <2>6
<1>9. age[e][Host(x)] = Spacing
  <2>1. left[e][x] = Spacing - age[e][Host(x)] /\ age[e][Host(x)] \in 0..Spacing
    BY <1>1, <1>2 DEF CrawlInv, FirstDelays, CrawlTypeOK
  <2> QED
    BY <1>2, <2>1, CrawlAssumption
<1>10. Spaced
  BY <1>5, <1>9 DEF Spaced, Turns
<1> QED
  BY <1>4, <1>7, <1>8, <1>10 DEF CrawlInv

\* What safeFetch does behind the turn of x leaves the lines alone.
LEMMA SafeFetchStep ==
  ASSUME CrawlInv, NEW e \in Execs, NEW x \in Fetches, Request(e, x) \/ Redirect(e, x)
  PROVE  CrawlInv' /\ Spaced
<1>1. /\ UNCHANGED <<pending, visited, line, left, age, documents>>
      /\ \E to \in {"validate", "fetch"} :
           task[e][x] \in {"validate", "fetch"} /\ task' = [task EXCEPT ![e][x] = to]
  BY DEF Request, Redirect
<1>2. /\ task' \in [Execs -> [Fetches -> {"none", "ended"} \cup Working]]
      /\ \A f \in Execs, y \in Fetches : \/ task'[f][y] = task[f][y]
                                       \/ /\ task[f][y] \in {"validate", "fetch"}
                                          /\ task'[f][y] \in {"validate", "fetch"}
  BY <1>1 DEF CrawlInv, CrawlTypeOK, Working
<1>3. CrawlTypeOK'
  BY <1>1, <1>2 DEF CrawlInv, CrawlTypeOK
<1>4. TasksVisited'
  <2>1. \A f \in Execs, p \in Pages : task'[f][p] # "none" => task[f][p] # "none"
    BY <1>2 DEF Fetches
  <2> QED
    BY <1>1, <2>1 DEF CrawlInv, TasksVisited
<1>5. FirstDelays'
  <2>1. \A f \in Execs, y \in Fetches : task'[f][y] = "delay" => task[f][y] = "delay"
    BY <1>2
  <2> QED
    BY <1>1, <2>1 DEF CrawlInv, FirstDelays, MyTurn
<1>6. Spaced
  BY <1>2 DEF Spaced, Turns
<1> QED
  BY <1>3, <1>4, <1>5, <1>6 DEF CrawlInv

\* Tasks of execution e end, and x leaves its line.
LEMMA TaskFailsStep ==
  ASSUME CrawlInv, NEW e \in Execs, NEW x \in Fetches, TaskFails(e, x) PROVE CrawlInv' /\ Spaced
<1>1. /\ UNCHANGED <<pending, visited, left, age, documents>> /\ Leaves(e, x)
      /\ task[e][x] \in {"delay", "validate", "fetch"}
      /\ task' = [task EXCEPT ![e] = [y \in Fetches |->
            IF y = x \/ (task[e][y] = "robots" /\ HostOf[y] = x) THEN "ended" ELSE @[y]]]
  BY DEF TaskFails, Errors
<1>2. /\ line' \in [Execs -> [Hosts -> Seq(Fetches)]]
      /\ \A f \in Execs \ {e} : line'[f] = line[f]
      /\ \A y \in Fetches : y # x /\ task[e][y] = "delay" =>
           line'[e][Host(y)] = line[e][Host(y)]
  BY <1>1, FirstLeaves
<1>3. /\ task' \in [Execs -> [Fetches -> {"none", "ended"} \cup Working]]
      /\ \A f \in Execs \ {e} : task'[f] = task[f]
      /\ \A y \in Fetches : task'[e][y] = "ended" \/ (y # x /\ task'[e][y] = task[e][y])
      /\ \A y \in Fetches : task[e][y] = "none" => task'[e][y] = "none"
  BY <1>1 DEF CrawlInv, CrawlTypeOK
<1>4. CrawlTypeOK'
  BY <1>1, <1>2, <1>3 DEF CrawlInv, CrawlTypeOK
<1>5. TasksVisited'
  <2>1. \A f \in Execs, p \in Pages : task'[f][p] # "none" => task[f][p] # "none"
    BY <1>3 DEF Fetches
  <2> QED
    BY <1>1, <2>1 DEF CrawlInv, TasksVisited
<1>6. FirstDelays'
  <2>1. SUFFICES ASSUME NEW f \in Execs, NEW y \in Fetches, task'[f][y] = "delay"
                 PROVE  /\ line'[f][Host(y)] # <<>> /\ y = Head(line'[f][Host(y)])
                        /\ left'[f][y] = Spacing - age'[f][Host(y)]
    BY DEF FirstDelays, MyTurn
  <2>2. task[f][y] = "delay" /\ (f # e \/ y # x)
    BY <1>3, <2>1
  <2>3. /\ line[f][Host(y)] # <<>> /\ y = Head(line[f][Host(y)])
        /\ left[f][y] = Spacing - age[f][Host(y)]
    BY <2>2 DEF CrawlInv, FirstDelays, MyTurn
  <2>4. line'[f][Host(y)] = line[f][Host(y)]
    BY <1>2, <2>2
  <2> QED
    BY <1>1, <2>3, <2>4
<1>7. Spaced
  <2>1. \A f \in Execs, y \in Fetches : task[f][y] = "delay" => task'[f][y] # "validate"
    BY <1>3
  <2> QED
    BY <2>1 DEF Spaced, Turns
<1> QED
  BY <1>4, <1>5, <1>6, <1>7 DEF CrawlInv

\* The order in which waiters go on.
LEMMA OrderedType ==
  ASSUME NEW e \in Execs, NEW S \in SUBSET Pages, NEW q \in InOrder(e, S)
  PROVE  q \in Seq(Fetches)
<1>1. Cardinality(S) \in Nat
  BY CrawlAssumption, FS_Subset, FS_CardinalityType
<1>2. q \in [1..Cardinality(S) -> Fetches]
  BY DEF InOrder, Fetches
<1> QED
  BY <1>1, <1>2

\* The pages that waited for robots.txt stand in line, or end.
LEMMA RobotsFetchedStep ==
  ASSUME CrawlInv, NEW e \in Execs, NEW h \in Hosts, RobotsFetched(e, h) PROVE CrawlInv' /\ Spaced
<1>1. /\ UNCHANGED <<pending, visited, left, age, documents>> /\ task[e][h] = "fetch"
      /\ task' = [task EXCEPT ![e] = [x \in Fetches |->
            IF x = h THEN "ended"
            ELSE IF x \in Hosts \/ @[x] # "robots" \/ Host(x) # h THEN @[x]
            ELSE IF x \in Disallowed THEN "ended" ELSE "line"]]
  BY DEF RobotsFetched
<1>2. PICK q \in InOrder(e, Ready(e, h)) : line' = [line EXCEPT ![e][h] = @ \o q]
  BY DEF RobotsFetched
<1>3. q \in Seq(Fetches)
  BY OrderedType DEF Ready
<1>4. line \in [Execs -> [Hosts -> Seq(Fetches)]]
  BY DEF CrawlInv, CrawlTypeOK
<1> DEFINE new == line[e][h] \o q
<1>5. /\ new \in Seq(Fetches)
      /\ line[e][h] # <<>> => new # <<>> /\ Head(new) = Head(line[e][h])
  BY <1>3, <1>4, Joins
<1>6. line' = [line EXCEPT ![e][h] = new]
  BY <1>2
<1> HIDE DEF new
<1>7. /\ line' \in [Execs -> [Hosts -> Seq(Fetches)]]
      /\ \A f \in Execs \ {e} : line'[f] = line[f]
      /\ \A g \in Hosts : line[e][g] # <<>> =>
           line'[e][g] # <<>> /\ Head(line'[e][g]) = Head(line[e][g])
  BY <1>4, <1>5, <1>6
<1>8. /\ task' \in [Execs -> [Fetches -> {"none", "ended"} \cup Working]]
      /\ \A f \in Execs \ {e} : task'[f] = task[f]
      /\ \A y \in Fetches :
           \/ task'[e][y] \in {"ended", "line"} /\ task[e][y] \in {"fetch", "robots"}
           \/ task'[e][y] = task[e][y]
  BY <1>1 DEF CrawlInv, CrawlTypeOK, Working
<1>9. \A p \in Pages : task'[e][p] # "none" => \E i \in DOMAIN visited'[e] : visited'[e][i].page = p
  <2>1. \A p \in Pages : task'[e][p] # "none" => task[e][p] # "none"
    BY <1>8 DEF Fetches
  <2> QED
    BY <1>1, <2>1 DEF CrawlInv, TasksVisited
<1>10. /\ visited' \in [Execs -> Seq(Entry)] /\ pending' \in [Execs -> Seq(Entry)]
       /\ documents' \in [Execs -> SUBSET Pages] /\ visited' = visited /\ UNCHANGED <<left, age>>
  BY <1>1 DEF CrawlInv, CrawlTypeOK
<1>11. \A x \in Fetches : (task'[e][x] = "delay" => task[e][x] = "delay")
                         /\ (task[e][x] = "delay" => task'[e][x] # "validate")
  BY <1>8
<1> QED
  BY <1>7, <1>8, <1>9, <1>10, <1>11, LinesGrow, ZenonT(30)

\* The links that a page puts into the queue are entries.
LEMMA FittingType ==
  ASSUME CrawlInv, NEW e \in Execs, NEW entry \in Entry PROVE Fitting(e, entry) \in Seq(Entry)
<1>1. LinksOf[entry.page] \in Seq(Pages) /\ entry.depth + 1 \in Nat
  BY CrawlAssumption DEF Entry
<1>2. Followed(e, entry) \in Seq(Entry)
  <2> DEFINE links == LinksOf[entry.page]
             all == [i \in DOMAIN links |-> [page |-> links[i], depth |-> entry.depth + 1]]
  <2>1. /\ DOMAIN links = 1..Len(links) /\ Len(links) \in Nat
        /\ \A i \in DOMAIN links : links[i] \in Pages
    BY <1>1
  <2>2. \A i \in DOMAIN links : [page |-> links[i], depth |-> entry.depth + 1] \in Entry
    BY <1>1, <2>1 DEF Entry
  <2> HIDE DEF Entry, links
  <2>3. all \in [1..Len(links) -> Entry]
    BY <2>1, <2>2
  <2>4. all \in Seq(Entry)
    BY <2>1, <2>3
  <2> QED
    BY <2>4 DEF Followed, links
<1>3. Room(e) \in Nat
  <2>1. Len(pending[e]) \in Nat
    BY DEF CrawlInv, CrawlTypeOK
  <2>2. Cardinality(documents[e]) \in Nat
    BY CrawlAssumption, FS_Subset, FS_CardinalityType DEF CrawlInv, CrawlTypeOK
  <2>3. Cardinality(ActiveTasks(e)) \in Nat
    BY CrawlAssumption, FS_Subset, FS_CardinalityType DEF ActiveTasks
  <2> QED
    BY <2>1, <2>2, <2>3, CrawlAssumption DEF Room
<1> DEFINE all == Followed(e, entry)
           n == IF Len(all) < Room(e) THEN Len(all) ELSE Room(e)
<1>4. all \in Seq(Entry) /\ n \in Nat /\ n <= Len(all)
  BY <1>2, <1>3
<1> HIDE DEF all, n, Entry
<1>5. SubSeq(all, 1, n) \in Seq(Entry)
  BY <1>4
<1> QED
  BY <1>5 DEF Fitting, all, n

\* A page that was fetched leaves the line and queues its links.
LEMMA PageFetchedStep ==
  ASSUME CrawlInv, NEW e \in Execs, NEW x \in Fetches, PageFetched(e, x) PROVE CrawlInv' /\ Spaced
<1>1. /\ UNCHANGED <<visited, line, left, age>> /\ x \in Pages /\ task[e][x] = "fetch"
      /\ task' = [task EXCEPT ![e][x] = "ended"]
  BY DEF PageFetched
<1>2. PICK i \in DOMAIN visited[e] : visited[e][i].page = x
  BY <1>1 DEF CrawlInv, TasksVisited
<1>3. EntryOf(e, x) \in Entry
  <2>1. visited[e] \in Seq(Entry)
    BY DEF CrawlInv, CrawlTypeOK
  <2>2. Range(visited[e]) \subseteq Entry /\ visited[e][i] \in Range(visited[e])
    BY <1>2, <2>1 DEF Range
  <2> QED
    BY <1>2, <2>2 DEF EntryOf
<1>4. pending' \in [Execs -> Seq(Entry)]
  <2>1. Fitting(e, EntryOf(e, x)) \in Seq(Entry) /\ pending[e] \in Seq(Entry)
    BY <1>3, FittingType DEF CrawlInv, CrawlTypeOK
  <2> HIDE DEF Entry
  <2>2. pending[e] \o Fitting(e, EntryOf(e, x)) \in Seq(Entry)
    BY <2>1
  <2> QED
    BY <2>2 DEF PageFetched, CrawlInv, CrawlTypeOK
<1>5. documents' \in [Execs -> SUBSET Pages]
  <2>1. documents' = documents \/ documents' = [documents EXCEPT ![e] = @ \cup {x}]
    BY DEF PageFetched
  <2>2. documents \in [Execs -> SUBSET Pages]
    BY DEF CrawlInv, CrawlTypeOK
  <2> QED
    BY <1>1, <2>1, <2>2
<1>6. /\ task' \in [Execs -> [Fetches -> {"none", "ended"} \cup Working]]
      /\ \A f \in Execs \ {e} : task'[f] = task[f]
      /\ \A y \in Fetches : task'[e][y] = task[e][y] \/ (y = x /\ task'[e][y] = "ended")
  BY <1>1 DEF CrawlInv, CrawlTypeOK
<1>7. \A p \in Pages : task'[e][p] # "none" => \E j \in DOMAIN visited'[e] : visited'[e][j].page = p
  <2>1. \A p \in Pages : task'[e][p] # "none" => task[e][p] # "none"
    BY <1>1, <1>6 DEF Fetches
  <2> QED
    BY <1>1, <2>1 DEF CrawlInv, TasksVisited
<1>8. /\ visited' \in [Execs -> Seq(Entry)] /\ line' \in [Execs -> [Hosts -> Seq(Fetches)]]
      /\ visited' = visited /\ line' = line /\ UNCHANGED <<left, age>>
  BY <1>1 DEF CrawlInv, CrawlTypeOK
<1>9. \A y \in Fetches : (task'[e][y] = "delay" => task[e][y] = "delay")
                        /\ (task[e][y] = "delay" => task'[e][y] # "validate")
  BY <1>1, <1>6
<1> QED
  BY <1>4, <1>5, <1>6, <1>7, <1>8, <1>9, LinesGrow, ZenonT(30)

\* Delays run down as the time since the last turn grows.
LEMMA ClockStep ==
  ASSUME CrawlInv, ClockTicks PROVE CrawlInv' /\ Spaced
<1>1. /\ UNCHANGED <<pending, visited, task, line, documents>>
      /\ age' = [e \in Execs |-> [h \in Hosts |->
                   IF age[e][h] < Spacing THEN age[e][h] + 1 ELSE Spacing]]
      /\ left' = [e \in Execs |-> [x \in Fetches |-> IF left[e][x] > 0 THEN left[e][x] - 1 ELSE 0]]
  BY DEF ClockTicks
<1>2. age' \in [Execs -> [Hosts -> 0..Spacing]] /\ left' \in [Execs -> [Fetches -> Nat]]
  <2>1. Spacing \in Nat
    BY CrawlAssumption
  <2>2. /\ \A e \in Execs : \A h \in Hosts : age[e][h] \in 0..Spacing
        /\ \A e \in Execs : \A x \in Fetches : left[e][x] \in Nat
    BY DEF CrawlInv, CrawlTypeOK
  <2>3. \A e \in Execs : \A h \in Hosts :
          (IF age[e][h] < Spacing THEN age[e][h] + 1 ELSE Spacing) \in 0..Spacing
    BY <2>1, <2>2
  <2>4. \A e \in Execs : \A x \in Fetches :
          (IF left[e][x] > 0 THEN left[e][x] - 1 ELSE 0) \in Nat
    BY <2>2
  <2>5. age' \in [Execs -> [Hosts -> 0..Spacing]]
    BY <1>1, <2>3
  <2>6. left' \in [Execs -> [Fetches -> Nat]]
    BY <1>1, <2>4
  <2> QED
    BY <2>5, <2>6
<1>3. CrawlTypeOK' /\ TasksVisited'
  BY <1>1, <1>2 DEF CrawlInv, CrawlTypeOK, TasksVisited
<1>4. FirstDelays'
  <2>1. SUFFICES ASSUME NEW e \in Execs, NEW x \in Fetches, task[e][x] = "delay"
                 PROVE  MyTurn(e, x) /\ left'[e][x] = Spacing - age'[e][Host(x)]
    BY <1>1 DEF FirstDelays, MyTurn
  <2>2. MyTurn(e, x) /\ left[e][x] = Spacing - age[e][Host(x)]
    BY <2>1 DEF CrawlInv, FirstDelays
  <2>3. age[e][Host(x)] \in 0..Spacing /\ left[e][x] \in Nat /\ Host(x) \in Hosts
    BY HostType DEF CrawlInv, CrawlTypeOK
  <2> QED
    BY <1>1, <2>2, <2>3, CrawlAssumption
<1>5. Spaced
  BY <1>1 DEF Spaced, Turns
<1> QED
  BY <1>3, <1>4, <1>5 DEF CrawlInv

\* The steps together: the invariant holds, and a turn is taken in its time.
LEMMA CrawlInvStep ==
  ASSUME CrawlInv, [CrawlNext]_crawlVars PROVE CrawlInv' /\ Spaced
<1>1. CASE UNCHANGED crawl
  BY <1>1, QuietCrawl DEF crawl, CrawlInv, CrawlTypeOK
<1>2. CASE CrawlStep
  <2>1. CASE OtherProvider \/ RouterStep \/ \E e \in Execs : Returns(e)
    BY <1>1, <2>1 DEF OtherProvider, RouterStep, Returns
  <2> QED
    BY <1>2, <2>1, StartTryStep, StartPageStep, RobotsFetchedStep, MeasureStep, TurnStep,
       SafeFetchStep, PageFetchedStep, TaskFailsStep DEF CrawlStep, TaskStep
<1> QED
  BY <1>1, <1>2, ClockStep DEF CrawlNext, crawlVars

\* A task takes its turn only when the host has rested for the whole spacing: the chain
\* of a host has one task at its head, and only that one reads and sets lastRequestAt.
THEOREM TurnsAreSpacedHolds == CrawlSpec => TurnsAreSpaced
<1>1. CrawlInv /\ [CrawlNext]_crawlVars => CrawlInv' /\ Spaced
  BY CrawlInvStep
<1> QED
  BY <1>1, CrawlInvInit, PTL DEF CrawlSpec, TurnsAreSpaced, Spaced

-----------------------------------------------------------------------------
(* Background jobs.                                                         *)

Outcome == {"completed", "failed"}

Typed == status \in [Jobs -> Status \cup {"none"}] /\ DOMAIN exec = Jobs

\* The execution has ended where the job has an outcome.
EndsFirst == \A j \in Jobs : status[j] \in Outcome => exec[j] = "ended"

\* Of the target nothing but its being a status is of interest.
Targets == target \in [Jobs -> Status]

JobInv == Typed /\ Targets /\ EndsFirst

\* A step of an execution that has not ended, and that leaves the status.
LEMMA QuietStep ==
  ASSUME JobInv, NEW j \in Jobs, exec[j] # "ended", UNCHANGED status,
         NEW STATE at, exec' = [exec EXCEPT ![j] = at],
         \/ UNCHANGED target
         \/ \E to \in Status : target' = [target EXCEPT ![j] = to]
  PROVE  JobInv'
<1>1. Typed'
  BY DEF JobInv, Typed
<1>2. Targets'
  BY DEF JobInv, Targets
<1>3. status[j] \notin Outcome
  BY DEF JobInv, EndsFirst
<1>4. EndsFirst'
  BY <1>3 DEF JobInv, Typed, EndsFirst
<1> QED
  BY <1>1, <1>2, <1>4 DEF JobInv

LEMMA JobInvStep ==
  ASSUME JobInv, [JobNext]_jobVars PROVE JobInv'
<1> USE DEF Status, Active, Terminal
<1>1. ASSUME NEW c \in Clients, FindExisting(c) PROVE JobInv'
  BY <1>1 DEF FindExisting, JobInv, Typed, Targets, EndsFirst
<1>2. ASSUME NEW c \in Clients, CreateJob(c) PROVE JobInv'
  <2>1. PICK j \in Jobs : status' = [status EXCEPT ![j] = "queued"]
    BY <1>2 DEF CreateJob
  <2>2. UNCHANGED <<exec, target>>
    BY <1>2 DEF CreateJob
  <2> QED
    BY <2>1, <2>2 DEF JobInv, Typed, Targets, EndsFirst, Outcome
<1>3. ASSUME NEW j \in Jobs, Execute(j) PROVE JobInv'
  <2>1. /\ exec[j] # "ended" /\ UNCHANGED status
        /\ exec' = [exec EXCEPT ![j] = "read"]
        /\ \E to \in Status : target' = [target EXCEPT ![j] = to]
    BY <1>3 DEF Execute, Transitions
  <2> QED
    BY <2>1, QuietStep
<1>4. ASSUME NEW j \in Jobs, ReadStatus(j) \/ HandlerEnds(j) \/ TimerFires(j) PROVE JobInv'
  <2>1. exec[j] # "ended" /\ UNCHANGED status
    BY <1>4 DEF ReadStatus, HandlerEnds, TimerFires
  <2>2. \/ \E to \in Status : Transitions(j, to)
        \/ \E at \in {"write", "ended"} : Moves(j, at)
    BY <1>4 DEF ReadStatus, HandlerEnds, TimerFires, Caught
  <2> QED
    BY <2>1, <2>2, QuietStep DEF Transitions, Moves
<1>5. ASSUME NEW j \in Jobs, WriteStatus(j) PROVE JobInv'
  <2>1. exec[j] = "write" /\ target[j] \in Status /\ status' = [status EXCEPT ![j] = target[j]]
    BY <1>5 DEF WriteStatus, JobInv, Targets
  <2>2. CASE target[j] \in Outcome
    <3>1. exec' = [exec EXCEPT ![j] = "ended"] /\ UNCHANGED target
      BY <1>5, <2>2 DEF WriteStatus, AfterWrite, Moves, Outcome
    <3> QED
      BY <2>1, <3>1 DEF JobInv, Typed, Targets, EndsFirst
  <2>3. CASE target[j] \notin Outcome
    <3>1. /\ \E at : exec' = [exec EXCEPT ![j] = at]
          /\ \/ UNCHANGED target
             \/ \E to \in Status : target' = [target EXCEPT ![j] = to]
      BY <1>5 DEF WriteStatus, AfterWrite, Moves, Transitions
    <3>2. Typed' /\ Targets'
      BY <2>1, <3>1 DEF JobInv, Typed, Targets
    <3>3. EndsFirst'
      BY <2>1, <2>3, <3>1 DEF JobInv, Typed, EndsFirst
    <3> QED
      BY <3>2, <3>3 DEF JobInv
  <2> QED
    BY <2>2, <2>3
<1>6. ASSUME NEW j \in Jobs, CancelCheck(j) \/ CancelRead(j) \/ CancelWrite(j) PROVE JobInv'
  <2>1. /\ UNCHANGED <<exec, target>>
        /\ status' = status \/ status' = [status EXCEPT ![j] = "cancelled"]
    BY <1>6 DEF CancelCheck, CancelRead, CancelWrite, Cancels
  <2> QED
    BY <2>1 DEF JobInv, Typed, Targets, EndsFirst, Outcome
<1>7. CASE UNCHANGED jobVars
  BY <1>7 DEF jobVars, JobInv, Typed, Targets, EndsFirst
<1> QED
  BY <1>1, <1>2, <1>3, <1>4, <1>5, <1>6, <1>7 DEF JobNext, ExecStep

LEMMA JobInvHolds == JobSpec => []JobInv
<1>1. JobInit => JobInv
  BY DEF JobInit, JobInv, Typed, Targets, EndsFirst, Outcome, Status, Active, Terminal
<1>2. JobInv /\ [JobNext]_jobVars => JobInv'
  BY JobInvStep
<1> QED
  BY <1>1, <1>2, PTL DEF JobSpec

-----------------------------------------------------------------------------

\* The outcome of a job is final but for a late cancellation: no timer and no
\* second write of transitionStatus brings a completed or a failed job back.
THEOREM OutcomeFinalHolds == JobSpec => OutcomeFinal
<1> DEFINE Final == \A j \in Jobs : status[j] \in {"completed", "failed"} =>
                      status'[j] \in {status[j], "cancelled"}
<1>1. ASSUME JobInv, [JobNext]_jobVars PROVE [Final]_jobVars
  <2> SUFFICES ASSUME JobNext, NEW j \in Jobs, status[j] \in {"completed", "failed"}
               PROVE  status'[j] \in {status[j], "cancelled"}
    BY <1>1
  <2>1. exec[j] = "ended" /\ status[j] # "none"
    BY <1>1 DEF JobInv, EndsFirst, Outcome
  <2>2. ASSUME NEW c \in Clients, FindExisting(c) \/ CreateJob(c)
        PROVE  status'[j] = status[j]
    BY <1>1, <2>1, <2>2 DEF FindExisting, CreateJob, JobInv, Typed
  <2>3. ASSUME NEW k \in Jobs, Execute(k) \/ ExecStep(k)
        PROVE  status'[j] = status[j]
    BY <1>1, <2>1, <2>3 DEF Execute, ExecStep, ReadStatus, WriteStatus, HandlerEnds, TimerFires,
                       JobInv, Typed
  <2>4. ASSUME NEW k \in Jobs, CancelCheck(k) \/ CancelRead(k) \/ CancelWrite(k)
        PROVE  status'[j] \in {status[j], "cancelled"}
    BY <1>1, <2>4 DEF CancelCheck, CancelRead, CancelWrite, JobInv, Typed
  <2> QED
    BY <2>2, <2>3, <2>4 DEF JobNext
<1> QED
  BY <1>1, JobInvHolds, PTL DEF JobSpec, OutcomeFinal

=============================================================================
