------------------------------- MODULE HttpCrawl -------------------------------
(***************************************************************************)
(* HttpCrawlProvider.execute under the ProviderRouter: a main loop that    *)
(* starts a task for each page of its queue, as many at once as the policy *)
(* allows, and takes their documents as they come; a chain of promises per *)
(* host that spaces its turns; and the robots.txt that all pages of an     *)
(* origin wait for.  A turn leads to a request and its redirects, each     *)
(* behind the validation of its host.                                      *)
(*                                                                         *)
(* An execution ends with the first error of a task.  Nothing stops its    *)
(* other tasks: they go on, detached, while the router waits and starts    *)
(* the next execution, which has queue, chain and robots.txt of its own.   *)
(***************************************************************************)
EXTENDS ProviderRouter, SequencesExt, FiniteSets

CONSTANTS
  Pages,
  Root,            \* request.normalizedUrl
  Hosts,           \* each stands for its robots.txt, too
  HostOf,          \* the host of each page
  LinksOf,         \* the links of each page, in their order
  Disallowed,      \* pages that robots.txt disallows
  MaxPages, MaxDepth, MaxConcurrency,
  MaxRedirects,    \* policy.maxRedirects; 0 unless it follows redirects
  Spacing          \* 1000 / perHostRequestsPerSecond, in ticks of the clock

ASSUME CrawlAssumption ==
  /\ IsFiniteSet(Pages) /\ Root \in Pages /\ Hosts \cap Pages = {} /\ HostOf \in [Pages -> Hosts]
  /\ LinksOf \in [Pages -> Seq(Pages)]
  /\ MaxPages \in Nat \ {0} /\ MaxDepth \in Nat /\ MaxConcurrency \in Nat \ {0}
  /\ MaxRedirects \in Nat /\ Spacing \in Nat \ {0}

Fetches == Pages \cup Hosts
Host(x) == IF x \in Hosts THEN x ELSE HostOf[x]
Execs == 1..Max({MaxTries + Len(ids) - 1 : ids \in Configurations})

VARIABLES
  pending,    \* queue, of each execution
  visited,    \* visited, in the order of insertion
  task,       \* where processEntry is for each page, and the fetch of each
              \* robots.txt
  robotsText, \* what has become of each robots.txt
  line,       \* hostLocks: who waits for whom at each host
  left,       \* what is left of the delay of each waiter
  age,        \* ticks since lastRequestAt of each host, up to Spacing
  redirects,  \* redirects safeFetch has followed for each
  documents   \* the pages whose documents the main loop has taken

crawl == <<pending, visited, task, robotsText, line, left, age, redirects, documents>>
crawlVars == <<routerVars, crawl>>

CrawlInit ==
  /\ RouterInit
  /\ pending = [e \in Execs |-> <<>>] /\ visited = pending
  /\ task = [e \in Execs |-> [x \in Fetches |-> "none"]]
  /\ robotsText = [e \in Execs |-> [h \in Hosts |-> "none"]]
  /\ line = [e \in Execs |-> [h \in Hosts |-> <<>>]]
  /\ left = [e \in Execs |-> [x \in Fetches |-> 0]] /\ redirects = left
  /\ age = [e \in Execs |-> [h \in Hosts |-> Spacing]]
  /\ documents = [e \in Execs |-> {}]

\* The execution the router waits for, if it is one of this provider.
Awaited(e) == stage = "provider" /\ providers[turn] = "internal" /\ e = tries

Working == {"robots", "line", "delay", "validate", "fetch"}
ActiveTasks(e) == {p \in Pages : task[e][p] \in Working}

\* The main loop has a page to start; otherwise it waits for a task.
CanStart(e) ==
  /\ Awaited(e) /\ pending[e] # <<>>
  /\ Cardinality(ActiveTasks(e)) < MaxConcurrency
  /\ Cardinality(documents[e]) + Cardinality(ActiveTasks(e)) < MaxPages

Quiet == \A e \in Execs : ~CanStart(e)

-----------------------------------------------------------------------------
(* The router and its other providers.                                     *)

StartTry ==
  /\ Try
  /\ IF providers[turn] = "internal"
     THEN pending' = [pending EXCEPT ![tries + 1] = <<[page |-> Root, depth |-> 0]>>]
     ELSE UNCHANGED pending
  /\ UNCHANGED <<visited, task, robotsText, line, left, age, redirects, documents>>

OtherProvider ==
  /\ stage = "provider" /\ providers[turn] # "internal"
  /\ \/ Answers("result") \/ Answers("failed") \/ Transient
     \/ aborted /\ Answers("cancelled")
  /\ UNCHANGED crawl

RouterStep == (Refused \/ Waited) /\ UNCHANGED crawl

-----------------------------------------------------------------------------
(* The main loop.  What it does between two awaits is not interrupted.     *)

\* What an error of a task means to the router, when it is awaited.
Rejects(e, error) ==
  IF ~Awaited(e) THEN UNCHANGED routerVars
  ELSE IF error = "transient" THEN Transient ELSE Answers(error)

\* A page taken from the queue is skipped if it has been visited.  Its task
\* waits for robots.txt, which the first one asks for.
StartPage(e) ==
  LET p == Head(pending[e]).page h == HostOf[p] IN
  /\ CanStart(e)
  /\ pending' = [pending EXCEPT ![e] = Tail(@)]
  /\ IF late
     THEN Transient /\ UNCHANGED <<visited, task, robotsText, line>>
     ELSE /\ UNCHANGED routerVars
          /\ IF \E i \in DOMAIN visited[e] : visited[e][i].page = p
             THEN UNCHANGED <<visited, task, robotsText, line>>
             ELSE /\ visited' = [visited EXCEPT ![e] = Append(@, Head(pending[e]))]
                  /\ CASE robotsText[e][h] = "none" ->
                            /\ task' = [task EXCEPT ![e][p] = "robots", ![e][h] = "line"]
                            /\ robotsText' = [robotsText EXCEPT ![e][h] = "asked"]
                            /\ line' = [line EXCEPT ![e][h] = Append(@, h)]
                       [] robotsText[e][h] = "asked" ->
                            /\ task' = [task EXCEPT ![e][p] = "robots"]
                            /\ UNCHANGED <<robotsText, line>>
                       [] robotsText[e][h] = "got" /\ p \in Disallowed ->
                            /\ task' = [task EXCEPT ![e][p] = "ended"]
                            /\ UNCHANGED <<robotsText, line>>
                       [] OTHER ->
                            /\ task' = [task EXCEPT ![e][p] = "line"]
                            /\ line' = [line EXCEPT ![e][h] = Append(@, p)]
                            /\ UNCHANGED robotsText
  /\ UNCHANGED <<left, age, redirects, documents>>

\* No task is active, and none can be started.
Returns(e) ==
  /\ Awaited(e) /\ Quiet /\ ActiveTasks(e) = {}
  /\ Answers("result")
  /\ UNCHANGED crawl

-----------------------------------------------------------------------------
(* requestHost.                                                            *)

\* Mutant of MyTurn: nobody waits for the one before.
MutMyTurn(e, x) == TRUE

\* The promise of the one before has been resolved.
MyTurn(e, x) == line[e][Host(x)] # <<>> /\ x = Head(line[e][Host(x)])

\* The one whose delay ends is the first of the line; with a fetch it has left.
Leaves(e, x) ==
  line' = [line EXCEPT ![e][Host(x)] = IF task[e][x] = "delay" THEN Tail(@) ELSE @]

Measure(e, x) ==
  /\ Quiet /\ task[e][x] = "line" /\ MyTurn(e, x)
  /\ left' = [left EXCEPT ![e][x] = Spacing - age[e][Host(x)]]
  /\ task' = [task EXCEPT ![e][x] = "delay"]
  /\ UNCHANGED <<routerVars, pending, visited, robotsText, line, age, redirects, documents>>

\* The delay is over: lastRequestAt is set and the next waiter may go on, while
\* safeFetch goes on to the host.
TakesTurn(e, x) ==
  /\ Quiet /\ task[e][x] = "delay" /\ left[e][x] = 0 /\ ~aborted
  /\ age' = [age EXCEPT ![e][Host(x)] = 0]
  /\ task' = [task EXCEPT ![e][x] = "validate"]
  /\ Leaves(e, x)
  /\ UNCHANGED <<routerVars, pending, visited, robotsText, left, redirects, documents>>

-----------------------------------------------------------------------------
(* safeFetch.                                                              *)

\* The host has been resolved and found valid: the request is sent.
Request(e, x) ==
  /\ Quiet /\ task[e][x] = "validate" /\ ~aborted
  /\ task' = [task EXCEPT ![e][x] = "fetch"]
  /\ UNCHANGED <<routerVars, pending, visited, robotsText, line, left, age, redirects, documents>>

\* The answer leads to another page, of any host, which is asked for at once.
Redirect(e, x) ==
  /\ Quiet /\ task[e][x] = "fetch" /\ ~aborted /\ redirects[e][x] < MaxRedirects
  /\ task' = [task EXCEPT ![e][x] = "validate"]
  /\ redirects' = [redirects EXCEPT ![e][x] = @ + 1]
  /\ UNCHANGED <<routerVars, pending, visited, robotsText, line, left, age, documents>>

-----------------------------------------------------------------------------
(* The answers.                                                            *)

\* The entries for the links of a page.
Followed(e, entry) ==
  IF entry.depth < MaxDepth
  THEN [i \in DOMAIN LinksOf[entry.page] |->
          [page |-> LinksOf[entry.page][i], depth |-> entry.depth + 1]]
  ELSE <<>>

\* The links that fit below the limit, which counts every entry of the queue.
Room(e) ==
  LET taken == Len(pending[e]) + Cardinality(documents[e]) + Cardinality(ActiveTasks(e))
  IN  IF taken >= MaxPages THEN 0 ELSE MaxPages - taken

Fitting(e, entry) ==
  LET all == Followed(e, entry)
  IN  SubSeq(all, 1, IF Len(all) < Room(e) THEN Len(all) ELSE Room(e))

EntryOf(e, p) == CHOOSE entry \in Range(visited[e]) : entry.page = p

PageFetched(e, p) ==
  /\ Quiet /\ p \in Pages /\ task[e][p] = "fetch" /\ ~aborted
  /\ task' = [task EXCEPT ![e][p] = "ended"]
  /\ IF Awaited(e)
     THEN /\ documents' = [documents EXCEPT ![e] = @ \cup {p}]
          /\ pending' = [pending EXCEPT ![e] = @ \o Fitting(e, EntryOf(e, p))]
     ELSE UNCHANGED <<documents, pending>>
  /\ redirects' = [redirects EXCEPT ![e][p] = 0]
  /\ UNCHANGED <<routerVars, visited, robotsText, line, left, age>>

\* The pages that wait for the robots.txt of host h and may be fetched,
Ready(e, h) ==
  {p \in Pages \ Disallowed : HostOf[p] = h /\ task[e][p] = "robots"}

\* and the order they came in.
Came(e, p) == CHOOSE i \in DOMAIN visited[e] : visited[e][i].page = p
InOrder(e, S) ==
  {q \in [1..Cardinality(S) -> S] :
     \A i, j \in DOMAIN q : i < j => Came(e, q[i]) < Came(e, q[j])}

\* All of them go on.
RobotsFetched(e, h) ==
  /\ Quiet /\ task[e][h] = "fetch" /\ ~aborted
  /\ robotsText' = [robotsText EXCEPT ![e][h] = "got"]
  /\ \E allowed \in InOrder(e, Ready(e, h)) : line' = [line EXCEPT ![e][h] = @ \o allowed]
  /\ task' = [task EXCEPT ![e] = [x \in Fetches |->
       IF x = h THEN "ended"
       ELSE IF x \in Hosts \/ @[x] # "robots" \/ Host(x) # h THEN @[x]
       ELSE IF x \in Disallowed THEN "ended" ELSE "line"]]
  /\ redirects' = [redirects EXCEPT ![e][h] = 0]
  /\ UNCHANGED <<routerVars, pending, visited, left, age, documents>>

\* What a task can fail of: a validation that fails, a request that fails or that
\* the signal ends (the response may then end with an error of the network), or a
\* delay that the signal ends.
Errors(e, x) ==
  CASE task[e][x] = "validate" ->
         {"transient", "failed"} \cup (IF aborted THEN {"cancelled"} ELSE {})
    [] task[e][x] = "fetch" -> {"transient", IF aborted THEN "cancelled" ELSE "failed"}
    [] task[e][x] = "delay" /\ aborted -> {"cancelled"}
    [] OTHER -> {}

\* Mutant of TaskFails: the promise of a waiter whose delay ends in an error is
\* not resolved.
MutTaskFails(e, x) ==
  /\ Quiet
  /\ \E error \in Errors(e, x) : Rejects(e, error)
  /\ task' = [task EXCEPT ![e] = [y \in Fetches |->
       IF y = x \/ (task[e][y] = "robots" /\ HostOf[y] = x) THEN "ended" ELSE @[y]]]
  /\ redirects' = [redirects EXCEPT ![e][x] = 0]
  /\ UNCHANGED <<pending, visited, robotsText, line, left, age, documents>>

\* The pages that wait for robots.txt fail with it.
TaskFails(e, x) ==
  /\ Quiet
  /\ \E error \in Errors(e, x) : Rejects(e, error)
  /\ task' = [task EXCEPT ![e] = [y \in Fetches |->
       IF y = x \/ (task[e][y] = "robots" /\ HostOf[y] = x) THEN "ended" ELSE @[y]]]
  /\ redirects' = [redirects EXCEPT ![e][x] = 0]
  /\ Leaves(e, x)
  /\ UNCHANGED <<pending, visited, robotsText, left, age, documents>>

\* A tick of the clock.
ClockTicks ==
  /\ \E e \in Execs : \/ \E h \in Hosts : age[e][h] < Spacing
                       \/ \E x \in Fetches : left[e][x] > 0
  /\ age' = [e \in Execs |-> [h \in Hosts |->
                IF age[e][h] < Spacing THEN age[e][h] + 1 ELSE Spacing]]
  /\ left' = [e \in Execs |-> [x \in Fetches |-> IF left[e][x] > 0 THEN left[e][x] - 1 ELSE 0]]
  /\ UNCHANGED <<routerVars, pending, visited, task, robotsText, line, redirects, documents>>

-----------------------------------------------------------------------------

TaskStep(e, x) ==
  \/ Measure(e, x) \/ TakesTurn(e, x) \/ Request(e, x) \/ Redirect(e, x)
  \/ PageFetched(e, x) \/ TaskFails(e, x)

CrawlStep ==
  \/ StartTry \/ OtherProvider \/ RouterStep
  \/ \E e \in Execs : StartPage(e) \/ Returns(e) \/ \E h \in Hosts : RobotsFetched(e, h)
  \/ \E e \in Execs, x \in Fetches : TaskStep(e, x)

CrawlNext ==
  \/ CrawlStep \/ ClockTicks
  \/ Quiet /\ (Abort \/ Expires) /\ UNCHANGED crawl

CrawlSpec == CrawlInit /\ [][CrawlNext]_crawlVars

\* Promises are settled, timers fire, and a request ends by its timeouts.
FairCrawlSpec == CrawlSpec /\ WF_crawlVars(CrawlStep) /\ WF_crawlVars(ClockTicks)

-----------------------------------------------------------------------------

Turns(e, x) == task[e][x] = "delay" /\ task'[e][x] = "validate"

\* The turns of one execution at a host are a full spacing apart, however its
\* tasks, their delays and failures interleave: whoever reads lastRequestAt is
\* the next to set it.  The requests may still come closer, as validations take
\* their time and redirects wait for no turn.
TurnsAreSpaced ==
  [][\A e \in Execs, x \in Fetches : Turns(e, x) => age[e][Host(x)] = Spacing]_crawlVars

\* Every crawl that has begun comes to an end, and so does every task of it: no
\* failure and no abort leaves the router without an answer, or a waiter in the
\* chain of a host whose predecessor never resolves its promise.
CrawlEnds ==
  tries > 0 ~> (Settled /\ \A e \in Execs, x \in Fetches : task[e][x] \notin Working)

=============================================================================
