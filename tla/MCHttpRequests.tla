--------------------------- MODULE MCHttpRequests ---------------------------
(* The crawl of MCHttpCrawl, without redirects, with a clock that is set by   *)
(* each request.                                                              *)
EXTENDS MCHttpCrawl

VARIABLE since   \* history: ticks since the last request of each execution to
                 \* each host, up to Spacing

requestVars == <<crawlVars, since>>

\* A request of a task of execution e is sent to host h.
Asks(e, h) ==
  \E x \in Fetches : Host(x) = h /\ task[e][x] = "validate" /\ task'[e][x] = "fetch"

RequestsInit == CrawlInit /\ since = [e \in Execs |-> [h \in Hosts |-> Spacing]]

RequestsStep ==
  /\ CrawlStep \/ (Quiet /\ (Abort \/ Expires) /\ UNCHANGED crawl)
  /\ since' = [e \in Execs |-> [h \in Hosts |-> IF Asks(e, h) THEN 0 ELSE since[e][h]]]

RequestsTick ==
  /\ ClockTicks \/ UNCHANGED crawlVars
  /\ since' = [e \in Execs |-> [h \in Hosts |->
                 IF since[e][h] < Spacing THEN since[e][h] + 1 ELSE Spacing]]

RequestsSpec == RequestsInit /\ [][RequestsStep \/ RequestsTick]_requestVars

-----------------------------------------------------------------------------

\* What CRAWL_ACQUISITION.md says of the internal provider, that it "serializes
\* requests per host to enforce perHostRequestsPerSecond", across the executions
\* of a crawl: a request of one is a full spacing behind those of the others.
HostIsSpaced ==
  [][\A e \in Execs, h \in Hosts :
       Asks(e, h) => \A f \in Execs \ {e} : since[f][h] = Spacing]_requestVars
=============================================================================
