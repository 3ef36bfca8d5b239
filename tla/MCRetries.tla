------------------------------ MODULE MCRetries ------------------------------
(* The two executions that retry, which share nothing but the backoff: a      *)
(* behaviour is one of either.                                                *)
(*   crawl  the one of MCHttpCrawl                                            *)
(*   job    two clients with one idempotency key, and so at most two jobs     *)
EXTENDS MCHttpCrawl, JobService

VARIABLE execution   \* the one that is under way

retriesVars == <<execution, crawlVars, jobVars>>

RetriesInit == execution \in {"crawl", "job"} /\ CrawlInit /\ JobInit

RetriesNext ==
  \/ execution = "crawl" /\ CrawlNext /\ UNCHANGED <<execution, jobVars>>
  \/ execution = "job" /\ JobNext /\ UNCHANGED <<execution, crawlVars>>

RetriesSpec ==
  /\ RetriesInit /\ [][RetriesNext]_retriesVars
  /\ WF_crawlVars(execution = "crawl" /\ CrawlStep /\ UNCHANGED <<execution, jobVars>>)
  /\ WF_crawlVars(execution = "crawl" /\ ClockTicks /\ UNCHANGED <<execution, jobVars>>)
  /\ \A j \in Jobs :
       WF_jobVars(execution = "job" /\ ExecStep(j) /\ UNCHANGED <<execution, crawlVars>>)
=============================================================================
