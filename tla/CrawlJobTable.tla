---------------------------- MODULE CrawlJobTable ----------------------------
(***************************************************************************)
(* The crawl_jobs table and the SQL statements that change it: the dedup   *)
(* insert of a submission, the three SECURITY DEFINER dispatcher functions *)
(* (claim, recover, complete), the heartbeat, the cancellation and the     *)
(* retry.  Every statement is atomic (a single UPDATE under a row lock),   *)
(* so each is one action.                                                  *)
(*                                                                         *)
(* TableSpec is the table under its most general client: any worker may    *)
(* issue any statement with any expected version at any time.  What holds  *)
(* of TableSpec therefore holds however the worker processes, the API and  *)
(* their retries interleave.                                               *)
(***************************************************************************)
EXTENDS Integers, FiniteSets

CONSTANTS
  Jobs,         \* identities of crawl_jobs rows
  Keys,         \* deduplication keys (tenant + canonical URL + policy)
  KeyOf,        \* the deduplication key of each job
  Workers,      \* worker_id values
  NoWorker,     \* NULL worker_id
  MaxAttempts,  \* max_attempts of every row
  MaxVersion,   \* bound of the model: no heartbeat on a row this far
  MaxRetries    \* bound of the model: calls of retry() per job

ASSUME JobTableAssumption ==
  /\ KeyOf \in [Jobs -> Keys]
  /\ NoWorker \notin Workers
  /\ MaxAttempts \in Nat \ {0}
  /\ MaxVersion \in Nat /\ MaxRetries \in Nat

VARIABLE jobs   \* jobs[j] is the row of job j

-----------------------------------------------------------------------------

\* The partial unique index idx_crawl_jobs_active_dedup covers these statuses.
ActiveStatus == {"PENDING", "QUEUED", "RUNNING"}

TerminalStatus == {"SUCCEEDED", "PARTIAL", "FAILED", "CANCELLED"}

\* "ABSENT" stands for a row that has not been inserted.
Status == ActiveStatus \cup TerminalStatus \cup {"ABSENT"}

\* live: lease_expires_at is in the future.  retries counts the calls of
\* retry(), a history field no statement reads.
JobRow == [status: Status, worker: Workers \cup {NoWorker}, live: BOOLEAN,
           attempts: Nat, version: Nat, retries: Nat]

NoRow == [status |-> "ABSENT", worker |-> NoWorker, live |-> FALSE,
          attempts |-> 0, version |-> 0, retries |-> 0]

TableTypeOK == jobs \in [Jobs -> JobRow]

TableInit == jobs = [j \in Jobs |-> NoRow]

Active(j) == jobs[j].status \in ActiveStatus

\* No other active row holds the deduplication key of j.
KeyFree(j) == \A i \in Jobs \ {j} : Active(i) => KeyOf[i] # KeyOf[j]

-----------------------------------------------------------------------------

\* A submission that creates its job: INSERT (PENDING, version 1) and the
\* transition to QUEUED (version 2) commit in one transaction of the request.
Submit(j) ==
  /\ jobs[j].status = "ABSENT"
  /\ KeyFree(j)
  /\ jobs' = [jobs EXCEPT ![j].status = "QUEUED", ![j].version = 2]

\* claim_crawl_jobs: the queued rows S go to worker w.  Rows locked by another
\* transaction are skipped, so S need not be all of them.
Claimable == {j \in Jobs : jobs[j].status = "QUEUED"}

ClaimedRow(row, w) ==
  [status |-> "RUNNING", worker |-> w, live |-> TRUE,
   attempts |-> row.attempts + 1, version |-> row.version + 1,
   retries |-> row.retries]

Claim(w, S) ==
  /\ S \subseteq Claimable
  /\ jobs' = [j \in Jobs |-> IF j \in S THEN ClaimedRow(jobs[j], w) ELSE jobs[j]]

Expired(j) == jobs[j].status = "RUNNING" /\ ~jobs[j].live

\* Mutants of RecoveredRow: a version left as it is, and no bound on attempts.
MutRecoveredUnfenced(row) ==
  [status |-> IF row.attempts >= MaxAttempts THEN "FAILED" ELSE "QUEUED",
   worker |-> NoWorker, live |-> FALSE,
   attempts |-> row.attempts, version |-> row.version, retries |-> row.retries]

MutRecoveredForever(row) ==
  [status |-> "QUEUED", worker |-> NoWorker, live |-> FALSE,
   attempts |-> row.attempts, version |-> row.version + 1, retries |-> row.retries]

\* recover_expired_crawl_jobs: every RUNNING row whose lease has run out.
RecoveredRow(row) ==
  [status |-> IF row.attempts >= MaxAttempts THEN "FAILED" ELSE "QUEUED",
   worker |-> NoWorker, live |-> FALSE,
   attempts |-> row.attempts, version |-> row.version + 1,
   retries |-> row.retries]

RecoverExpired ==
  jobs' = [j \in Jobs |-> IF Expired(j) THEN RecoveredRow(jobs[j]) ELSE jobs[j]]

\* Mutant of LeaseHeld: the owner and the version are not compared.
MutLeaseAnyOwner(j, w, v) == jobs[j].status = "RUNNING" /\ jobs[j].live

\* w holds an unexpired lease on j whose version is v: the WHERE clause that
\* the heartbeat and the completion share.
LeaseHeld(j, w, v) ==
  /\ jobs[j].status = "RUNNING"
  /\ jobs[j].worker = w
  /\ jobs[j].live
  /\ jobs[j].version = v

\* CrawlJobRepository.heartbeat.
Heartbeat(j, w, v) ==
  /\ LeaseHeld(j, w, v)
  /\ jobs[j].version < MaxVersion
  /\ jobs' = [jobs EXCEPT ![j].version = @ + 1]

\* complete_crawl_job_if_lease_owner, when it changes the row; it returns
\* false and changes nothing when ~LeaseHeld(j, w, v).
CompleteIfLeaseOwner(j, w, v, next) ==
  /\ LeaseHeld(j, w, v)
  /\ jobs' = [jobs EXCEPT ![j].status = next, ![j].version = @ + 1]

\* CrawlJobRepository.cancel, with the version the request has just read.
Cancel(j) ==
  /\ Active(j)
  /\ jobs' = [jobs EXCEPT ![j].status = "CANCELLED", ![j].version = @ + 1]

\* Mutant of Retry: no unique index stands in the way.
MutRetryUnindexed(j) ==
  /\ jobs[j].status = "FAILED"
  /\ jobs[j].retries < MaxRetries
  /\ jobs' = [jobs EXCEPT ![j].status = "QUEUED", ![j].version = @ + 1,
                          ![j].retries = @ + 1]

\* CrawlJobRepository.retry: a FAILED row is queued again as it stands (its
\* attempts are not reset), unless the unique index refuses it.
Retry(j) ==
  /\ jobs[j].status = "FAILED"
  /\ KeyFree(j)
  /\ jobs[j].retries < MaxRetries
  /\ jobs' = [jobs EXCEPT ![j].status = "QUEUED", ![j].version = @ + 1,
                          ![j].retries = @ + 1]

\* Time passes the lease_expires_at of a running row.
LeaseExpires(j) ==
  /\ jobs[j].status = "RUNNING"
  /\ jobs[j].live
  /\ jobs' = [jobs EXCEPT ![j].live = FALSE]

TableNext ==
  \/ \E j \in Jobs : Submit(j) \/ Cancel(j) \/ Retry(j) \/ LeaseExpires(j)
  \/ \E w \in Workers, S \in SUBSET Jobs : Claim(w, S)
  \/ RecoverExpired
  \/ \E j \in Jobs, w \in Workers :
       \/ Heartbeat(j, w, jobs[j].version)
       \/ \E next \in TerminalStatus :
            CompleteIfLeaseOwner(j, w, jobs[j].version, next)

TableSpec == TableInit /\ [][TableNext]_jobs

-----------------------------------------------------------------------------

\* At any time at most one active job per deduplication key: whatever the
\* order of submissions, recoveries and retries, a page is crawled by one job
\* at a time (idx_crawl_jobs_active_dedup).
OneActivePerKey ==
  \A i, j \in Jobs : i # j /\ Active(i) /\ Active(j) => KeyOf[i] # KeyOf[j]

\* A job is claimed at most max_attempts times, plus once for every retry():
\* no interleaving of claims, expiries and recoveries hands it out more often.
AttemptsBounded ==
  \A j \in Jobs : jobs[j].attempts <= MaxAttempts + jobs[j].retries

\* The version is a fencing token: no statement changes what a row says about
\* status, owner or attempts and leaves its version, so an expected version
\* that still matches proves that nobody else has touched the row.
VersionFences ==
  [][\A j \in Jobs :
       \/ jobs'[j].version > jobs[j].version
       \/ /\ jobs'[j] = [jobs[j] EXCEPT !.live = jobs'[j].live]
          /\ jobs'[j].live => jobs[j].live]_jobs

\* A terminal job stays as it is; only retry() reopens it, and only a FAILED
\* one.  In particular no late completion, heartbeat, cancellation or lease
\* recovery changes the outcome of a finished job.
TerminalIsFinal ==
  [][\A j \in Jobs :
       jobs[j].status \in TerminalStatus =>
         \/ jobs'[j] = jobs[j]
         \/ /\ jobs[j].status = "FAILED"
            /\ jobs'[j].status = "QUEUED"
            /\ jobs'[j].retries = jobs[j].retries + 1]_jobs

Lifecycle ==
  INSTANCE CrawlLifecycle WITH
    Reopens  <- Jobs,
    status   <- [j \in Jobs |-> jobs[j].status],
    attempts <- [j \in Jobs |-> jobs[j].attempts]

\* The statements on rows keep to the domain state machine: the SQL functions
\* bypass assertTransition, yet every step of a row is a move of
\* JOB_TRANSITIONS (or the retry of a FAILED job), a job is requeued only with
\* attempts left, and active jobs never share a deduplication key.
ImplementsLifecycle == Lifecycle!Spec

=============================================================================
