----------------------------- MODULE CrawlWorker -----------------------------
(***************************************************************************)
(* The crawl worker processes (scripts/crawl-worker.ts), the execution of  *)
(* a claimed job (CrawlOrchestrator.execute) and the tables they write, on *)
(* top of the statements of CrawlJobTable.                                 *)
(*                                                                         *)
(* A process polls: recover expired leases, claim a batch, run every job   *)
(* of the batch concurrently, poll again when all have ended.  A job runs  *)
(* through the steps of execute(), each of which is a transaction of its   *)
(* own, while a heartbeat timer bumps the row's version under it.  The     *)
(* worker learns the new version when the reply arrives, so a completion   *)
(* sent in between carries an old one.                                     *)
(*                                                                         *)
(* Calls to the database are split into the statement and the reply where  *)
(* the worker's state is used in between: the heartbeat (reply pending in  *)
(* hb) and the completion (version captured in sent).                      *)
(***************************************************************************)
EXTENDS CrawlJobTable

CONSTANTS
  Procs,        \* worker processes the deployment keeps running
  MaxRestarts,  \* bound of the model: crashes and restarts of a process
  BatchSize

ASSUME WorkerAssumption ==
  /\ MaxRestarts \in Nat
  /\ BatchSize \in Nat \ {0}
  /\ Procs \X (0..MaxRestarts) \subseteq Workers

VARIABLES
  inc,       \* incarnation of each process: a restart draws a new worker_id
  loop,      \* where run() is
  stopping,  \* the flag set by stop()
  exec,      \* exec[p][j]: runCandidate for job j in process p
  results,   \* crawl_results: attempt that stored the result of j, 0 if none
  cache      \* crawl_cache: jobs whose result is the cached page of a key

workerVars == <<inc, loop, stopping, exec>>
vars == <<jobs, workerVars, results, cache>>

Me(p) == <<p, inc[p]>>

-----------------------------------------------------------------------------

\* The steps of execute() that a job of a batch is in.
ExecSteps == {"fetch", "store", "cache", "complete", "fail", "stopfail"}

\* claim:   the attempt this execution read, lv: the variable leaseVersion,
\* sent:    the expected version of the completion under way,
\* hb:      the version a heartbeat wrote whose reply is pending, 0 if none,
\* aborted: the AbortController's signal.
Execution == [pc: ExecSteps \cup {"none", "claimed", "done"}, claim: Nat,
              lv: Nat, sent: Nat, hb: Nat, aborted: BOOLEAN]

NoExecution == [pc |-> "none", claim |-> 0, lv |-> 0, sent |-> 0, hb |-> 0,
                aborted |-> FALSE]

TypeOK ==
  /\ TableTypeOK
  /\ inc \in [Procs -> 0..MaxRestarts]
  /\ loop \in [Procs -> {"recover", "claim", "batch", "exited"}]
  /\ stopping \in [Procs -> BOOLEAN]
  /\ exec \in [Procs -> [Jobs -> Execution]]
  /\ results \in [Jobs -> Nat]
  /\ cache \in [Keys -> SUBSET Jobs]

Init ==
  /\ TableInit
  /\ inc = [p \in Procs |-> 0]
  /\ loop = [p \in Procs |-> "recover"]
  /\ stopping = [p \in Procs |-> FALSE]
  /\ exec = [p \in Procs |-> [j \in Jobs |-> NoExecution]]
  /\ results = [j \in Jobs |-> 0]
  /\ cache = [k \in Keys |-> {}]

At(p, j, pc) == exec[p][j].pc = pc

\* The execution of j in p has the fields given and is otherwise unchanged.
Goto(p, j, pc) == exec' = [exec EXCEPT ![p][j].pc = pc]

\* A completion is called with the leaseVersion of this moment.
Send(p, j, pc) ==
  exec' = [exec EXCEPT ![p][j].pc = pc, ![p][j].sent = exec[p][j].lv]

\* The catch block of runCandidate: a stopping worker fails the job it leaves.
Leave(p, j) == IF stopping[p] THEN Send(p, j, "stopfail") ELSE Goto(p, j, "done")

-----------------------------------------------------------------------------
(* The rest of the system: submissions, cancellations and time.            *)

SubmitJob(j) == Submit(j) /\ UNCHANGED <<workerVars, results, cache>>

CancelJob(j) == Cancel(j) /\ UNCHANGED <<workerVars, results, cache>>

LeaseRunsOut(j) == LeaseExpires(j) /\ UNCHANGED <<workerVars, results, cache>>

-----------------------------------------------------------------------------
(* run(): the polling loop.  The stop flag is read only at its top.        *)

\* Mutant of PollRecover: only the start of the process recovers leases.
MutPollNoRecovery(p) ==
  /\ loop[p] = "recover" /\ ~stopping[p]
  /\ loop' = [loop EXCEPT ![p] = "claim"]
  /\ UNCHANGED <<jobs, inc, stopping, exec, results, cache>>

PollRecover(p) ==
  /\ loop[p] = "recover" /\ ~stopping[p]
  /\ RecoverExpired
  /\ loop' = [loop EXCEPT ![p] = "claim"]
  /\ UNCHANGED <<inc, stopping, exec, results, cache>>

\* claim() hands over at most BatchSize rows, and none only if none is queued;
\* every row handed over starts a runCandidate.
PollClaim(p) ==
  /\ loop[p] = "claim"
  /\ \E S \in SUBSET Claimable :
       /\ Cardinality(S) <= BatchSize
       /\ S = {} => Claimable = {}
       /\ Claim(Me(p), S)
       /\ loop' = [loop EXCEPT ![p] = IF S = {} THEN "recover" ELSE "batch"]
       /\ exec' = [exec EXCEPT ![p] =
                     [j \in Jobs |-> IF j \in S
                                     THEN [NoExecution EXCEPT !.pc = "claimed"]
                                     ELSE NoExecution]]
  /\ UNCHANGED <<inc, stopping, results, cache>>

\* Promise.all of the batch.
BatchEnds(p) ==
  /\ loop[p] = "batch"
  /\ \A j \in Jobs : exec[p][j].pc \in {"none", "done"}
  /\ loop' = [loop EXCEPT ![p] = "recover"]
  /\ exec' = [exec EXCEPT ![p] = [j \in Jobs |-> NoExecution]]
  /\ UNCHANGED <<jobs, inc, stopping, results, cache>>

\* stop() on SIGTERM: every execution in the active set is aborted.
Stop(p) ==
  /\ ~stopping[p] /\ inc[p] < MaxRestarts
  /\ stopping' = [stopping EXCEPT ![p] = TRUE]
  /\ exec' = [exec EXCEPT ![p] =
                [j \in Jobs |-> [exec[p][j] EXCEPT
                   !.aborted = @ \/ exec[p][j].pc \notin {"none", "done"}]]]
  /\ UNCHANGED <<jobs, inc, loop, results, cache>>

Exit(p) ==
  /\ loop[p] = "recover" /\ stopping[p]
  /\ loop' = [loop EXCEPT ![p] = "exited"]
  /\ UNCHANGED <<jobs, inc, stopping, exec, results, cache>>

\* The process crashes, or has exited, and its supervisor starts another one:
\* what it held in memory is gone and its worker_id is a new one.
Restart(p) ==
  /\ inc[p] < MaxRestarts
  /\ inc' = [inc EXCEPT ![p] = @ + 1]
  /\ loop' = [loop EXCEPT ![p] = "recover"]
  /\ stopping' = [stopping EXCEPT ![p] = FALSE]
  /\ exec' = [exec EXCEPT ![p] = [j \in Jobs |-> NoExecution]]
  /\ UNCHANGED <<jobs, results, cache>>

-----------------------------------------------------------------------------
(* runCandidate() and execute().                                           *)

\* getById, and the checks on what it returns.
ReadJob(p, j) ==
  /\ At(p, j, "claimed")
  /\ IF jobs[j].worker = Me(p) /\ jobs[j].status = "RUNNING"
     THEN exec' = [exec EXCEPT ![p][j].pc = "fetch",
                               ![p][j].lv = jobs[j].version,
                               ![p][j].claim = jobs[j].attempts]
     ELSE Goto(p, j, "done")
  /\ UNCHANGED <<jobs, inc, loop, stopping, results, cache>>

\* router.execute returns a result, throws, or throws CANCELLED because the
\* signal is aborted.  Nothing is completed for a CANCELLED crawl here.
FetchSucceeds(p, j) ==
  /\ At(p, j, "fetch")
  /\ Goto(p, j, "store")
  /\ UNCHANGED <<jobs, inc, loop, stopping, results, cache>>

FetchFails(p, j) ==
  /\ At(p, j, "fetch")
  /\ Send(p, j, "fail")
  /\ UNCHANGED <<jobs, inc, loop, stopping, results, cache>>

FetchCancelled(p, j) ==
  /\ At(p, j, "fetch") /\ exec[p][j].aborted
  /\ Leave(p, j)
  /\ UNCHANGED <<jobs, inc, loop, stopping, results, cache>>

\* Mutant of StoreResult: an upsert, so that a late attempt overwrites.
MutStoreUpsert(p, j) ==
  /\ At(p, j, "store")
  /\ results' = [results EXCEPT ![j] = exec[p][j].claim]
  /\ Goto(p, j, "cache")
  /\ UNCHANGED <<jobs, inc, loop, stopping, cache>>

\* results.put: a plain INSERT that crawl_results_job_unique refuses when an
\* earlier attempt has stored a result.
StoreResult(p, j) ==
  /\ At(p, j, "store")
  /\ IF results[j] = 0
     THEN /\ results' = [results EXCEPT ![j] = exec[p][j].claim]
          /\ Goto(p, j, "cache")
     ELSE /\ Send(p, j, "fail")
          /\ UNCHANGED results
  /\ UNCHANGED <<jobs, inc, loop, stopping, cache>>

\* cache.put (an upsert); then the completion is called.
CacheResult(p, j) ==
  /\ At(p, j, "cache")
  /\ cache' = [cache EXCEPT ![KeyOf[j]] = {j}]
  /\ Send(p, j, "complete")
  /\ UNCHANGED <<jobs, inc, loop, stopping, results>>

\* completeIfLeaseOwner("SUCCEEDED" or "PARTIAL").  A refusal throws, and the
\* catch block calls completeIfLeaseOwner("FAILED") with a fresh version.
Complete(p, j) ==
  /\ At(p, j, "complete")
  /\ \/ /\ \E s \in {"SUCCEEDED", "PARTIAL"} :
             CompleteIfLeaseOwner(j, Me(p), exec[p][j].sent, s)
        /\ Goto(p, j, "done")
     \/ /\ ~LeaseHeld(j, Me(p), exec[p][j].sent)
        /\ Send(p, j, "fail")
        /\ UNCHANGED jobs
  /\ UNCHANGED <<inc, loop, stopping, results, cache>>

\* Whether completeIfLeaseOwner("FAILED") is accepted or not, execute throws.
Fail(p, j) ==
  /\ At(p, j, "fail")
  /\ \/ CompleteIfLeaseOwner(j, Me(p), exec[p][j].sent, "FAILED")
     \/ ~LeaseHeld(j, Me(p), exec[p][j].sent) /\ UNCHANGED jobs
  /\ Leave(p, j)
  /\ UNCHANGED <<inc, loop, stopping, results, cache>>

\* Mutant of StopFail: a refused completion is tried again.
MutStopFailRetries(p, j) ==
  /\ At(p, j, "stopfail")
  /\ \/ /\ CompleteIfLeaseOwner(j, Me(p), exec[p][j].sent, "FAILED")
        /\ Goto(p, j, "done")
     \/ ~LeaseHeld(j, Me(p), exec[p][j].sent) /\ UNCHANGED <<jobs, exec>>
  /\ UNCHANGED <<inc, loop, stopping, results, cache>>

StopFail(p, j) ==
  /\ At(p, j, "stopfail")
  /\ \/ CompleteIfLeaseOwner(j, Me(p), exec[p][j].sent, "FAILED")
     \/ ~LeaseHeld(j, Me(p), exec[p][j].sent) /\ UNCHANGED jobs
  /\ Goto(p, j, "done")
  /\ UNCHANGED <<inc, loop, stopping, results, cache>>

\* A transaction of the execution is lost to the database: the INSERTs and the
\* completion throw into execute's catch block, the completion made there into
\* runCandidate's.
DbError(p, j) ==
  /\ \/ exec[p][j].pc \in {"store", "cache", "complete"} /\ Send(p, j, "fail")
     \/ At(p, j, "fail") /\ Leave(p, j)
  /\ UNCHANGED <<jobs, inc, loop, stopping, results, cache>>

\* The heartbeat timer, with no heartbeat under way: the UPDATE takes effect
\* and its reply is pending, or it matches no row (or fails) and aborts the
\* execution.
HeartbeatSent(p, j) ==
  /\ exec[p][j].pc \in ExecSteps /\ exec[p][j].hb = 0
  /\ Heartbeat(j, Me(p), exec[p][j].lv)
  /\ exec' = [exec EXCEPT ![p][j].hb = jobs'[j].version]
  /\ UNCHANGED <<inc, loop, stopping, results, cache>>

HeartbeatReply(p, j) ==
  /\ exec[p][j].pc \in ExecSteps /\ exec[p][j].hb # 0
  /\ exec' = [exec EXCEPT ![p][j].lv = exec[p][j].hb, ![p][j].hb = 0]
  /\ UNCHANGED <<jobs, inc, loop, stopping, results, cache>>

HeartbeatFails(p, j) ==
  /\ exec[p][j].pc \in ExecSteps /\ exec[p][j].hb = 0
  /\ ~exec[p][j].aborted
  /\ exec' = [exec EXCEPT ![p][j].aborted = TRUE]
  /\ UNCHANGED <<jobs, inc, loop, stopping, results, cache>>

-----------------------------------------------------------------------------

LoopStep(p) == PollRecover(p) \/ PollClaim(p) \/ BatchEnds(p) \/ Exit(p)

ExecStep(p, j) ==
  \/ ReadJob(p, j) \/ FetchSucceeds(p, j) \/ FetchFails(p, j)
  \/ FetchCancelled(p, j) \/ StoreResult(p, j) \/ CacheResult(p, j)
  \/ Complete(p, j) \/ Fail(p, j) \/ StopFail(p, j) \/ DbError(p, j)

HeartbeatStep(p, j) ==
  HeartbeatSent(p, j) \/ HeartbeatReply(p, j) \/ HeartbeatFails(p, j)

Next ==
  \/ \E j \in Jobs : SubmitJob(j) \/ CancelJob(j) \/ LeaseRunsOut(j)
  \/ \E p \in Procs : LoopStep(p) \/ Stop(p) \/ Restart(p)
  \/ \E p \in Procs, j \in Jobs : ExecStep(p, j) \/ HeartbeatStep(p, j)

Spec == Init /\ [][Next]_vars

\* No process is running, and so renewing, the job it has claimed.
Abandoned(j) ==
  \A p \in Procs : jobs[j].worker = Me(p) => exec[p][j].pc \notin ExecSteps

\* A live process keeps taking the steps of its loop and of its executions, a
\* supervisor replaces one that has exited, and a lease that nobody renews runs
\* out.  That a provider ends its crawl is code for the HTTP provider, which
\* enforces maxDurationMs, and an assumption on Firecrawl's client, whose answer
\* the adapter awaits without a limit of its own.  Nobody has to submit, cancel,
\* stop or crash anything, and no heartbeat has to be sent.
Fairness ==
  /\ \A p \in Procs :
       /\ WF_vars(LoopStep(p))
       /\ WF_vars(loop[p] = "exited" /\ Restart(p))
       /\ \A j \in Jobs : WF_vars(ExecStep(p, j))
  /\ \A j \in Jobs : WF_vars(Abandoned(j) /\ LeaseRunsOut(j))

FairSpec == Spec /\ Fairness

-----------------------------------------------------------------------------

\* A job that reads SUCCEEDED or PARTIAL was completed by the attempt that
\* stored its result: no result of an attempt that lost its lease is ever
\* adopted by a later attempt, and none is overwritten by a late one.
OwnResult ==
  \A j \in Jobs :
    jobs[j].status \in {"SUCCEEDED", "PARTIAL"} => results[j] = jobs[j].attempts

\* A completion changes the row only for the attempt that is running: an
\* execution whose lease expired, and whose job was recovered or claimed again
\* (even by the same process), never ends the later attempt.
OnlyCurrentAttemptCompletes ==
  [][\A p \in Procs, j \in Jobs :
       /\ exec[p][j].pc \in {"complete", "fail", "stopfail"}
       /\ exec'[p][j].pc # exec[p][j].pc
       /\ jobs'[j] # jobs[j]
       => exec[p][j].claim = jobs[j].attempts]_vars

Queue ==
  INSTANCE CrawlLifecycle WITH
    Reopens  <- {},
    status   <- [j \in Jobs |-> jobs[j].status],
    attempts <- [j \in Jobs |-> jobs[j].attempts]

\* The worker processes implement the queue: whatever crashes, expires or is
\* refused, every committed step of a job is a lawful move, no terminal job is
\* reopened and no job is handed out more than max_attempts times.
ImplementsQueue == Queue!Spec

\* Every submitted job reaches a terminal state: neither a crash at any step,
\* nor a lost lease, nor a completion refused by the version guard leaves a
\* job queued or running for ever.
JobsSettle ==
  \A j \in Jobs : Active(j) ~> jobs[j].status \in TerminalStatus

\* A worker told to stop does stop (or is restarted): the batch it is waiting
\* for always ends.
StopEnds ==
  \A p \in Procs : stopping[p] ~> loop[p] = "exited" \/ ~stopping[p]

\* What orchestrator.ts says when it gives up a finished crawl: the completion
\* is refused because "Crawl lease is no longer owned".
RefusedOnlyWhenLeaseLost ==
  \A p \in Procs, j \in Jobs :
    /\ exec[p][j].pc = "complete"
    /\ jobs[j].status = "RUNNING" /\ jobs[j].worker = Me(p) /\ jobs[j].live
    => LeaseHeld(j, Me(p), exec[p][j].sent)

=============================================================================
