------------------------- MODULE CrawlWorker_proofs -------------------------
(***************************************************************************)
(* The worker processes as clients of the crawl_jobs table, for every      *)
(* number of processes, jobs, attempts and restarts: what they do to the   *)
(* table is what TableSpec allows, and results and completions belong to   *)
(* the attempt that is running.                                            *)
(***************************************************************************)
EXTENDS CrawlWorker, CrawlJobTable_proofs

\* The statements that the worker model issues: all but retry().
WorkerStatement ==
  \/ \E j \in Jobs : Submit(j) \/ Cancel(j) \/ LeaseExpires(j)
  \/ \E w \in Workers, S \in SUBSET Jobs : Claim(w, S)
  \/ RecoverExpired
  \/ \E j \in Jobs, w \in Workers :
       \/ Heartbeat(j, w, jobs[j].version)
       \/ \E next \in TerminalStatus :
            CompleteIfLeaseOwner(j, w, jobs[j].version, next)

\* A process acts under a worker_id of its own incarnation.
IncOK == inc \in [Procs -> 0..MaxRestarts]

LEMMA MeIsWorker == ASSUME IncOK, NEW p \in Procs PROVE Me(p) \in Workers
  BY WorkerAssumption DEF IncOK, Me

LEMMA IncOKHolds == Spec => []IncOK
<1>1. Init => IncOK
  BY WorkerAssumption DEF Init, IncOK
<1>2. IncOK /\ [Next]_vars => IncOK'
  <2> SUFFICES ASSUME IncOK, [Next]_vars PROVE IncOK'
    OBVIOUS
  <2>1. ASSUME NEW p \in Procs, Restart(p) PROVE IncOK'
    BY <2>1, WorkerAssumption DEF IncOK, Restart
  <2>2. ASSUME UNCHANGED inc PROVE IncOK'
    BY <2>2 DEF IncOK
  <2>3. ASSUME NEW j \in Jobs, SubmitJob(j) \/ CancelJob(j) \/ LeaseRunsOut(j)
        PROVE  IncOK'
    BY <2>2, <2>3 DEF SubmitJob, CancelJob, LeaseRunsOut, workerVars
  <2>4. ASSUME NEW p \in Procs, LoopStep(p) \/ Stop(p) PROVE IncOK'
    BY <2>2, <2>4 DEF LoopStep, PollRecover, PollClaim, BatchEnds, Exit, Stop
  <2>5. ASSUME NEW p \in Procs, NEW j \in Jobs, ExecStep(p, j) PROVE IncOK'
    BY <2>2, <2>5 DEF ExecStep, ReadJob, FetchSucceeds, FetchFails, FetchCancelled,
         StoreResult, CacheResult, Complete, Fail, StopFail, DbError
  <2>6. ASSUME NEW p \in Procs, NEW j \in Jobs, HeartbeatStep(p, j) PROVE IncOK'
    BY <2>2, <2>6 DEF HeartbeatStep, HeartbeatSent, HeartbeatReply, HeartbeatFails
  <2>7. CASE UNCHANGED vars
    BY <2>2, <2>7 DEF vars, workerVars
  <2> QED
    BY <2>1, <2>3, <2>4, <2>5, <2>6, <2>7 DEF Next
<1> QED
  BY <1>1, <1>2, PTL DEF Spec

-----------------------------------------------------------------------------

\* Each step of the workers is one statement on the table, or none.
LEMMA StepIsStatement ==
  ASSUME IncOK, [Next]_vars PROVE WorkerStatement \/ UNCHANGED jobs
<1> USE DEF WorkerStatement
<1>1. ASSUME NEW j \in Jobs, SubmitJob(j) \/ CancelJob(j) \/ LeaseRunsOut(j)
      PROVE  WorkerStatement
  BY <1>1 DEF SubmitJob, CancelJob, LeaseRunsOut
<1>2. ASSUME NEW p \in Procs, LoopStep(p) PROVE WorkerStatement \/ UNCHANGED jobs
  <2>1. CASE PollRecover(p)
    BY <2>1 DEF PollRecover
  <2>2. CASE PollClaim(p)
    <3>1. PICK S \in SUBSET Claimable : Claim(Me(p), S)
      BY <2>2 DEF PollClaim
    <3>2. S \in SUBSET Jobs
      BY DEF Claimable
    <3> QED
      BY <3>1, <3>2, MeIsWorker
  <2>3. CASE BatchEnds(p) \/ Exit(p)
    BY <2>3 DEF BatchEnds, Exit
  <2> QED
    BY <1>2, <2>1, <2>2, <2>3 DEF LoopStep
<1>3. ASSUME NEW p \in Procs, Stop(p) \/ Restart(p) PROVE UNCHANGED jobs
  BY <1>3 DEF Stop, Restart
\* The WHERE clause compares the version, so whatever a worker sends is the
\* row's own.
<1>4. ASSUME NEW p \in Procs, NEW j \in Jobs, NEW v, NEW next \in TerminalStatus,
             CompleteIfLeaseOwner(j, Me(p), v, next)
      PROVE  WorkerStatement
  <2>1. v = jobs[j].version
    BY <1>4 DEF CompleteIfLeaseOwner, LeaseHeld
  <2> QED
    BY <1>4, <2>1, MeIsWorker
<1>5. ASSUME NEW p \in Procs, NEW j \in Jobs, ExecStep(p, j)
      PROVE  WorkerStatement \/ UNCHANGED jobs
  <2>1. CASE Complete(p, j)
    BY <1>4, <2>1 DEF Complete, TerminalStatus
  <2>2. CASE Fail(p, j)
    BY <1>4, <2>2 DEF Fail, TerminalStatus
  <2>3. CASE StopFail(p, j)
    BY <1>4, <2>3 DEF StopFail, TerminalStatus
  <2>4. CASE ~(Complete(p, j) \/ Fail(p, j) \/ StopFail(p, j))
    BY <1>5, <2>4 DEF ExecStep, ReadJob, FetchSucceeds, FetchFails, FetchCancelled,
         StoreResult, CacheResult, DbError
  <2> QED
    BY <2>1, <2>2, <2>3, <2>4
<1>6. ASSUME NEW p \in Procs, NEW j \in Jobs, HeartbeatStep(p, j)
      PROVE  WorkerStatement \/ UNCHANGED jobs
  <2>1. CASE HeartbeatSent(p, j)
    <3>1. Heartbeat(j, Me(p), exec[p][j].lv)
      BY <2>1 DEF HeartbeatSent
    <3>2. exec[p][j].lv = jobs[j].version
      BY <3>1 DEF Heartbeat, LeaseHeld
    <3> QED
      BY <3>1, <3>2, MeIsWorker
  <2>2. CASE HeartbeatReply(p, j) \/ HeartbeatFails(p, j)
    BY <2>2 DEF HeartbeatReply, HeartbeatFails
  <2> QED
    BY <1>6, <2>1, <2>2 DEF HeartbeatStep
<1>7. CASE UNCHANGED vars
  BY <1>7 DEF vars
<1> QED
  BY <1>1, <1>2, <1>3, <1>5, <1>6, <1>7 DEF Next

\* The worker processes are a client of the table: whatever is proved of
\* TableSpec holds while they poll, crash, stop and race their own heartbeats.
THEOREM WorkersUseTable == Spec => TableSpec
<1>1. Init => TableInit
  BY DEF Init
<1>2. WorkerStatement => TableNext
  BY DEF WorkerStatement, TableNext
<1>3. IncOK /\ [Next]_vars => [TableNext]_jobs
  BY <1>2, StepIsStatement
<1> QED
  BY <1>1, <1>3, IncOKHolds, PTL DEF Spec, TableSpec

-----------------------------------------------------------------------------

\* Without retry() a finished job stays finished.
THEOREM ImplementsQueueHolds == Spec => ImplementsQueue
<1> DEFINE ls == [j \in Jobs |-> jobs[j].status]
           la == [j \in Jobs |-> jobs[j].attempts]
<1>1. TableInit => Queue!Init
  BY DEF TableInit, NoRow, Queue!Init
<1>2. ASSUME TableTypeOK, WorkerStatement, NEW i \in Jobs
      PROVE  jobs'[i].retries = jobs[i].retries
  <2> USE <1>2 DEF TableTypeOK, JobRow
  <2> DEFINE Kept(j) == jobs'[j].retries = jobs[j].retries
  <2>1. ASSUME NEW j \in Jobs, Submit(j) \/ Cancel(j) \/ LeaseExpires(j) PROVE Kept(i)
    <3>1. Submit(j) => Kept(j)
      BY DEF Submit
    <3>2. Cancel(j) => Kept(j)
      BY DEF Cancel
    <3>3. LeaseExpires(j) => Kept(j)
      BY DEF LeaseExpires
    <3>4. i # j => jobs'[i] = jobs[i]
      BY <2>1 DEF Submit, Cancel, LeaseExpires
    <3> QED
      BY <2>1, <3>1, <3>2, <3>3, <3>4
  <2>2. ASSUME NEW w \in Workers, NEW S \in SUBSET Jobs, Claim(w, S)
        PROVE  Kept(i)
    BY <2>2 DEF Claim, ClaimedRow
  <2>3. ASSUME RecoverExpired PROVE Kept(i)
    BY <2>3 DEF RecoverExpired, RecoveredRow
  <2>4. ASSUME NEW j \in Jobs, NEW w \in Workers, NEW v, Heartbeat(j, w, v)
        PROVE  Kept(i)
    BY <2>4 DEF Heartbeat
  <2>5. ASSUME NEW j \in Jobs, NEW w \in Workers, NEW v, NEW next \in TerminalStatus,
               CompleteIfLeaseOwner(j, w, v, next)
        PROVE  Kept(i)
    <3>1. Kept(j)
      BY <2>5 DEF CompleteIfLeaseOwner
    <3>2. i # j => jobs'[i] = jobs[i]
      BY <2>5 DEF CompleteIfLeaseOwner
    <3> QED
      BY <3>1, <3>2
  <2> QED
    BY <2>1, <2>2, <2>3, <2>4, <2>5 DEF WorkerStatement
<1>3. TableTypeOK /\ IncOK /\ OneActivePerKey' /\ [Next]_vars => [Queue!Next]_<<ls, la>>
  <2>1. CASE UNCHANGED jobs
    BY <2>1
  <2>2. ASSUME TableTypeOK, OneActivePerKey', WorkerStatement PROVE Queue!Next
    <3>0. TableNext
      BY <2>2 DEF WorkerStatement, TableNext
    <3>1. \A j \in Jobs : Queue!Move(j)
      <4> SUFFICES ASSUME NEW j \in Jobs PROVE Queue!Move(j)
        OBVIOUS
      <4>1. LawfulMove(jobs[j], jobs'[j])
        BY <2>2, <3>0, StatementsMoveLawfully
      <4>2. jobs'[j].retries # jobs[j].retries + 1
        <5>1. jobs[j].retries \in Nat
          BY <2>2 DEF TableTypeOK, JobRow
        <5> QED
          BY <5>1, <1>2, <2>2
      <4> QED
        BY <4>1, <4>2 DEF LawfulMove, Queue!Move, Lifecycle!JobTransitions,
                          Queue!JobTransitions
    <3>2. Queue!ExclusiveKeys'
      BY <2>2 DEF OneActivePerKey, Active, ActiveStatus, Queue!ExclusiveKeys,
                  Queue!ActiveStates
    <3> QED
      BY <3>1, <3>2 DEF Queue!Next
  <2> QED
    BY <2>1, <2>2, StepIsStatement
<1>4. TableSpec => []TableTypeOK /\ []OneActivePerKey
  BY TableTypeCorrect, OneActivePerKeyHolds
<1> QED
  BY <1>1, <1>3, <1>4, WorkersUseTable, IncOKHolds, PTL
  DEF Spec, Init, ImplementsQueue, Queue!Spec

-----------------------------------------------------------------------------
(* How a step changes the executions.                                      *)

ExecOK == exec \in [Procs -> [Jobs -> Execution]]

\* e is what a step makes of the execution of j in p; the others stay.
ExecSet(p, j, e) ==
  /\ exec'[p][j] = e
  /\ \A q \in Procs, i \in Jobs : <<q, i>> # <<p, j>> => exec'[q][i] = exec[q][i]
  /\ exec' = [q \in Procs |-> [i \in Jobs |-> exec'[q][i]]]

LEMMA GotoSets ==
  ASSUME ExecOK, NEW p \in Procs, NEW j \in Jobs, NEW pc, Goto(p, j, pc)
  PROVE  ExecSet(p, j, [exec[p][j] EXCEPT !.pc = pc])
  BY DEF ExecOK, Goto, ExecSet

LEMMA SendSets ==
  ASSUME ExecOK, NEW p \in Procs, NEW j \in Jobs, NEW pc, Send(p, j, pc)
  PROVE  ExecSet(p, j, [exec[p][j] EXCEPT !.pc = pc, !.sent = exec[p][j].lv])
  BY DEF ExecOK, Send, ExecSet

LEMMA ReadSets ==
  ASSUME ExecOK, NEW p \in Procs, NEW j \in Jobs, NEW v, NEW c,
         exec' = [exec EXCEPT ![p][j].pc = "fetch", ![p][j].lv = v, ![p][j].claim = c]
  PROVE  ExecSet(p, j, [exec[p][j] EXCEPT !.pc = "fetch", !.lv = v, !.claim = c])
  BY DEF ExecOK, ExecSet

LEMMA SetKeepsType ==
  ASSUME ExecOK, NEW p \in Procs, NEW j \in Jobs, NEW e \in Execution, ExecSet(p, j, e)
  PROVE  ExecOK'
  BY DEF ExecOK, ExecSet

\* The read that begins an execution takes version and attempt from the row.
Reads(x, e, j) ==
  /\ x.pc = "claimed" /\ e.pc = "fetch" /\ jobs[j].status = "RUNNING"
  /\ e.lv = jobs[j].version /\ e.claim = jobs[j].attempts
  /\ e.sent = x.sent /\ e.hb = x.hb
  /\ UNCHANGED <<jobs, results>>

\* Later steps pass the versions along, from hb to lv and from lv to sent.
Passes(x, e, j) ==
  /\ x.pc \in ExecSteps \/ e.pc = "done"
  /\ x.pc \notin {"none", "done"}
  /\ e.pc \in ExecSteps \cup {"done"}
  /\ e.claim = x.claim
  /\ e.lv \in {x.lv, x.hb} /\ e.sent \in {x.sent, x.lv} /\ e.hb \in {x.hb, 0}
  /\ e.pc = "cache" /\ x.pc # "cache" =>
       results[j] = 0 /\ results' = [results EXCEPT ![j] = x.claim]
  /\ e.pc = "complete" /\ x.pc # "complete" => x.pc = "cache"
  /\ results' # results => e.pc = "cache" /\ x.pc = "store"

\* A heartbeat writes a new version, which only the current attempt can.
Beats(x, e, j) ==
  /\ x.pc \in ExecSteps /\ x.lv = jobs[j].version
  /\ e = [x EXCEPT !.hb = jobs'[j].version]
  /\ jobs'[j].attempts = jobs[j].attempts
  /\ UNCHANGED results

LEMMA ExecutionSteps ==
  ASSUME TableTypeOK, TableTypeOK', ExecOK, NEW p \in Procs, NEW j \in Jobs,
         ExecStep(p, j) \/ HeartbeatStep(p, j)
  PROVE  \E e \in Execution :
           /\ ExecSet(p, j, e)
           /\ \/ Reads(exec[p][j], e, j)
              \/ Passes(exec[p][j], e, j)
              \/ Beats(exec[p][j], e, j)
<1> DEFINE x == exec[p][j]
<1> USE DEF ExecSteps
<1>1. x \in Execution
  BY DEF ExecOK
<1>2. /\ jobs[j].version \in Nat /\ jobs[j].attempts \in Nat
      /\ jobs'[j].version \in Nat
  BY DEF TableTypeOK, JobRow
\* Steps that go to another line, without and with a completion to send.
<1>3. ASSUME NEW pc \in ExecSteps \cup {"done"}, Goto(p, j, pc),
             Passes(x, [x EXCEPT !.pc = pc], j)
      PROVE  \E e \in Execution : ExecSet(p, j, e) /\ Passes(x, e, j)
  <2>1. [x EXCEPT !.pc = pc] \in Execution
    BY <1>1 DEF Execution
  <2> QED
    BY <1>3, <2>1, GotoSets
<1>4. ASSUME NEW pc \in ExecSteps \cup {"done"}, Send(p, j, pc),
             Passes(x, [x EXCEPT !.pc = pc, !.sent = x.lv], j)
      PROVE  \E e \in Execution : ExecSet(p, j, e) /\ Passes(x, e, j)
  <2>1. [x EXCEPT !.pc = pc, !.sent = x.lv] \in Execution
    BY <1>1 DEF Execution
  <2> QED
    BY <1>4, <2>1, SendSets
<1>5. CASE ReadJob(p, j)
  <2>1. CASE jobs[j].worker = Me(p) /\ jobs[j].status = "RUNNING"
    <3> DEFINE e == [x EXCEPT !.pc = "fetch", !.lv = jobs[j].version,
                              !.claim = jobs[j].attempts]
    <3>1. e \in Execution
      BY <1>1, <1>2 DEF Execution
    <3>2. ExecSet(p, j, e)
      BY <1>5, <2>1, ReadSets DEF ReadJob
    <3>3. Reads(x, e, j)
      BY <1>1, <1>5, <2>1 DEF ReadJob, Reads, At, Execution
    <3> QED
      BY <3>1, <3>2, <3>3
  <2>2. CASE ~(jobs[j].worker = Me(p) /\ jobs[j].status = "RUNNING")
    BY <1>1, <1>3, <1>5, <2>2 DEF ReadJob, Passes, At, Execution
  <2> QED
    BY <2>1, <2>2
<1>6. CASE FetchSucceeds(p, j)
  BY <1>1, <1>3, <1>6 DEF FetchSucceeds, Passes, At, Execution
<1>7. CASE FetchFails(p, j)
  BY <1>1, <1>4, <1>7 DEF FetchFails, Passes, At, Execution
<1>8. CASE FetchCancelled(p, j)
  BY <1>1, <1>3, <1>4, <1>8 DEF FetchCancelled, Leave, Passes, At, Execution
<1>9. CASE StoreResult(p, j)
  BY <1>1, <1>3, <1>4, <1>9 DEF StoreResult, Passes, At, Execution
<1>10. CASE CacheResult(p, j)
  BY <1>1, <1>4, <1>10 DEF CacheResult, Passes, At, Execution
<1>11. CASE Complete(p, j)
  BY <1>1, <1>3, <1>4, <1>11 DEF Complete, Passes, At, Execution
<1>12. CASE Fail(p, j)
  BY <1>1, <1>3, <1>4, <1>12 DEF Fail, Leave, Passes, At, Execution
<1>13. CASE StopFail(p, j)
  BY <1>1, <1>3, <1>13 DEF StopFail, Passes, At, Execution
<1>14. CASE DbError(p, j)
  BY <1>1, <1>3, <1>4, <1>14 DEF DbError, Leave, Passes, At, Execution
<1>15. CASE HeartbeatSent(p, j)
  <2> DEFINE e == [x EXCEPT !.hb = jobs'[j].version]
  <2>1. e \in Execution
    BY <1>1, <1>2 DEF Execution
  <2>2. ExecSet(p, j, e)
    BY <1>15 DEF HeartbeatSent, ExecOK, ExecSet
  <2>3. Beats(x, e, j)
    BY <1>15 DEF HeartbeatSent, Heartbeat, LeaseHeld, Beats, TableTypeOK, JobRow
  <2> QED
    BY <2>1, <2>2, <2>3
<1>16. CASE HeartbeatReply(p, j)
  <2> DEFINE e == [x EXCEPT !.lv = x.hb, !.hb = 0]
  <2>1. e \in Execution
    BY <1>1 DEF Execution
  <2>2. ExecSet(p, j, e)
    BY <1>16 DEF HeartbeatReply, ExecOK, ExecSet
  <2>3. Passes(x, e, j)
    BY <1>1, <1>16 DEF HeartbeatReply, Passes, Execution
  <2> QED
    BY <2>1, <2>2, <2>3
<1>17. CASE HeartbeatFails(p, j)
  <2> DEFINE e == [x EXCEPT !.aborted = TRUE]
  <2>1. e \in Execution
    BY <1>1 DEF Execution
  <2>2. ExecSet(p, j, e)
    BY <1>17 DEF HeartbeatFails, ExecOK, ExecSet
  <2>3. Passes(x, e, j)
    BY <1>1, <1>17 DEF HeartbeatFails, Passes, Execution
  <2> QED
    BY <2>1, <2>2, <2>3
<1> QED
  BY <1>5, <1>6, <1>7, <1>8, <1>9, <1>10, <1>11, <1>12, <1>13, <1>14, <1>15,
     <1>16, <1>17 DEF ExecStep, HeartbeatStep

-----------------------------------------------------------------------------
(* Versions and attempts of an execution.                                  *)

\* The execution keeps all it knows; it is dropped or newly handed over.
Keeps(x, e) ==
  /\ e.pc = x.pc /\ e.claim = x.claim
  /\ e.lv = x.lv /\ e.sent = x.sent /\ e.hb = x.hb

Resets(e) ==
  /\ e.pc \in {"none", "claimed"}
  /\ e.claim = 0 /\ e.lv = 0 /\ e.sent = 0 /\ e.hb = 0

Changes(p, j) ==
  \/ Keeps(exec[p][j], exec'[p][j])
  \/ Resets(exec'[p][j])
  \/ Reads(exec[p][j], exec'[p][j], j)
  \/ Passes(exec[p][j], exec'[p][j], j)
  \/ Beats(exec[p][j], exec'[p][j], j)

\* A result is stored once, by an execution at its store step.
ResultsStep ==
  \/ UNCHANGED results
  \/ \E p \in Procs, j \in Jobs :
       /\ exec[p][j].pc = "store" /\ results[j] = 0
       /\ results' = [results EXCEPT ![j] = exec[p][j].claim]

LEMMA StepChanges ==
  ASSUME TableTypeOK, TableTypeOK', ExecOK, [Next]_vars
  PROVE  ExecOK' /\ ResultsStep /\ \A q \in Procs, i \in Jobs : Changes(q, i)
<1> USE DEF Changes, ResultsStep
<1>1. ASSUME UNCHANGED <<exec, results>>
      PROVE  ExecOK' /\ ResultsStep /\ \A q \in Procs, i \in Jobs : Changes(q, i)
  BY <1>1 DEF ExecOK, Keeps
<1>2. ASSUME NEW j \in Jobs, SubmitJob(j) \/ CancelJob(j) \/ LeaseRunsOut(j)
      PROVE  UNCHANGED <<exec, results>>
  BY <1>2 DEF SubmitJob, CancelJob, LeaseRunsOut, workerVars
<1>3. ASSUME NEW p \in Procs, PollRecover(p) \/ Exit(p)
      PROVE  UNCHANGED <<exec, results>>
  BY <1>3 DEF PollRecover, Exit
<1>4. ASSUME NEW p \in Procs, PollClaim(p) \/ BatchEnds(p) \/ Restart(p) \/ Stop(p)
      PROVE  ExecOK' /\ ResultsStep /\ \A q \in Procs, i \in Jobs : Changes(q, i)
  <2>1. UNCHANGED results
    BY <1>4 DEF PollClaim, BatchEnds, Restart, Stop
  <2>2. PICK f : /\ exec' = [exec EXCEPT ![p] = f]
                 /\ f \in [Jobs -> Execution]
                 /\ \A i \in Jobs : Keeps(exec[p][i], f[i]) \/ Resets(f[i])
    <3> USE DEF Execution, NoExecution, Keeps, Resets, ExecOK
    <3>1. CASE PollClaim(p)
      <4>1. PICK S \in SUBSET Claimable :
              exec' = [exec EXCEPT ![p] =
                     [j \in Jobs |-> IF j \in S
                                     THEN [NoExecution EXCEPT !.pc = "claimed"]
                                     ELSE NoExecution]]
        BY <3>1 DEF PollClaim
      <4> DEFINE g == [j \in Jobs |-> IF j \in S
                                     THEN [NoExecution EXCEPT !.pc = "claimed"]
                                     ELSE NoExecution]
      <4>2. g \in [Jobs -> Execution] /\ \A i \in Jobs : Resets(g[i])
        OBVIOUS
      <4> HIDE DEF g
      <4>3. exec' = [exec EXCEPT ![p] = g]
        BY <4>1 DEF g
      <4> QED
        BY <4>2, <4>3
    <3>2. CASE BatchEnds(p) \/ Restart(p)
      BY <3>2 DEF BatchEnds, Restart
    <3>3. CASE Stop(p)
      <4> DEFINE a(i) == exec[p][i].aborted \/ exec[p][i].pc \notin {"none", "done"}
                 g == [i \in Jobs |-> [exec[p][i] EXCEPT !.aborted = a(i)]]
      <4>1. ASSUME NEW i \in Jobs
            PROVE  g[i] \in Execution /\ Keeps(exec[p][i], g[i])
        <5>1. exec[p][i] \in Execution /\ a(i) \in BOOLEAN
          OBVIOUS
        <5> HIDE DEF a
        <5> QED
          BY <5>1
      <4>2. g \in [Jobs -> Execution]
        BY <4>1
      <4>3. exec' = [exec EXCEPT ![p] = g]
        BY <3>3, Zenon DEF Stop
      <4>4. \A i \in Jobs : Keeps(exec[p][i], g[i])
        BY <4>1
      <4> HIDE DEF g
      <4> QED
        BY <4>2, <4>3, <4>4, Zenon
    <3> QED
      BY <1>4, <3>1, <3>2, <3>3
  <2>3. ExecOK'
    BY <2>2 DEF ExecOK
  <2>4. ASSUME NEW q \in Procs, NEW i \in Jobs PROVE Changes(q, i)
    <3>1. exec'[q][i] = IF q = p THEN f[i] ELSE exec[q][i]
      BY <2>2 DEF ExecOK
    <3> QED
      BY <2>2, <3>1 DEF Keeps
  <2> QED
    BY <2>1, <2>3, <2>4
<1>5. ASSUME NEW p \in Procs, NEW j \in Jobs, ExecStep(p, j) \/ HeartbeatStep(p, j)
      PROVE  ExecOK' /\ ResultsStep /\ \A q \in Procs, i \in Jobs : Changes(q, i)
  <2>1. PICK e \in Execution :
           /\ ExecSet(p, j, e)
           /\ \/ Reads(exec[p][j], e, j)
              \/ Passes(exec[p][j], e, j)
              \/ Beats(exec[p][j], e, j)
    BY <1>5, ExecutionSteps
  <2>2. ExecOK'
    BY <2>1, SetKeepsType
  <2>3. ResultsStep
    BY <2>1 DEF Reads, Passes, Beats
  <2>4. ASSUME NEW q \in Procs, NEW i \in Jobs PROVE Changes(q, i)
    BY <2>1 DEF ExecSet, Keeps
  <2> QED
    BY <2>2, <2>3, <2>4
<1>6. CASE UNCHANGED vars
  BY <1>1, <1>6 DEF vars, workerVars
<1> QED
  BY <1>1, <1>2, <1>3, <1>4, <1>5, <1>6 DEF Next, LoopStep

\* The row's version as a fence: an execution knows no version that the row
\* has not reached, and none that is current once the row is in another attempt.
Fenced(p, j) ==
  LET x == exec[p][j] IN
  /\ x.lv <= jobs[j].version /\ x.sent <= jobs[j].version /\ x.hb <= jobs[j].version
  /\ x.pc \in ExecSteps /\ x.claim # jobs[j].attempts =>
       /\ x.lv < jobs[j].version /\ x.sent < jobs[j].version /\ x.hb < jobs[j].version

\* A process outside a batch runs nothing.
Idle(p) == loop[p] # "batch" => \A j \in Jobs : exec[p][j].pc = "none"

WorkerInv ==
  /\ ExecOK
  /\ loop \in [Procs -> {"recover", "claim", "batch", "exited"}]
  /\ \A p \in Procs : Idle(p) /\ \A j \in Jobs : Fenced(p, j)

\* The part of VersionFences that the worker relies on.
VersionStep ==
  \A j \in Jobs : /\ jobs'[j].version >= jobs[j].version
                  /\ jobs'[j].attempts # jobs[j].attempts
                       => jobs'[j].version > jobs[j].version

LEMMA IdleStep ==
  ASSUME TableTypeOK, TableTypeOK', WorkerInv, [Next]_vars
  PROVE  /\ loop' \in [Procs -> {"recover", "claim", "batch", "exited"}]
         /\ \A p \in Procs : Idle(p)'
<1> USE DEF WorkerInv, Idle
<1>1. CASE UNCHANGED <<loop, exec>>
  BY <1>1
<1>2. ASSUME NEW j \in Jobs, SubmitJob(j) \/ CancelJob(j) \/ LeaseRunsOut(j)
      PROVE  UNCHANGED <<loop, exec>>
  BY <1>2 DEF SubmitJob, CancelJob, LeaseRunsOut, workerVars
<1>3. ASSUME NEW p \in Procs, LoopStep(p) \/ Stop(p) \/ Restart(p)
      PROVE  /\ loop' \in [Procs -> {"recover", "claim", "batch", "exited"}]
             /\ \A q \in Procs : Idle(q)'
  <2> USE DEF ExecOK, NoExecution, Execution
  <2>1. CASE PollRecover(p)
    <3>1. /\ loop' = [loop EXCEPT ![p] = "claim"] /\ UNCHANGED exec
          /\ loop[p] = "recover"
      BY <2>1 DEF PollRecover
    <3> QED
      BY <3>1
  <2>2. CASE PollClaim(p)
    BY <2>2 DEF PollClaim
  <2>3. CASE BatchEnds(p) \/ Restart(p)
    <3>1. /\ loop' = [loop EXCEPT ![p] = "recover"]
          /\ exec' = [exec EXCEPT ![p] = [j \in Jobs |-> NoExecution]]
      BY <2>3 DEF BatchEnds, Restart
    <3> QED
      BY <3>1
  <2>4. CASE Stop(p)
    BY <2>4 DEF Stop
  <2>5. CASE Exit(p)
    <3>1. /\ loop' = [loop EXCEPT ![p] = "exited"] /\ UNCHANGED exec
          /\ loop[p] = "recover"
      BY <2>5 DEF Exit
    <3> QED
      BY <3>1
  <2> QED
    BY <1>3, <2>1, <2>2, <2>3, <2>4, <2>5 DEF LoopStep
\* An execution that takes a step is in a batch.
<1>4. ASSUME NEW p \in Procs, NEW j \in Jobs, ExecStep(p, j) \/ HeartbeatStep(p, j)
      PROVE  /\ loop' \in [Procs -> {"recover", "claim", "batch", "exited"}]
             /\ \A q \in Procs : Idle(q)'
  <2>1. UNCHANGED loop
    BY <1>4 DEF ExecStep, HeartbeatStep, ReadJob, FetchSucceeds, FetchFails,
         FetchCancelled, StoreResult, CacheResult, Complete, Fail, StopFail, DbError,
         HeartbeatSent, HeartbeatReply, HeartbeatFails
  <2>2. exec[p][j].pc # "none"
    BY <1>4 DEF ExecStep, HeartbeatStep, ReadJob, FetchSucceeds, FetchFails,
         FetchCancelled, StoreResult, CacheResult, Complete, Fail, StopFail, DbError,
         HeartbeatSent, HeartbeatReply, HeartbeatFails, At, ExecSteps
  <2>3. PICK e \in Execution : ExecSet(p, j, e)
    BY <1>4, ExecutionSteps
  <2> QED
    BY <2>1, <2>2, <2>3 DEF ExecSet
<1>5. CASE UNCHANGED vars
  BY <1>1, <1>5 DEF vars, workerVars
<1> QED
  BY <1>1, <1>2, <1>3, <1>4, <1>5 DEF Next

LEMMA FencedStep ==
  ASSUME TableTypeOK, TableTypeOK', WorkerInv, ExecOK', VersionStep,
         NEW p \in Procs, NEW j \in Jobs, Changes(p, j)
  PROVE  Fenced(p, j)'
<1> DEFINE x == exec[p][j]
           e == exec'[p][j]
<1>1. /\ x \in Execution /\ e \in Execution
      /\ jobs[j].version \in Nat /\ jobs'[j].version \in Nat
      /\ jobs[j].attempts \in Nat /\ jobs'[j].attempts \in Nat
      /\ jobs'[j].version >= jobs[j].version
      /\ jobs'[j].attempts # jobs[j].attempts => jobs'[j].version > jobs[j].version
  <2>1. x \in Execution /\ e \in Execution
    BY DEF ExecOK, WorkerInv
  <2>2. jobs[j] \in JobRow /\ jobs'[j] \in JobRow
    BY DEF TableTypeOK
  <2> QED
    BY <2>1, <2>2 DEF JobRow, VersionStep
<1>2. /\ x.lv \in Nat /\ x.sent \in Nat /\ x.hb \in Nat /\ x.claim \in Nat
      /\ e.lv \in Nat /\ e.sent \in Nat /\ e.hb \in Nat /\ e.claim \in Nat
  BY <1>1 DEF Execution
<1>3. /\ x.lv <= jobs[j].version /\ x.sent <= jobs[j].version /\ x.hb <= jobs[j].version
      /\ x.pc \in ExecSteps /\ x.claim # jobs[j].attempts =>
           /\ x.lv < jobs[j].version /\ x.sent < jobs[j].version /\ x.hb < jobs[j].version
  BY DEF WorkerInv, Fenced
<1>4. SUFFICES
      /\ e.lv <= jobs'[j].version /\ e.sent <= jobs'[j].version /\ e.hb <= jobs'[j].version
      /\ e.pc \in ExecSteps /\ e.claim # jobs'[j].attempts =>
           /\ e.lv < jobs'[j].version /\ e.sent < jobs'[j].version
           /\ e.hb < jobs'[j].version
  BY DEF Fenced
<1> HIDE DEF x, e
<1>5. CASE Keeps(x, e)
  BY <1>1, <1>2, <1>3, <1>5 DEF Keeps
<1>6. CASE Resets(e)
  BY <1>1, <1>2, <1>6 DEF Resets, ExecSteps
<1>7. CASE Reads(x, e, j)
  BY <1>1, <1>2, <1>3, <1>7 DEF Reads
<1>8. CASE Passes(x, e, j)
  BY <1>1, <1>2, <1>3, <1>8 DEF Passes, ExecSteps
<1>9. CASE Beats(x, e, j)
  <2>1. /\ e.pc = x.pc /\ e.claim = x.claim /\ e.lv = x.lv /\ e.sent = x.sent
        /\ e.hb = jobs'[j].version
    BY <1>1, <1>9 DEF Beats, Execution
  <2> QED
    BY <1>1, <1>2, <1>3, <1>9, <2>1 DEF Beats
<1> QED
  BY <1>5, <1>6, <1>7, <1>8, <1>9 DEF Changes, x, e

LEMMA WorkerInvHolds == Spec => []WorkerInv
<1>1. Init => WorkerInv
  <2> SUFFICES ASSUME Init PROVE WorkerInv
    OBVIOUS
  <2>1. /\ \A j \in Jobs : jobs[j].version = 0 /\ jobs[j].attempts = 0
        /\ loop = [p \in Procs |-> "recover"]
        /\ exec = [p \in Procs |-> [j \in Jobs |-> NoExecution]]
    BY DEF Init, TableInit, NoRow
  <2>2. NoExecution \in Execution
    BY DEF NoExecution, Execution
  <2>3. ASSUME NEW p \in Procs, NEW j \in Jobs
        PROVE  exec[p][j].pc = "none" /\ Fenced(p, j)
    BY <2>1, <2>3 DEF Fenced, NoExecution, ExecSteps
  <2> QED
    BY <2>1, <2>2, <2>3 DEF WorkerInv, ExecOK, Idle
<1>2. /\ TableTypeOK /\ TableTypeOK' /\ WorkerInv /\ [Next]_vars
      /\ [\A j \in Jobs :
            \/ jobs'[j].version > jobs[j].version
            \/ /\ jobs'[j] = [jobs[j] EXCEPT !.live = jobs'[j].live]
               /\ jobs'[j].live => jobs[j].live]_jobs
      => WorkerInv'
  <2> SUFFICES ASSUME TableTypeOK, TableTypeOK', WorkerInv, [Next]_vars,
                      [\A j \in Jobs :
                         \/ jobs'[j].version > jobs[j].version
                         \/ /\ jobs'[j] = [jobs[j] EXCEPT !.live = jobs'[j].live]
                            /\ jobs'[j].live => jobs[j].live]_jobs
               PROVE  WorkerInv'
    OBVIOUS
  <2>1. VersionStep
    <3> SUFFICES ASSUME NEW j \in Jobs
                 PROVE  /\ jobs'[j].version >= jobs[j].version
                        /\ jobs'[j].attempts # jobs[j].attempts
                             => jobs'[j].version > jobs[j].version
      BY DEF VersionStep
    <3>1. /\ jobs[j] \in JobRow
          /\ jobs[j].version \in Nat /\ jobs'[j].version \in Nat
      BY DEF TableTypeOK, JobRow
    <3>2. CASE jobs'[j].version > jobs[j].version
      BY <3>1, <3>2
    <3>3. CASE jobs'[j] = [jobs[j] EXCEPT !.live = jobs'[j].live]
      <4>1. jobs'[j].version = jobs[j].version /\ jobs'[j].attempts = jobs[j].attempts
        BY <3>1, <3>3 DEF JobRow
      <4> QED
        BY <3>1, <4>1
    <3>4. CASE UNCHANGED jobs
      BY <3>1, <3>4
    <3> QED
      BY <3>2, <3>3, <3>4
  <2>2. ExecOK' /\ \A p \in Procs, j \in Jobs : Changes(p, j)
    BY StepChanges DEF WorkerInv
  <2>3. \A p \in Procs, j \in Jobs : Fenced(p, j)'
    BY <2>1, <2>2, FencedStep
  <2> QED
    BY <2>2, <2>3, IdleStep DEF WorkerInv
<1>3. TableSpec => []TableTypeOK /\ VersionFences
  BY TableTypeCorrect, VersionFencesHolds
<1> QED
  BY <1>1, <1>2, <1>3, WorkersUseTable, PTL DEF Spec, VersionFences

-----------------------------------------------------------------------------

\* The lease is held under the version of the attempt that sent it.
LEMMA HolderIsCurrent ==
  ASSUME TableTypeOK, WorkerInv, NEW p \in Procs, NEW j \in Jobs,
         exec[p][j].pc \in ExecSteps, LeaseHeld(j, Me(p), exec[p][j].sent)
  PROVE  exec[p][j].claim = jobs[j].attempts
<1>1. exec[p][j] \in Execution /\ jobs[j] \in JobRow
  BY DEF WorkerInv, ExecOK, TableTypeOK
<1>2. exec[p][j].sent \in Nat /\ jobs[j].version \in Nat
  BY <1>1 DEF Execution, JobRow
<1>3. exec[p][j].sent = jobs[j].version
  BY DEF LeaseHeld
<1> QED
  BY <1>2, <1>3 DEF WorkerInv, Fenced

\* No execution that lost its lease, to a recovery, another process or a later
\* attempt of its own process, ends the attempt that runs now.
THEOREM OnlyCurrentAttemptCompletesHolds == Spec => OnlyCurrentAttemptCompletes
<1> DEFINE Current(p, j) ==
      /\ exec[p][j].pc \in {"complete", "fail", "stopfail"}
      /\ exec'[p][j].pc # exec[p][j].pc
      /\ jobs'[j] # jobs[j]
      => exec[p][j].claim = jobs[j].attempts
<1>1. TableTypeOK /\ TableTypeOK' /\ WorkerInv /\ [Next]_vars
        => [\A p \in Procs, j \in Jobs : Current(p, j)]_vars
  <2> SUFFICES ASSUME TableTypeOK, TableTypeOK', WorkerInv, Next,
                      NEW p \in Procs, NEW j \in Jobs,
                      exec[p][j].pc \in {"complete", "fail", "stopfail"},
                      exec'[p][j].pc # exec[p][j].pc,
                      jobs'[j] # jobs[j]
               PROVE  exec[p][j].claim = jobs[j].attempts
    OBVIOUS
  <2>1. ASSUME NEW i \in Jobs, SubmitJob(i) \/ CancelJob(i) \/ LeaseRunsOut(i)
        PROVE  FALSE
    BY <2>1 DEF SubmitJob, CancelJob, LeaseRunsOut, workerVars
  <2>2. ASSUME NEW q \in Procs, LoopStep(q) \/ Stop(q) \/ Restart(q) PROVE FALSE
    <3>1. CASE PollClaim(q)
      <4>1. CASE q = p
        BY <3>1, <4>1 DEF PollClaim, WorkerInv, Idle
      <4>2. CASE q # p
        BY <3>1, <4>2 DEF PollClaim, WorkerInv, ExecOK
      <4> QED
        BY <4>1, <4>2
    <3>2. CASE ~PollClaim(q)
      BY <2>2, <3>2 DEF LoopStep, PollRecover, BatchEnds, Exit, Stop, Restart
    <3> QED
      BY <3>1, <3>2
  <2>3. ASSUME NEW q \in Procs, NEW i \in Jobs, ExecStep(q, i) \/ HeartbeatStep(q, i)
        PROVE  exec[p][j].claim = jobs[j].attempts
    <3>1. PICK e \in Execution : ExecSet(q, i, e)
      BY <2>3, ExecutionSteps DEF WorkerInv
    <3>2. q = p /\ i = j
      BY <3>1 DEF ExecSet
    <3>3. CASE Complete(p, j) \/ Fail(p, j) \/ StopFail(p, j)
      <4>1. LeaseHeld(j, Me(p), exec[p][j].sent)
        BY <3>3 DEF Complete, Fail, StopFail, CompleteIfLeaseOwner
      <4> QED
        BY <4>1, HolderIsCurrent DEF ExecSteps
    <3>4. CASE HeartbeatSent(p, j)
      <4>1. exec' = [exec EXCEPT ![p][j].hb = jobs'[j].version]
        BY <3>4 DEF HeartbeatSent
      <4>2. exec[p][j] \in Execution /\ exec \in [Procs -> [Jobs -> Execution]]
        BY DEF WorkerInv, ExecOK
      <4> HIDE DEF Current
      <4>3. exec'[p][j].pc = exec[p][j].pc
        BY <4>1, <4>2 DEF Execution
      <4> QED
        BY <4>3
    <3>5. CASE ~(Complete(p, j) \/ Fail(p, j) \/ StopFail(p, j) \/ HeartbeatSent(p, j))
      BY <2>3, <3>2, <3>5 DEF ExecStep, HeartbeatStep, ReadJob, FetchSucceeds,
         FetchFails, FetchCancelled, StoreResult, CacheResult, DbError,
         HeartbeatReply, HeartbeatFails
    <3> QED
      BY <3>3, <3>4, <3>5
  <2> QED
    BY <2>1, <2>2, <2>3 DEF Next
<1>2. TableSpec => []TableTypeOK
  BY TableTypeCorrect
<1> QED
  BY <1>1, <1>2, WorkersUseTable, WorkerInvHolds, PTL
  DEF Spec, OnlyCurrentAttemptCompletes

-----------------------------------------------------------------------------

Delivered == {"SUCCEEDED", "PARTIAL"}

\* A result is stored by an execution of a first or later attempt, stays, and
\* an execution that goes on to complete its job has stored its own.
ResultInv ==
  /\ results \in [Jobs -> Nat]
  /\ \A j \in Jobs : jobs[j].status \in {"RUNNING"} \cup Delivered => jobs[j].attempts > 0
  /\ \A p \in Procs, j \in Jobs :
       /\ exec[p][j].pc \in ExecSteps => exec[p][j].claim > 0
       /\ exec[p][j].pc \in {"cache", "complete"} => results[j] = exec[p][j].claim
  /\ OwnResult

\* Only a completion delivers a job.
LEMMA Delivery ==
  ASSUME TableTypeOK, IncOK, [Next]_vars, NEW i \in Jobs,
         jobs[i].status \notin Delivered, jobs'[i].status \in Delivered
  PROVE  /\ UNCHANGED results
         /\ jobs'[i].attempts = jobs[i].attempts
         /\ jobs[i].status = "RUNNING"
         /\ \E p \in Procs : /\ exec[p][i].pc = "complete"
                             /\ LeaseHeld(i, Me(p), exec[p][i].sent)
<1> USE DEF TableTypeOK, JobRow, Delivered
<1>1. jobs'[i] # jobs[i]
  OBVIOUS
<1>2. ASSUME NEW j \in Jobs, SubmitJob(j) \/ CancelJob(j) \/ LeaseRunsOut(j)
      PROVE  FALSE
  <2>1. Submit(j) \/ Cancel(j) \/ LeaseExpires(j)
    BY <1>2 DEF SubmitJob, CancelJob, LeaseRunsOut
  <2>2. i = j
    BY <1>1, <2>1 DEF Submit, Cancel, LeaseExpires
  <2> QED
    BY <2>1, <2>2 DEF Submit, Cancel, LeaseExpires
<1>3. ASSUME NEW p \in Procs, LoopStep(p) \/ Stop(p) \/ Restart(p) PROVE FALSE
  <2>1. CASE PollRecover(p)
    BY <2>1 DEF PollRecover, RecoverExpired, RecoveredRow
  <2>2. CASE PollClaim(p)
    BY <2>2 DEF PollClaim, Claim, ClaimedRow, Claimable
  <2> QED
    BY <1>1, <1>3, <2>1, <2>2 DEF LoopStep, BatchEnds, Exit, Stop, Restart
<1>4. ASSUME NEW p \in Procs, NEW j \in Jobs, ExecStep(p, j) \/ HeartbeatStep(p, j)
      PROVE  /\ UNCHANGED results
             /\ jobs'[i].attempts = jobs[i].attempts
             /\ jobs[i].status = "RUNNING"
             /\ \E q \in Procs : /\ exec[q][i].pc = "complete"
                                 /\ LeaseHeld(i, Me(q), exec[q][i].sent)
  <2>1. ASSUME NEW v, CompleteIfLeaseOwner(j, Me(p), v, "FAILED") PROVE FALSE
    BY <2>1 DEF CompleteIfLeaseOwner
  <2>2. CASE Complete(p, j)
    <3>1. PICK s \in Delivered : CompleteIfLeaseOwner(j, Me(p), exec[p][j].sent, s)
      BY <1>1, <2>2 DEF Complete
    <3>2. i = j
      BY <1>1, <3>1 DEF CompleteIfLeaseOwner
    <3>3. jobs'[i].attempts = jobs[i].attempts
      BY <3>1, <3>2 DEF CompleteIfLeaseOwner
    <3> QED
      BY <2>2, <3>1, <3>2, <3>3 DEF Complete, CompleteIfLeaseOwner, LeaseHeld, At
  <2>3. CASE HeartbeatSent(p, j)
    <3>1. Heartbeat(j, Me(p), exec[p][j].lv)
      BY <2>3 DEF HeartbeatSent
    <3> QED
      BY <3>1 DEF Heartbeat
  <2>4. CASE ~(Complete(p, j) \/ HeartbeatSent(p, j))
    BY <1>1, <1>4, <2>1, <2>4 DEF ExecStep, HeartbeatStep, ReadJob, FetchSucceeds,
       FetchFails, FetchCancelled, StoreResult, CacheResult, Fail, StopFail, DbError,
       HeartbeatReply, HeartbeatFails
  <2> QED
    BY <2>2, <2>3, <2>4
<1>5. ~UNCHANGED vars
  BY <1>1 DEF vars
<1> QED
  BY <1>2, <1>3, <1>4, <1>5 DEF Next

\* The first three parts of ResultInv are kept by every step.
LEMMA ResultsKept ==
  ASSUME TableTypeOK, TableTypeOK', WorkerInv, ResultInv, ResultsStep, ExecOK',
         NEW p \in Procs, NEW j \in Jobs, Changes(p, j)
  PROVE  /\ results' \in [Jobs -> Nat]
         /\ results[j] # 0 => results'[j] = results[j]
         /\ exec'[p][j].pc \in ExecSteps => exec'[p][j].claim > 0
         /\ exec'[p][j].pc \in {"cache", "complete"} => results'[j] = exec'[p][j].claim
<1> DEFINE x == exec[p][j]
           e == exec'[p][j]
<1>1. /\ x \in Execution /\ e \in Execution
      /\ \A q \in Procs, i \in Jobs : exec[q][i].claim \in Nat
  BY DEF WorkerInv, ExecOK, Execution
<1>2. results' \in [Jobs -> Nat]
  BY <1>1 DEF ResultInv, ResultsStep
<1>3. results[j] # 0 => results'[j] = results[j]
  BY DEF ResultInv, ResultsStep
<1>4. /\ x.claim \in Nat /\ results \in [Jobs -> Nat]
      /\ x.pc \in ExecSteps => x.claim > 0
      /\ x.pc \in {"cache", "complete"} => results[j] = x.claim
      /\ jobs[j].status = "RUNNING" => jobs[j].attempts > 0
  BY <1>1 DEF ResultInv, Execution
<1>5. SUFFICES /\ e.pc \in ExecSteps => e.claim > 0
               /\ e.pc \in {"cache", "complete"} => results'[j] = e.claim
  BY <1>2, <1>3
<1> HIDE DEF x, e
<1> USE DEF ExecSteps
<1>6. CASE Keeps(x, e)
  BY <1>3, <1>4, <1>6 DEF Keeps
<1>7. CASE Resets(e)
  BY <1>7 DEF Resets
<1>8. CASE Reads(x, e, j)
  BY <1>4, <1>8 DEF Reads
<1>9. CASE Passes(x, e, j)
  BY <1>3, <1>4, <1>9 DEF Passes
<1>10. CASE Beats(x, e, j)
  <2>1. e.pc = x.pc /\ e.claim = x.claim
    BY <1>1, <1>10 DEF Beats, Execution, x
  <2> QED
    BY <1>3, <1>4, <2>1
<1> QED
  BY <1>6, <1>7, <1>8, <1>9, <1>10 DEF Changes, x, e

\* Every result that is delivered is the one of the attempt that completed the
\* job: it is stored once, and only the attempt that stored it gets to complete.
THEOREM OwnResultHolds == Spec => []OwnResult
<1>1. Init => ResultInv
  BY DEF Init, ResultInv, TableInit, NoRow, OwnResult, NoExecution, ExecSteps, Delivered
<1> DEFINE Final(j) ==
      jobs[j].status \in TerminalStatus =>
        \/ jobs'[j] = jobs[j]
        \/ /\ jobs[j].status = "FAILED"
           /\ jobs'[j].status = "QUEUED"
           /\ jobs'[j].retries = jobs[j].retries + 1
<1>2. /\ TableTypeOK /\ TableTypeOK' /\ IncOK /\ WorkerInv /\ ResultInv /\ Attempted'
      /\ [Next]_vars /\ [\A j \in Jobs : Final(j)]_jobs
      => ResultInv'
  <2> SUFFICES ASSUME TableTypeOK, TableTypeOK', IncOK, WorkerInv, ResultInv,
                      Attempted', [Next]_vars, [\A j \in Jobs : Final(j)]_jobs
               PROVE  ResultInv'
    OBVIOUS
  <2>1. ExecOK' /\ ResultsStep /\ \A p \in Procs, j \in Jobs : Changes(p, j)
    BY StepChanges DEF WorkerInv
  <2>2. \A p \in Procs, j \in Jobs :
          /\ exec'[p][j].pc \in ExecSteps => exec'[p][j].claim > 0
          /\ exec'[p][j].pc \in {"cache", "complete"} => results'[j] = exec'[p][j].claim
    BY <2>1, ResultsKept
  <2>3. /\ results' \in [Jobs -> Nat]
        /\ \A j \in Jobs : results[j] # 0 => results'[j] = results[j]
    BY <2>1 DEF ResultsStep, ResultInv, WorkerInv, ExecOK, Execution
  <2>4. ASSUME NEW j \in Jobs, jobs'[j].status \in Delivered
        PROVE  results'[j] = jobs'[j].attempts
    <3>1. CASE jobs[j].status \in Delivered
      <4>1. jobs'[j] = jobs[j]
        BY <3>1 DEF Delivered, TerminalStatus
      <4>2. results[j] = jobs[j].attempts /\ jobs[j].attempts > 0
        BY <3>1 DEF ResultInv, OwnResult, Delivered
      <4> QED
        BY <2>3, <4>1, <4>2
    <3>2. CASE jobs[j].status \notin Delivered
      <4>1. PICK p \in Procs : /\ exec[p][j].pc = "complete"
                               /\ LeaseHeld(j, Me(p), exec[p][j].sent)
        BY <2>4, <3>2, Delivery
      <4>2. exec[p][j].claim = jobs[j].attempts
        BY <4>1, HolderIsCurrent DEF ExecSteps
      <4>3. results[j] = exec[p][j].claim
        BY <4>1 DEF ResultInv
      <4>4. UNCHANGED results /\ jobs'[j].attempts = jobs[j].attempts
        BY <2>4, <3>2, Delivery
      <4> QED
        BY <4>2, <4>3, <4>4
    <3> QED
      BY <3>1, <3>2
  <2> QED
    BY <2>2, <2>3, <2>4 DEF ResultInv, OwnResult, Delivered, Attempted
<1>3. ResultInv => OwnResult
  BY DEF ResultInv
<1>4. TableSpec => []TableTypeOK /\ []Attempted /\ TerminalIsFinal
  BY TableTypeCorrect, AttemptedHolds, TerminalIsFinalHolds
<1> QED
  BY <1>1, <1>2, <1>3, <1>4, WorkersUseTable, IncOKHolds, WorkerInvHolds, PTL
  DEF Spec, TerminalIsFinal

=============================================================================
