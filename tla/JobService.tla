----------------------------- MODULE JobService -----------------------------
(***************************************************************************)
(* The background jobs of src/services/jobs under one tenant and one       *)
(* idempotency key: clients create them, JobExecutionManager executes each *)
(* once, with retries after a delay, and they may be cancelled meanwhile.  *)
(* Every call of the repository is awaited: transitionStatus reads the job *)
(* and writes it back in two steps, with nothing to fence the write.       *)
(***************************************************************************)
EXTENDS Integers, Sequences, SequencesExt

CONSTANTS Jobs, Clients, MaxAttempts

ASSUME JobAssumption == MaxAttempts \in Nat \ {0}

VARIABLES
  created,    \* the jobs in order of creation: the repository's Map
  status,
  exec,       \* what the execution of each job does next
  target,     \* the status it is writing
  attempts,   \* job.attempts of the executor's own object
  cancel,     \* the progress of cancelJob on each job
  client      \* the progress of each createJob

jobVars == <<created, status, exec, target, attempts, cancel, client>>

Active == {"queued", "running", "retrying"}
Terminal == {"completed", "failed", "cancelled"}
Status == Active \cup Terminal

JobTypeOK ==
  /\ created \in Seq(Jobs) /\ IsInjective(created)
  /\ status \in [Jobs -> Status \cup {"none"}]
  /\ exec \in [Jobs -> {"none", "read", "write", "handler", "timer", "ended"}]
  /\ target \in [Jobs -> Status]
  /\ attempts \in [Jobs -> 0..MaxAttempts]
  /\ cancel \in [Jobs -> {"none", "checked", "write", "done", "refused"}]
  /\ client \in [Clients -> {"idle", "create", "done"}]

JobInit ==
  /\ created = <<>>
  /\ status = [j \in Jobs |-> "none"]
  /\ exec = [j \in Jobs |-> "none"]
  /\ target = [j \in Jobs |-> "queued"]
  /\ attempts = [j \in Jobs |-> 0]
  /\ cancel = [j \in Jobs |-> "none"]
  /\ client = [c \in Clients |-> "idle"]

-----------------------------------------------------------------------------
(* createJob.                                                              *)

\* findByIdempotencyKey returns the oldest job of the key.
Reused == created # <<>> /\ status[Head(created)] \in Active \cup {"completed"}

FindExisting(c) ==
  /\ client[c] = "idle"
  /\ client' = [client EXCEPT ![c] = IF Reused THEN "done" ELSE "create"]
  /\ UNCHANGED <<created, status, exec, target, attempts, cancel>>

CreateJob(c) ==
  /\ client[c] = "create"
  /\ client' = [client EXCEPT ![c] = "done"]
  /\ \E j \in Jobs :
       /\ status[j] = "none"
       /\ created' = Append(created, j)
       /\ status' = [status EXCEPT ![j] = "queued"]
  /\ UNCHANGED <<exec, target, attempts, cancel>>

-----------------------------------------------------------------------------
(* JobExecutionManager.execute.                                            *)

\* The execution calls transitionStatus(to).
Transitions(j, to) ==
  /\ exec' = [exec EXCEPT ![j] = "read"]
  /\ target' = [target EXCEPT ![j] = to]

Moves(j, at) == exec' = [exec EXCEPT ![j] = at] /\ UNCHANGED target

\* The job is executed by its creator; with no executor of its type it fails.
Execute(j) ==
  /\ status[j] # "none" /\ exec[j] = "none"
  /\ Transitions(j, "running") \/ Transitions(j, "failed")
  /\ UNCHANGED <<created, status, attempts, cancel, client>>

Illegal(from, to) ==
  \/ from = "completed" /\ to = "running"
  \/ from = "failed" /\ to = "completed"
  \/ from = "cancelled" /\ to \in Active

MayRetry(j) == attempts[j] < MaxAttempts

\* The catch block of execute.
Caught(j, retryable) ==
  Transitions(j, IF retryable /\ MayRetry(j) THEN "retrying" ELSE "failed")

\* transitionStatus reads the job. When it throws, execute rejects, but for a
\* completion, which its own catch block takes for a failure of the handler.
ReadStatus(j) ==
  /\ exec[j] = "read"
  /\ IF Illegal(status[j], target[j])
     THEN IF target[j] = "completed" THEN Caught(j, TRUE) ELSE Moves(j, "ended")
     ELSE Moves(j, "write")
  /\ UNCHANGED <<created, status, attempts, cancel, client>>

\* Mutants of AfterWrite: a retried job is queued again but not executed, and a
\* failed one is queued again like a retried one.
MutAfterWriteQueues(j) ==
  CASE target[j] = "running"  -> Moves(j, "handler")
    [] target[j] = "retrying" -> Moves(j, "timer")
    [] OTHER                  -> Moves(j, "ended")

MutAfterWriteFailed(j) ==
  CASE target[j] = "running"              -> Moves(j, "handler")
    [] target[j] \in {"retrying", "failed"} -> Moves(j, "timer")
    [] target[j] = "queued"               -> Transitions(j, "running")
    [] OTHER                              -> Moves(j, "ended")

\* Where the execution goes when transitionStatus returns.
AfterWrite(j) ==
  CASE target[j] = "running"  -> Moves(j, "handler")
    [] target[j] = "retrying" -> Moves(j, "timer")
    [] target[j] = "queued"   -> Transitions(j, "running")
    [] OTHER                  -> Moves(j, "ended")

WriteStatus(j) ==
  /\ exec[j] = "write"
  /\ status' = [status EXCEPT ![j] = target[j]]
  /\ attempts' = [attempts EXCEPT ![j] = IF target[j] = "running" THEN @ + 1 ELSE @]
  /\ AfterWrite(j)
  /\ UNCHANGED <<created, cancel, client>>

HandlerEnds(j) ==
  /\ exec[j] = "handler"
  /\ Transitions(j, "completed") \/ Caught(j, TRUE) \/ Caught(j, FALSE)
  /\ UNCHANGED <<created, status, attempts, cancel, client>>

\* The backoff delay has passed.
TimerFires(j) ==
  /\ exec[j] = "timer"
  /\ Transitions(j, "queued")
  /\ UNCHANGED <<created, status, attempts, cancel, client>>

-----------------------------------------------------------------------------
(* cancelJob: a check, and then a transition with its read and its write.  *)

Cancels(j, at) ==
  /\ cancel' = [cancel EXCEPT ![j] = at]
  /\ UNCHANGED <<created, exec, target, attempts, client>>

CancelCheck(j) ==
  /\ status[j] # "none" /\ cancel[j] = "none"
  /\ Cancels(j, IF status[j] \in Terminal THEN "refused" ELSE "checked")
  /\ UNCHANGED status

CancelRead(j) ==
  /\ cancel[j] = "checked"
  /\ Cancels(j, IF Illegal(status[j], "cancelled") THEN "refused" ELSE "write")
  /\ UNCHANGED status

CancelWrite(j) ==
  /\ cancel[j] = "write"
  /\ Cancels(j, "done")
  /\ status' = [status EXCEPT ![j] = "cancelled"]

-----------------------------------------------------------------------------

ExecStep(j) == ReadStatus(j) \/ WriteStatus(j) \/ HandlerEnds(j) \/ TimerFires(j)

JobNext ==
  \/ \E c \in Clients : FindExisting(c) \/ CreateJob(c)
  \/ \E j \in Jobs : \/ Execute(j) \/ ExecStep(j)
                     \/ CancelCheck(j) \/ CancelRead(j) \/ CancelWrite(j)

JobSpec == JobInit /\ [][JobNext]_jobVars

\* Promises are settled and timers fire, and a handler returns.
FairJobSpec == JobSpec /\ \A j \in Jobs : WF_jobVars(ExecStep(j))

-----------------------------------------------------------------------------

\* What cancelJob and transitionStatus say when they refuse, that a job in a
\* terminal state cannot be cancelled, and that a cancelled one does not go back
\* to active.
CancellationIsGuarded ==
  [][\A j \in Jobs :
       /\ status[j] \in {"completed", "failed"} => status'[j] # "cancelled"
       /\ status[j] = "cancelled" => status'[j] \notin Active]_jobVars

\* Cancellations race with the execution and CancellationIsGuarded fails, but
\* nothing else does: no timer and no second write, of all the steps that
\* transitionStatus would let through, brings a completed or a failed job back.
OutcomeFinal ==
  [][\A j \in Jobs :
       status[j] \in {"completed", "failed"} =>
         status'[j] \in {status[j], "cancelled"}]_jobVars

\* A job whose execution has started reaches a terminal status, however its
\* attempts fail and wherever a cancellation comes in.
JobSettles == \A j \in Jobs : exec[j] # "none" ~> status[j] \in Terminal

=============================================================================
