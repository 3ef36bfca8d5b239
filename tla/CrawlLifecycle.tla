--------------------------- MODULE CrawlLifecycle ---------------------------
(***************************************************************************)
(* What the crawl queue promises, without leases, versions or workers:     *)
(* every job moves along JOB_TRANSITIONS of the domain state machine, is   *)
(* started only while it has attempts left, and is never active together   *)
(* with another job of its deduplication key.  Several jobs may move in    *)
(* one step, as the claim and the recovery move several rows.              *)
(***************************************************************************)
EXTENDS Integers

CONSTANTS
  Jobs, KeyOf, MaxAttempts,
  Reopens        \* the FAILED jobs that retryFailedJob may reopen

VARIABLES status, attempts

ActiveStates == {"PENDING", "QUEUED", "RUNNING"}

\* JOB_TRANSITIONS.  A job comes into being PENDING or, for a reader of
\* committed rows, already QUEUED.
JobTransitions ==
  [ABSENT    |-> {"PENDING", "QUEUED"},
   PENDING   |-> {"QUEUED", "CANCELLED", "FAILED"},
   QUEUED    |-> {"RUNNING", "CANCELLED", "FAILED"},
   RUNNING   |-> {"SUCCEEDED", "PARTIAL", "FAILED", "CANCELLED", "QUEUED"},
   SUCCEEDED |-> {},
   PARTIAL   |-> {},
   FAILED    |-> {},
   CANCELLED |-> {}]

Init ==
  /\ status = [j \in Jobs |-> "ABSENT"]
  /\ attempts = [j \in Jobs |-> 0]

\* Job j stays, or makes one lawful move.
Move(j) ==
  \/ status'[j] = status[j] /\ attempts'[j] = attempts[j]
  \/ /\ status'[j] \in JobTransitions[status[j]]
     /\ attempts'[j] = attempts[j] + (IF status'[j] = "RUNNING" THEN 1 ELSE 0)
     /\ status[j] = "RUNNING" /\ status'[j] = "QUEUED" => attempts[j] < MaxAttempts
  \/ /\ j \in Reopens
     /\ status[j] = "FAILED" /\ status'[j] = "QUEUED"
     /\ attempts'[j] = attempts[j]

ExclusiveKeys ==
  \A i, j \in Jobs :
    i # j /\ status[i] \in ActiveStates /\ status[j] \in ActiveStates
      => KeyOf[i] # KeyOf[j]

Next ==
  /\ \A j \in Jobs : Move(j)
  /\ ExclusiveKeys'

Spec == Init /\ [][Next]_<<status, attempts>>
=============================================================================
