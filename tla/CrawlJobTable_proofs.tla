------------------------ MODULE CrawlJobTable_proofs ------------------------
(***************************************************************************)
(* Invariants of the crawl_jobs table under its most general client, for   *)
(* every set of jobs, keys and workers and every max_attempts.             *)
(***************************************************************************)
EXTENDS CrawlJobTable, TLAPS

\* Every statement keeps the rows well typed.
THEOREM TableTypeCorrect == TableSpec => []TableTypeOK
<1> USE DEF TableTypeOK, JobRow, Status, ActiveStatus, TerminalStatus
<1>1. TableInit => TableTypeOK
  BY JobTableAssumption DEF TableInit, NoRow
<1>2. TableTypeOK /\ [TableNext]_jobs => TableTypeOK'
  <2> SUFFICES ASSUME TableTypeOK, [TableNext]_jobs PROVE TableTypeOK'
    OBVIOUS
  <2>1. ASSUME NEW j \in Jobs, Submit(j) PROVE TableTypeOK'
    BY <2>1 DEF Submit
  <2>2. ASSUME NEW j \in Jobs, Cancel(j) PROVE TableTypeOK'
    BY <2>2 DEF Cancel
  <2>3. ASSUME NEW j \in Jobs, Retry(j) PROVE TableTypeOK'
    BY <2>3 DEF Retry
  <2>4. ASSUME NEW j \in Jobs, LeaseExpires(j) PROVE TableTypeOK'
    BY <2>4 DEF LeaseExpires
  <2>5. ASSUME NEW w \in Workers, NEW S \in SUBSET Jobs, Claim(w, S)
        PROVE  TableTypeOK'
    BY <2>5 DEF Claim, ClaimedRow
  <2>6. ASSUME RecoverExpired PROVE TableTypeOK'
    BY <2>6, JobTableAssumption DEF RecoverExpired, RecoveredRow
  <2>7. ASSUME NEW j \in Jobs, NEW w \in Workers, NEW v, Heartbeat(j, w, v)
        PROVE  TableTypeOK'
    BY <2>7 DEF Heartbeat
  <2>8. ASSUME NEW j \in Jobs, NEW w \in Workers, NEW v,
               NEW next \in TerminalStatus, CompleteIfLeaseOwner(j, w, v, next)
        PROVE  TableTypeOK'
    BY <2>8 DEF CompleteIfLeaseOwner
  <2>9. CASE UNCHANGED jobs
    BY <2>9
  <2> QED
    BY <2>1, <2>2, <2>3, <2>4, <2>5, <2>6, <2>7, <2>8, <2>9 DEF TableNext
<1> QED
  BY <1>1, <1>2, PTL DEF TableSpec

-----------------------------------------------------------------------------

\* At most one active job per deduplication key.  A row becomes active only in
\* Submit and Retry, which the unique index guards, and stays active in Claim
\* and RecoverExpired, which let the key as it is.
THEOREM OneActivePerKeyHolds == TableSpec => []OneActivePerKey
<1> USE DEF OneActivePerKey, Active, ActiveStatus
<1>1. TableInit => OneActivePerKey
  BY DEF TableInit, NoRow
<1>2. TableTypeOK /\ OneActivePerKey /\ [TableNext]_jobs => OneActivePerKey'
  <2> SUFFICES ASSUME TableTypeOK, OneActivePerKey, [TableNext]_jobs
               PROVE  OneActivePerKey'
    OBVIOUS
  <2> USE DEF TableTypeOK, JobRow
  \* A step that activates no row keeps the invariant.
  <2>0. ASSUME \A j \in Jobs : Active(j)' => Active(j) PROVE OneActivePerKey'
    BY <2>0
  <2>1. ASSUME NEW j \in Jobs, Submit(j) PROVE OneActivePerKey'
    BY <2>1 DEF Submit, KeyFree
  <2>2. ASSUME NEW j \in Jobs, Cancel(j) PROVE OneActivePerKey'
    BY <2>0, <2>2 DEF Cancel
  <2>3. ASSUME NEW j \in Jobs, Retry(j) PROVE OneActivePerKey'
    BY <2>3 DEF Retry, KeyFree
  <2>4. ASSUME NEW j \in Jobs, LeaseExpires(j) PROVE OneActivePerKey'
    BY <2>0, <2>4 DEF LeaseExpires
  <2>5. ASSUME NEW w \in Workers, NEW S \in SUBSET Jobs, Claim(w, S)
        PROVE  OneActivePerKey'
    BY <2>0, <2>5 DEF Claim, ClaimedRow, Claimable
  <2>6. ASSUME RecoverExpired PROVE OneActivePerKey'
    BY <2>0, <2>6 DEF RecoverExpired, RecoveredRow, Expired
  <2>7. ASSUME NEW j \in Jobs, NEW w \in Workers, NEW v, Heartbeat(j, w, v)
        PROVE  OneActivePerKey'
    BY <2>0, <2>7 DEF Heartbeat
  <2>8. ASSUME NEW j \in Jobs, NEW w \in Workers, NEW v,
               NEW next \in TerminalStatus, CompleteIfLeaseOwner(j, w, v, next)
        PROVE  OneActivePerKey'
    BY <2>0, <2>8 DEF CompleteIfLeaseOwner, LeaseHeld, TerminalStatus
  <2>9. CASE UNCHANGED jobs
    BY <2>0, <2>9
  <2> QED
    BY <2>1, <2>2, <2>3, <2>4, <2>5, <2>6, <2>7, <2>8, <2>9 DEF TableNext
<1> QED
  BY <1>1, <1>2, TableTypeCorrect, PTL DEF TableSpec

-----------------------------------------------------------------------------

\* AttemptsBounded is not inductive: a queued row at the bound could be claimed
\* once more.  A row is queued only below the bound, because RecoverExpired
\* fails a row at it and Retry raises it.
AttemptsInv ==
  \A j \in Jobs :
    /\ jobs[j].attempts <= MaxAttempts + jobs[j].retries
    /\ jobs[j].status = "QUEUED" => jobs[j].attempts < MaxAttempts + jobs[j].retries
    /\ jobs[j].status = "ABSENT" => jobs[j].attempts = 0

\* No job is handed out more than max_attempts times plus once per retry.
THEOREM AttemptsBoundedHolds == TableSpec => []AttemptsBounded
<1> USE JobTableAssumption DEF AttemptsInv
<1>1. TableInit => AttemptsInv
  BY DEF TableInit, NoRow
<1>2. TableTypeOK /\ AttemptsInv /\ [TableNext]_jobs => AttemptsInv'
  <2> SUFFICES ASSUME TableTypeOK, AttemptsInv, [TableNext]_jobs
               PROVE  AttemptsInv'
    OBVIOUS
  <2> USE DEF TableTypeOK, JobRow
  <2>1. ASSUME NEW j \in Jobs, Submit(j) PROVE AttemptsInv'
    <3>1. jobs[j].attempts = 0 /\ jobs[j].retries \in Nat
      BY <2>1 DEF Submit
    <3>2. jobs'[j].attempts = 0 /\ jobs'[j].retries \in Nat /\ jobs'[j].status = "QUEUED"
      BY <2>1, <3>1 DEF Submit
    <3>3. \A i \in Jobs \ {j} : jobs'[i] = jobs[i]
      BY <2>1 DEF Submit
    <3> QED
      BY <3>2, <3>3
  <2>2. ASSUME NEW j \in Jobs, Cancel(j) PROVE AttemptsInv'
    BY <2>2 DEF Cancel
  <2>3. ASSUME NEW j \in Jobs, Retry(j) PROVE AttemptsInv'
    BY <2>3 DEF Retry
  <2>4. ASSUME NEW j \in Jobs, LeaseExpires(j) PROVE AttemptsInv'
    BY <2>4 DEF LeaseExpires
  <2>5. ASSUME NEW w \in Workers, NEW S \in SUBSET Jobs, Claim(w, S)
        PROVE  AttemptsInv'
    BY <2>5 DEF Claim, ClaimedRow, Claimable
  <2>6. ASSUME RecoverExpired PROVE AttemptsInv'
    BY <2>6 DEF RecoverExpired, RecoveredRow
  <2>7. ASSUME NEW j \in Jobs, NEW w \in Workers, NEW v, Heartbeat(j, w, v)
        PROVE  AttemptsInv'
    BY <2>7 DEF Heartbeat
  <2>8. ASSUME NEW j \in Jobs, NEW w \in Workers, NEW v,
               NEW next \in TerminalStatus, CompleteIfLeaseOwner(j, w, v, next)
        PROVE  AttemptsInv'
    BY <2>8 DEF CompleteIfLeaseOwner, TerminalStatus
  <2>9. CASE UNCHANGED jobs
    BY <2>9
  <2> QED
    BY <2>1, <2>2, <2>3, <2>4, <2>5, <2>6, <2>7, <2>8, <2>9 DEF TableNext
<1>3. AttemptsInv => AttemptsBounded
  BY DEF AttemptsBounded
<1> QED
  BY <1>1, <1>2, <1>3, TableTypeCorrect, PTL DEF TableSpec

-----------------------------------------------------------------------------

\* A job that runs, or has been delivered, has been claimed.
Attempted ==
  \A j \in Jobs :
    jobs[j].status \in {"RUNNING", "SUCCEEDED", "PARTIAL"} => jobs[j].attempts > 0

LEMMA AttemptedHolds == TableSpec => []Attempted
<1> USE DEF Attempted
<1>1. TableInit => Attempted
  BY DEF TableInit, NoRow
<1>2. TableTypeOK /\ Attempted /\ [TableNext]_jobs => Attempted'
  <2> SUFFICES ASSUME TableTypeOK, Attempted, [TableNext]_jobs PROVE Attempted'
    OBVIOUS
  <2> USE DEF TableTypeOK, JobRow
  <2>1. ASSUME NEW j \in Jobs, Submit(j) \/ Cancel(j) \/ Retry(j) PROVE Attempted'
    BY <2>1 DEF Submit, Cancel, Retry
  <2>2. ASSUME NEW j \in Jobs, LeaseExpires(j) PROVE Attempted'
    BY <2>2 DEF LeaseExpires
  <2>3. ASSUME NEW w \in Workers, NEW S \in SUBSET Jobs, Claim(w, S) PROVE Attempted'
    BY <2>3 DEF Claim, ClaimedRow
  <2>4. ASSUME RecoverExpired PROVE Attempted'
    BY <2>4 DEF RecoverExpired, RecoveredRow
  <2>5. ASSUME NEW j \in Jobs, NEW w \in Workers, NEW v, Heartbeat(j, w, v)
        PROVE  Attempted'
    BY <2>5 DEF Heartbeat
  <2>6. ASSUME NEW j \in Jobs, NEW w \in Workers, NEW v,
               NEW next \in TerminalStatus, CompleteIfLeaseOwner(j, w, v, next)
        PROVE  Attempted'
    BY <2>6 DEF CompleteIfLeaseOwner, LeaseHeld
  <2>7. CASE UNCHANGED jobs
    BY <2>7
  <2> QED
    BY <2>1, <2>2, <2>3, <2>4, <2>5, <2>6, <2>7 DEF TableNext
<1> QED
  BY <1>1, <1>2, TableTypeCorrect, PTL DEF TableSpec

-----------------------------------------------------------------------------

\* A row that has not been inserted has no version yet.
AbsentIsNew == \A j \in Jobs : jobs[j].status = "ABSENT" => jobs[j].version = 0

LEMMA AbsentIsNewHolds == TableSpec => []AbsentIsNew
<1> USE DEF AbsentIsNew
<1>1. TableInit => AbsentIsNew
  BY DEF TableInit, NoRow
<1>2. TableTypeOK /\ AbsentIsNew /\ [TableNext]_jobs => AbsentIsNew'
  <2> SUFFICES ASSUME TableTypeOK, AbsentIsNew, [TableNext]_jobs
               PROVE  AbsentIsNew'
    OBVIOUS
  <2> USE DEF TableTypeOK, JobRow
  <2>1. ASSUME NEW j \in Jobs, Submit(j) \/ Cancel(j) \/ Retry(j) PROVE AbsentIsNew'
    BY <2>1 DEF Submit, Cancel, Retry
  <2>2. ASSUME NEW j \in Jobs, LeaseExpires(j) PROVE AbsentIsNew'
    BY <2>2 DEF LeaseExpires
  <2>3. ASSUME NEW w \in Workers, NEW S \in SUBSET Jobs, Claim(w, S)
        PROVE  AbsentIsNew'
    BY <2>3 DEF Claim, ClaimedRow
  <2>4. ASSUME RecoverExpired PROVE AbsentIsNew'
    BY <2>4 DEF RecoverExpired, RecoveredRow
  <2>5. ASSUME NEW j \in Jobs, NEW w \in Workers, NEW v, Heartbeat(j, w, v)
        PROVE  AbsentIsNew'
    BY <2>5 DEF Heartbeat, LeaseHeld
  <2>6. ASSUME NEW j \in Jobs, NEW w \in Workers, NEW v,
               NEW next \in TerminalStatus, CompleteIfLeaseOwner(j, w, v, next)
        PROVE  AbsentIsNew'
    BY <2>6 DEF CompleteIfLeaseOwner, TerminalStatus
  <2>7. CASE UNCHANGED jobs
    BY <2>7
  <2> QED
    BY <2>1, <2>2, <2>3, <2>4, <2>5, <2>6, <2>7 DEF TableNext
<1> QED
  BY <1>1, <1>2, TableTypeCorrect, PTL DEF TableSpec

\* Every change of status, owner or attempts raises the version, so that an
\* expected version which still matches is proof that the row is untouched.
THEOREM VersionFencesHolds == TableSpec => VersionFences
<1> DEFINE Fenced(j) ==
      \/ jobs'[j].version > jobs[j].version
      \/ /\ jobs'[j] = [jobs[j] EXCEPT !.live = jobs'[j].live]
         /\ jobs'[j].live => jobs[j].live
<1>1. TableTypeOK /\ AbsentIsNew /\ [TableNext]_jobs
        => [\A j \in Jobs : Fenced(j)]_jobs
  <2> SUFFICES ASSUME TableTypeOK, AbsentIsNew, TableNext, NEW i \in Jobs
               PROVE  Fenced(i)
    OBVIOUS
  <2> USE DEF TableTypeOK, JobRow
  <2>0. ASSUME jobs'[i] = jobs[i] PROVE Fenced(i)
    BY <2>0
  <2>1. ASSUME NEW j \in Jobs, Submit(j) \/ Cancel(j) \/ Retry(j) PROVE Fenced(i)
    <3>1. CASE i = j
      <4>1. jobs'[j].version > jobs[j].version
        <5>1. CASE Submit(j)
          BY <5>1 DEF Submit, AbsentIsNew
        <5>2. CASE Cancel(j)
          BY <5>2 DEF Cancel
        <5>3. CASE Retry(j)
          BY <5>3 DEF Retry
        <5> QED
          BY <2>1, <5>1, <5>2, <5>3
      <4> QED
        BY <3>1, <4>1
    <3>2. CASE i # j
      BY <2>0, <2>1, <3>2 DEF Submit, Cancel, Retry
    <3> QED
      BY <3>1, <3>2
  <2>2. ASSUME NEW j \in Jobs, LeaseExpires(j) PROVE Fenced(i)
    BY <2>0, <2>2 DEF LeaseExpires
  <2>3. ASSUME NEW w \in Workers, NEW S \in SUBSET Jobs, Claim(w, S) PROVE Fenced(i)
    <3>1. CASE i \in S
      <4>1. jobs'[i].version = jobs[i].version + 1
        BY <2>3, <3>1 DEF Claim, ClaimedRow
      <4> QED
        BY <4>1
    <3>2. CASE i \notin S
      BY <2>0, <2>3, <3>2 DEF Claim
    <3> QED
      BY <3>1, <3>2
  <2>4. ASSUME RecoverExpired PROVE Fenced(i)
    <3>1. CASE Expired(i)
      <4>1. jobs'[i].version = jobs[i].version + 1
        BY <2>4, <3>1 DEF RecoverExpired, RecoveredRow
      <4> QED
        BY <4>1
    <3>2. CASE ~Expired(i)
      BY <2>0, <2>4, <3>2 DEF RecoverExpired
    <3> QED
      BY <3>1, <3>2
  <2>5. ASSUME NEW j \in Jobs, NEW w \in Workers, NEW v, Heartbeat(j, w, v)
        PROVE  Fenced(i)
    BY <2>0, <2>5 DEF Heartbeat
  <2>6. ASSUME NEW j \in Jobs, NEW w \in Workers, NEW v,
               NEW next \in TerminalStatus, CompleteIfLeaseOwner(j, w, v, next)
        PROVE  Fenced(i)
    BY <2>0, <2>6 DEF CompleteIfLeaseOwner
  <2> QED
    BY <2>1, <2>2, <2>3, <2>4, <2>5, <2>6 DEF TableNext
<1> QED
  BY <1>1, TableTypeCorrect, AbsentIsNewHolds, PTL DEF TableSpec, VersionFences

\* The outcome of a job is final: only retry() reopens a job, and only a FAILED
\* one; every other statement is refused by the status in its WHERE clause.
THEOREM TerminalIsFinalHolds == TableSpec => TerminalIsFinal
<1> DEFINE Final(j) ==
      jobs[j].status \in TerminalStatus =>
        \/ jobs'[j] = jobs[j]
        \/ /\ jobs[j].status = "FAILED"
           /\ jobs'[j].status = "QUEUED"
           /\ jobs'[j].retries = jobs[j].retries + 1
<1>1. TableTypeOK /\ [TableNext]_jobs => [\A j \in Jobs : Final(j)]_jobs
  <2> SUFFICES ASSUME TableTypeOK, TableNext, NEW i \in Jobs PROVE Final(i)
    OBVIOUS
  <2> USE DEF TableTypeOK, JobRow, TerminalStatus
  <2>1. ASSUME NEW j \in Jobs, Submit(j) \/ Cancel(j) PROVE Final(i)
    BY <2>1 DEF Submit, Cancel, Active, ActiveStatus
  <2>2. ASSUME NEW j \in Jobs, Retry(j) PROVE Final(i)
    BY <2>2 DEF Retry
  <2>3. ASSUME NEW j \in Jobs, LeaseExpires(j) PROVE Final(i)
    BY <2>3 DEF LeaseExpires
  <2>4. ASSUME NEW w \in Workers, NEW S \in SUBSET Jobs, Claim(w, S) PROVE Final(i)
    BY <2>4 DEF Claim, Claimable
  <2>5. ASSUME RecoverExpired PROVE Final(i)
    BY <2>5 DEF RecoverExpired, Expired
  <2>6. ASSUME NEW j \in Jobs, NEW w \in Workers, NEW v, Heartbeat(j, w, v)
        PROVE  Final(i)
    BY <2>6 DEF Heartbeat, LeaseHeld
  <2>7. ASSUME NEW j \in Jobs, NEW w \in Workers, NEW v,
               NEW next \in TerminalStatus, CompleteIfLeaseOwner(j, w, v, next)
        PROVE  Final(i)
    BY <2>7 DEF CompleteIfLeaseOwner, LeaseHeld
  <2> QED
    BY <2>1, <2>2, <2>3, <2>4, <2>5, <2>6, <2>7 DEF TableNext
<1> QED
  BY <1>1, TableTypeCorrect, PTL DEF TableSpec, TerminalIsFinal

-----------------------------------------------------------------------------

\* What a statement may do to one row: leave its status and attempts, move it
\* along JOB_TRANSITIONS, or reopen it.
LawfulMove(row, new) ==
  \/ new.status = row.status /\ new.attempts = row.attempts
  \/ /\ new.status \in Lifecycle!JobTransitions[row.status]
     /\ new.attempts = row.attempts + (IF new.status = "RUNNING" THEN 1 ELSE 0)
     /\ row.status = "RUNNING" /\ new.status = "QUEUED" => row.attempts < MaxAttempts
  \/ /\ row.status = "FAILED" /\ new.status = "QUEUED"
     /\ new.attempts = row.attempts /\ new.retries = row.retries + 1

LEMMA StatementsMoveLawfully ==
  ASSUME TableTypeOK, TableNext, NEW i \in Jobs
  PROVE  LawfulMove(jobs[i], jobs'[i])
<1> USE JobTableAssumption
    DEF TableTypeOK, JobRow, Status, ActiveStatus, TerminalStatus,
        LawfulMove, Lifecycle!JobTransitions
<1>0. ASSUME jobs'[i] = jobs[i] PROVE LawfulMove(jobs[i], jobs'[i])
  BY <1>0
<1>1. ASSUME NEW j \in Jobs, Submit(j) PROVE LawfulMove(jobs[i], jobs'[i])
  BY <1>1 DEF Submit
<1>2. ASSUME NEW j \in Jobs, Cancel(j) PROVE LawfulMove(jobs[i], jobs'[i])
  BY <1>2 DEF Cancel, Active
<1>3. ASSUME NEW j \in Jobs, Retry(j) PROVE LawfulMove(jobs[i], jobs'[i])
  BY <1>3 DEF Retry
<1>4. ASSUME NEW j \in Jobs, LeaseExpires(j) PROVE LawfulMove(jobs[i], jobs'[i])
  BY <1>4 DEF LeaseExpires
<1>5. ASSUME NEW w \in Workers, NEW S \in SUBSET Jobs, Claim(w, S)
      PROVE  LawfulMove(jobs[i], jobs'[i])
  BY <1>5 DEF Claim, ClaimedRow, Claimable
<1>6. ASSUME RecoverExpired PROVE LawfulMove(jobs[i], jobs'[i])
  BY <1>6 DEF RecoverExpired, RecoveredRow, Expired
<1>7. ASSUME NEW j \in Jobs, NEW w \in Workers, NEW v, Heartbeat(j, w, v)
      PROVE  LawfulMove(jobs[i], jobs'[i])
  BY <1>7 DEF Heartbeat
<1>8. ASSUME NEW j \in Jobs, NEW w \in Workers, NEW v,
             NEW next \in TerminalStatus, CompleteIfLeaseOwner(j, w, v, next)
      PROVE  LawfulMove(jobs[i], jobs'[i])
  BY <1>8 DEF CompleteIfLeaseOwner, LeaseHeld
<1> QED
  BY <1>1, <1>2, <1>3, <1>4, <1>5, <1>6, <1>7, <1>8 DEF TableNext

\* The SQL functions never ask the state machine of the domain; their WHERE
\* clauses and the unique index make them implement it nevertheless.
THEOREM ImplementsLifecycleHolds == TableSpec => ImplementsLifecycle
<1> DEFINE ls == [j \in Jobs |-> jobs[j].status]
           la == [j \in Jobs |-> jobs[j].attempts]
<1>1. TableInit => Lifecycle!Init
  BY DEF TableInit, NoRow, Lifecycle!Init
<1>2. TableTypeOK /\ OneActivePerKey' /\ [TableNext]_jobs => [Lifecycle!Next]_<<ls, la>>
  <2>1. CASE UNCHANGED jobs
    BY <2>1
  <2>2. ASSUME TableTypeOK, OneActivePerKey', TableNext PROVE Lifecycle!Next
    <3>1. \A j \in Jobs : Lifecycle!Move(j)
      BY <2>2, StatementsMoveLawfully DEF LawfulMove, Lifecycle!Move
    <3>2. Lifecycle!ExclusiveKeys'
      BY <2>2 DEF OneActivePerKey, Active, ActiveStatus, Lifecycle!ExclusiveKeys,
                  Lifecycle!ActiveStates
    <3> QED
      BY <3>1, <3>2 DEF Lifecycle!Next
  <2> QED
    BY <2>1, <2>2
<1> QED
  BY <1>1, <1>2, TableTypeCorrect, OneActivePerKeyHolds, PTL
  DEF TableSpec, ImplementsLifecycle, Lifecycle!Spec

=============================================================================
