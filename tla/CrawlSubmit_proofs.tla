------------------------- MODULE CrawlSubmit_proofs -------------------------
(***************************************************************************)
(* The requests of POST /api/v1/crawl as clients of the crawl_jobs table,  *)
(* for every number of requests, jobs, keys and tries.                     *)
(***************************************************************************)
EXTENDS CrawlSubmit, CrawlJobTable_proofs

\* Requests, and the jobs they race with, issue the statements of the table.
LEMMA SubmitStepIsStatement ==
  ASSUME [SubmitNext]_subVars PROVE [TableNext]_jobs
<1>1. ASSUME NEW r \in Requests,
             Lookup(r) \/ InsertConflicts(r) \/ SelectExisting(r)
      PROVE  UNCHANGED jobs
  BY <1>1 DEF Lookup, InsertConflicts, SelectExisting
<1>2. ASSUME NEW r \in Requests, InsertJob(r) PROVE TableNext
  BY <1>2 DEF InsertJob, TableNext
<1>3. ASSUME NEW j \in Jobs, JobMoves(j) PROVE TableNext
  <2>1. {j} \in SUBSET Jobs
    OBVIOUS
  <2> QED
    BY <1>3, <2>1 DEF JobMoves, TableNext
<1>4. ASSUME NEW j \in Jobs, PageCached(j) PROVE UNCHANGED jobs
  BY <1>4 DEF PageCached
<1>5. CASE JobsRecovered
  BY <1>5 DEF JobsRecovered, TableNext
<1>6. ASSUME NEW k \in Keys, PageExpires(k) PROVE UNCHANGED jobs
  BY <1>6 DEF PageExpires
<1>7. CASE UNCHANGED subVars
  BY <1>7 DEF subVars
<1> QED
  BY <1>1, <1>2, <1>3, <1>4, <1>5, <1>6, <1>7 DEF SubmitNext

\* What is proved of TableSpec holds while requests race each other, so two
\* submissions of one page never make two active jobs.
THEOREM SubmissionsUseTable == SubmitSpec => TableSpec
<1>1. SubmitInit => TableInit
  BY DEF SubmitInit
<1> QED
  BY <1>1, SubmitStepIsStatement, PTL DEF SubmitSpec, TableSpec

-----------------------------------------------------------------------------

\* A request that has not given up has a try left.
ReqOK ==
  /\ req \in [Requests -> Request]
  /\ \A r \in Requests : req[r].pc # "error" => req[r].tries < Tries
  /\ clock \in Nat

LEMMA ReqOKHolds == SubmitSpec => []ReqOK
<1> USE SubmitAssumption DEF ReqOK, Request
<1>1. SubmitInit => ReqOK
  BY DEF SubmitInit
<1>2. ReqOK /\ [SubmitNext]_subVars => ReqOK'
  <2> SUFFICES ASSUME ReqOK, [SubmitNext]_subVars PROVE ReqOK'
    OBVIOUS
  <2>0. ASSUME UNCHANGED <<req, clock>> PROVE ReqOK'
    BY <2>0
  <2>1. ASSUME NEW r \in Requests, Lookup(r) PROVE ReqOK'
    <3> DEFINE pc == IF req[r].key \in fresh THEN "hit" ELSE "insert"
    <3>1. /\ req' = [req EXCEPT ![r].pc = pc, ![r].start = clock + 1]
          /\ clock' = clock + 1 /\ req[r].pc # "error" /\ pc \in {"hit", "insert"}
      BY <2>1 DEF Lookup
    <3> HIDE DEF pc
    <3>2. req' \in [Requests -> Request] /\ clock' \in Nat
      <4>1. [req[r] EXCEPT !.pc = pc, !.start = clock + 1] \in Request
        <5>1. /\ req[r] \in Request /\ clock + 1 \in Nat
              /\ pc \in {"idle", "insert", "select", "hit", "created", "joined", "error"}
          BY <3>1
        <5> HIDE DEF ReqOK
        <5>2. ASSUME NEW n \in Nat PROVE [req[r] EXCEPT !.pc = pc, !.start = n] \in Request
          BY <5>1
        <5> QED
          BY <5>1, <5>2
      <4>2. /\ req' = [q \in Requests |-> req'[q]]
            /\ req'[r] = [req[r] EXCEPT !.pc = pc, !.start = clock + 1]
            /\ \A q \in Requests \ {r} : req'[q] = req[q]
        BY <3>1
      <4>3. req \in [Requests -> Request] /\ clock' \in Nat
        BY <3>1
      <4> HIDE DEF Request, ReqOK
      <4> QED
        BY <4>1, <4>2, <4>3
    <3>3. \A q \in Requests : req'[q].tries = req[q].tries
      BY <3>1
    <3>4. \A q \in Requests : req'[q].pc # "error" => req[q].pc # "error"
      BY <3>1
    <3> QED
      BY <3>2, <3>3, <3>4
  <2>2. ASSUME NEW r \in Requests, InsertJob(r) PROVE ReqOK'
    <3>1. PICK j \in Jobs : req' = [req EXCEPT ![r].pc = "created", ![r].job = j]
      BY <2>2 DEF InsertJob
    <3>2. req[r].pc = "insert" /\ UNCHANGED clock
      BY <2>2 DEF InsertJob
    <3> QED
      BY <3>1, <3>2
  <2>3. ASSUME NEW r \in Requests, InsertConflicts(r) PROVE ReqOK'
    BY <2>3 DEF InsertConflicts
  <2>4. ASSUME NEW r \in Requests, SelectExisting(r) PROVE ReqOK'
    <3>1. PICK j \in Oldest(req[r].key) :
              IF jobs[j].status \notin TerminalStatus
              THEN req' = [req EXCEPT ![r].pc = "joined", ![r].job = j]
              ELSE req' = [req EXCEPT ![r].tries = @ + 1,
                               ![r].pc = IF req[r].tries + 1 = Tries
                                         THEN "error" ELSE "insert"]
      BY <2>4 DEF SelectExisting
    <3>2. j \in Jobs /\ req[r].tries < Tries /\ UNCHANGED clock
      BY <2>4 DEF Oldest, Rows, SelectExisting
    <3>3. CASE jobs[j].status \notin TerminalStatus
      BY <3>1, <3>2, <3>3
    <3>4. CASE jobs[j].status \in TerminalStatus
      BY <3>1, <3>2, <3>4
    <3> QED
      BY <3>3, <3>4
  <2>5. ASSUME NEW j \in Jobs, JobMoves(j) \/ PageCached(j)
        PROVE  UNCHANGED <<req, clock>>
    BY <2>5 DEF JobMoves, PageCached
  <2>6. ASSUME JobsRecovered \/ \E k \in Keys : PageExpires(k)
        PROVE  UNCHANGED <<req, clock>>
    BY <2>6 DEF JobsRecovered, PageExpires
  <2>7. CASE UNCHANGED subVars
    BY <2>0, <2>7 DEF subVars
  <2> QED
    BY <2>0, <2>1, <2>2, <2>3, <2>4, <2>5, <2>6, <2>7 DEF SubmitNext
<1> QED
  BY <1>1, <1>2, PTL DEF SubmitSpec

\* Whoever is answered with a job gets one that is active as the answer is made.
THEOREM AnswersActiveJobHolds == SubmitSpec => AnswersActiveJob
<1> DEFINE Answered(r) ==
      req'[r].pc \in {"created", "joined"} /\ req[r].pc # req'[r].pc
        => jobs'[req'[r].job].status \in ActiveStatus
<1>1. TableTypeOK /\ ReqOK /\ [SubmitNext]_subVars
        => [\A r \in Requests : Answered(r)]_subVars
  <2> SUFFICES ASSUME TableTypeOK, ReqOK, SubmitNext, NEW q \in Requests
               PROVE  Answered(q)
    OBVIOUS
  <2> USE DEF ReqOK, Request
  <2>0. ASSUME req'[q] = req[q] PROVE Answered(q)
    BY <2>0
  <2>1. ASSUME NEW r \in Requests, Lookup(r) PROVE Answered(q)
    BY <2>1 DEF Lookup
  <2>2. ASSUME NEW r \in Requests, InsertJob(r) PROVE Answered(q)
    <3>1. PICK j \in Jobs : Submit(j) /\ req' = [req EXCEPT ![r].pc = "created", ![r].job = j]
      BY <2>2 DEF InsertJob
    <3>2. jobs'[j].status = "QUEUED"
      BY <3>1 DEF Submit, TableTypeOK, JobRow
    <3>3. q = r => req'[q].job = j
      BY <3>1
    <3>4. q # r => req'[q] = req[q]
      BY <3>1
    <3> QED
      BY <2>0, <3>2, <3>3, <3>4 DEF ActiveStatus
  <2>3. ASSUME NEW r \in Requests, InsertConflicts(r) PROVE Answered(q)
    BY <2>3 DEF InsertConflicts
  <2>4. ASSUME NEW r \in Requests, SelectExisting(r) PROVE Answered(q)
    <3>1. CASE q # r
      BY <2>0, <2>4, <3>1 DEF SelectExisting
    <3>2. CASE q = r
      <4>1. PICK j \in Oldest(req[r].key) :
              IF jobs[j].status \notin TerminalStatus
              THEN req' = [req EXCEPT ![r].pc = "joined", ![r].job = j]
              ELSE req' = [req EXCEPT ![r].tries = @ + 1,
                               ![r].pc = IF req[r].tries + 1 = Tries
                                         THEN "error" ELSE "insert"]
        BY <2>4 DEF SelectExisting
      <4>2. j \in Jobs /\ jobs[j].status # "ABSENT"
        BY DEF Oldest, Rows
      <4>3. CASE jobs[j].status \notin TerminalStatus
        <5>1. req'[q].job = j
          BY <3>2, <4>1, <4>3
        <5>2. jobs[j].status \in ActiveStatus
          BY <4>2, <4>3 DEF TableTypeOK, JobRow, Status
        <5>3. UNCHANGED jobs
          BY <2>4 DEF SelectExisting
        <5> QED
          BY <5>1, <5>2, <5>3
      <4>4. CASE jobs[j].status \in TerminalStatus
        <5>1. req'[q].pc \in {"error", "insert"}
          BY <3>2, <4>1, <4>4
        <5> QED
          BY <5>1
      <4> QED
        BY <4>3, <4>4
    <3> QED
      BY <3>1, <3>2
  <2>5. CASE UNCHANGED req
    BY <2>0, <2>5
  <2>6. ASSUME NEW j \in Jobs, JobMoves(j) \/ PageCached(j) PROVE UNCHANGED req
    BY <2>6 DEF JobMoves, PageCached
  <2>7. ASSUME JobsRecovered \/ \E k \in Keys : PageExpires(k) PROVE UNCHANGED req
    BY <2>7 DEF JobsRecovered, PageExpires
  <2> QED
    BY <2>1, <2>2, <2>3, <2>4, <2>5, <2>6, <2>7 DEF SubmitNext
<1>2. TableSpec => []TableTypeOK
  BY TableTypeCorrect
<1> QED
  BY <1>1, <1>2, SubmissionsUseTable, ReqOKHolds, PTL DEF SubmitSpec, AnswersActiveJob

-----------------------------------------------------------------------------

\* A crawl that has ended shows in its row for ever: retry() leaves a count.
LEMMA EndedStays ==
  ASSUME TableTypeOK, [TableNext]_jobs, NEW i \in Jobs, Ended(i)
  PROVE  Ended(i)'
<1> USE DEF TableTypeOK, JobRow, Ended, TerminalStatus
<1>1. ASSUME NEW j \in Jobs, Submit(j) PROVE Ended(i)'
  BY <1>1 DEF Submit
<1>2. ASSUME NEW j \in Jobs, Cancel(j) PROVE Ended(i)'
  BY <1>2 DEF Cancel
<1>3. ASSUME NEW j \in Jobs, Retry(j) PROVE Ended(i)'
  BY <1>3 DEF Retry
<1>4. ASSUME NEW j \in Jobs, LeaseExpires(j) PROVE Ended(i)'
  BY <1>4 DEF LeaseExpires
<1>5. ASSUME NEW w \in Workers, NEW S \in SUBSET Jobs, Claim(w, S) PROVE Ended(i)'
  BY <1>5 DEF Claim, ClaimedRow, Claimable
<1>6. ASSUME RecoverExpired PROVE Ended(i)'
  BY <1>6 DEF RecoverExpired, RecoveredRow, Expired
<1>7. ASSUME NEW j \in Jobs, NEW w \in Workers, NEW v, Heartbeat(j, w, v)
      PROVE  Ended(i)'
  BY <1>7 DEF Heartbeat
<1>8. ASSUME NEW j \in Jobs, NEW w \in Workers, NEW v,
             NEW next \in TerminalStatus, CompleteIfLeaseOwner(j, w, v, next)
      PROVE  Ended(i)'
  BY <1>8 DEF CompleteIfLeaseOwner
<1>9. CASE UNCHANGED jobs
  BY <1>9
<1> QED
  BY <1>1, <1>2, <1>3, <1>4, <1>5, <1>6, <1>7, <1>8, <1>9 DEF TableNext

\* A request keeps its page, and gives up over a row that has ended.
LEMMA GivesUp ==
  ASSUME ReqOK, [SubmitNext]_subVars, NEW q \in Requests
  PROVE  /\ req'[q].key = req[q].key
         /\ req'[q].pc = "error" /\ req[q].pc # "error"
              => \E j \in Rows(req[q].key) : jobs[j].status \in TerminalStatus
<1> DEFINE Goal == /\ req'[q].key = req[q].key
                   /\ req'[q].pc = "error" /\ req[q].pc # "error"
                        => \E j \in Rows(req[q].key) : jobs[j].status \in TerminalStatus
<1> USE DEF ReqOK, Request
<1>1. ASSUME NEW r \in Requests, Lookup(r) PROVE Goal
  <2>1. /\ req'[q].key = req[q].key
        /\ q = r => req'[q].pc \in {"hit", "insert"}
        /\ q # r => req'[q] = req[q]
    BY <1>1 DEF Lookup
  <2> QED
    BY <2>1
<1>2. ASSUME NEW r \in Requests, InsertJob(r) PROVE Goal
  <2>1. PICK j \in Jobs : req' = [req EXCEPT ![r].pc = "created", ![r].job = j]
    BY <1>2 DEF InsertJob
  <2> QED
    BY <2>1
<1>3. ASSUME NEW r \in Requests, InsertConflicts(r) PROVE Goal
  BY <1>3 DEF InsertConflicts
<1>4. ASSUME NEW r \in Requests, SelectExisting(r) PROVE Goal
  <2>1. PICK j \in Oldest(req[r].key) :
            IF jobs[j].status \notin TerminalStatus
            THEN req' = [req EXCEPT ![r].pc = "joined", ![r].job = j]
            ELSE req' = [req EXCEPT ![r].tries = @ + 1,
                             ![r].pc = IF req[r].tries + 1 = Tries
                                       THEN "error" ELSE "insert"]
    BY <1>4 DEF SelectExisting
  <2>2. j \in Rows(req[r].key)
    BY DEF Oldest
  <2>3. CASE jobs[j].status \notin TerminalStatus
    BY <2>1, <2>3
  <2>4. CASE jobs[j].status \in TerminalStatus
    BY <2>1, <2>2, <2>4
  <2> QED
    BY <2>3, <2>4
<1>5. ASSUME UNCHANGED req PROVE Goal
  BY <1>5
<1>6. ASSUME NEW j \in Jobs, JobMoves(j) \/ PageCached(j) PROVE UNCHANGED req
  BY <1>6 DEF JobMoves, PageCached
<1>7. ASSUME JobsRecovered \/ \E k \in Keys : PageExpires(k) PROVE UNCHANGED req
  BY <1>7 DEF JobsRecovered, PageExpires
<1>8. CASE UNCHANGED subVars
  BY <1>5, <1>8 DEF subVars
<1> QED
  BY <1>1, <1>2, <1>3, <1>4, <1>5, <1>6, <1>7, <1>8 DEF SubmitNext

\* A request gives up only over the outcome of an older crawl of its page: a
\* page that is being crawled for the first time is always joined.
THEOREM FirstCrawlNeverRefusedHolds == SubmitSpec => []FirstCrawlNeverRefused
<1>1. SubmitInit => FirstCrawlNeverRefused
  BY DEF SubmitInit, FirstCrawlNeverRefused
<1>2. /\ TableTypeOK /\ TableTypeOK' /\ ReqOK /\ FirstCrawlNeverRefused
      /\ [SubmitNext]_subVars
      => FirstCrawlNeverRefused'
  <2> SUFFICES ASSUME TableTypeOK, TableTypeOK', ReqOK, FirstCrawlNeverRefused,
                      [SubmitNext]_subVars, NEW q \in Requests, req'[q].pc = "error"
               PROVE  \E j \in Rows(req[q].key)' : Ended(j)'
    BY GivesUp DEF FirstCrawlNeverRefused
  <2>1. PICK j \in Rows(req[q].key) : Ended(j)
    BY GivesUp DEF FirstCrawlNeverRefused, Ended
  <2>2. j \in Jobs /\ KeyOf[j] = req[q].key /\ Ended(j)'
    BY <2>1, EndedStays, SubmitStepIsStatement DEF Rows
  <2>3. jobs'[j].status # "ABSENT"
    <3>1. CASE UNCHANGED jobs
      BY <2>1, <3>1 DEF Rows
    <3>2. CASE TableNext
      <4>1. LawfulMove(jobs[j], jobs'[j])
        BY <2>2, <3>2, StatementsMoveLawfully
      <4>2. jobs[j].status \in Status /\ jobs[j].status # "ABSENT"
        BY <2>1 DEF Rows, TableTypeOK, JobRow
      <4> QED
        BY <4>1, <4>2 DEF LawfulMove, Lifecycle!JobTransitions, Status, ActiveStatus,
                          TerminalStatus
    <3> QED
      BY <3>1, <3>2, SubmitStepIsStatement
  <2> QED
    BY <2>2, <2>3, GivesUp DEF Rows
<1>3. TableSpec => []TableTypeOK
  BY TableTypeCorrect
<1> QED
  BY <1>1, <1>2, <1>3, SubmissionsUseTable, ReqOKHolds, PTL DEF SubmitSpec

=============================================================================
