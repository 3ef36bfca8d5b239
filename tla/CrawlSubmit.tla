----------------------------- MODULE CrawlSubmit -----------------------------
(***************************************************************************)
(* POST /api/v1/crawl: CrawlOrchestrator.submit and the three-try          *)
(* createOrGetByDedup, one transaction per request at READ COMMITTED.      *)
(* Each statement of the transaction sees what others have committed since *)
(* the one before, so the cache lookup, the INSERT and the SELECT are      *)
(* steps of their own.  The rest of a job's life is left to the statements *)
(* of CrawlJobTable.                                                       *)
(***************************************************************************)
EXTENDS CrawlJobTable

CONSTANTS
  Requests,     \* submissions, each made once
  NoJob,        \* a request that has no job (yet)
  Tries         \* attempts of createOrGetByDedup

ASSUME SubmitAssumption == Tries \in Nat \ {0} /\ NoJob \notin Jobs

VARIABLES
  fresh,        \* keys whose cached page has not expired
  born,         \* created_at of each row: the start of its transaction
  clock,        \* transactions started so far
  req,          \* req[r]: the state of request r
  raced         \* history: rows of the key changed while the request ran

subVars == <<jobs, fresh, born, clock, req, raced>>

\* answer: the cached result ("hit"), a new job ("created"), an active job of
\* the same key ("joined"), or CONFIGURATION_ERROR ("error").
Request == [pc: {"idle", "insert", "select", "hit", "created", "joined", "error"},
            key: Keys, start: Nat, tries: 0..Tries, job: Jobs \cup {NoJob}]

SubmitTypeOK ==
  /\ TableTypeOK
  /\ fresh \subseteq Keys
  /\ born \in [Jobs -> Nat]
  /\ clock \in Nat
  /\ req \in [Requests -> Request]
  /\ raced \subseteq Requests

SubmitInit ==
  /\ TableInit
  /\ fresh = {}
  /\ born = [j \in Jobs |-> 0]
  /\ clock = 0
  /\ \E page \in [Requests -> Keys] :
       req = [r \in Requests |-> [pc |-> "idle", key |-> page[r], start |-> 0,
                                 tries |-> 0, job |-> NoJob]]
  /\ raced = {}

Rows(k) == {j \in Jobs : KeyOf[j] = k /\ jobs[j].status # "ABSENT"}

Running(r) == req[r].pc \in {"insert", "select"}

\* Requests during which a row of the key of j changes.
RacedBy(j) == {r \in Requests : Running(r) /\ req[r].key = KeyOf[j]}

-----------------------------------------------------------------------------

\* The transaction starts and cache.get is read.
Lookup(r) ==
  /\ req[r].pc = "idle"
  /\ clock' = clock + 1
  /\ req' = [req EXCEPT ![r].pc = IF req[r].key \in fresh THEN "hit" ELSE "insert",
                        ![r].start = clock + 1]
  /\ UNCHANGED <<jobs, fresh, born, raced>>

\* INSERT ... ON CONFLICT DO NOTHING inserts (and the job is queued) ...
InsertJob(r) ==
  /\ req[r].pc = "insert"
  /\ \E j \in Jobs :
       /\ KeyOf[j] = req[r].key
       /\ Submit(j)
       /\ born' = [born EXCEPT ![j] = req[r].start]
       /\ req' = [req EXCEPT ![r].pc = "created", ![r].job = j]
       /\ raced' = raced \cup (RacedBy(j) \ {r})
  /\ UNCHANGED <<fresh, clock>>

\* ... or meets an active row of the key.
InsertConflicts(r) ==
  /\ req[r].pc = "insert"
  /\ \E j \in Rows(req[r].key) : Active(j)
  /\ req' = [req EXCEPT ![r].pc = "select"]
  /\ UNCHANGED <<jobs, fresh, born, clock, raced>>

\* SELECT ... WHERE dedup_key ORDER BY created_at LIMIT 1: the oldest row of
\* the key, of any status, is taken if it is not terminal.
Oldest(k) == {j \in Rows(k) : \A i \in Rows(k) : born[j] <= born[i]}

\* Mutants of SelectExisting: only a queued job is joined; a terminal row is
\* joined.
MutSelectQueued(r) ==
  /\ req[r].pc = "select"
  /\ \E j \in Oldest(req[r].key) :
       IF jobs[j].status = "QUEUED"
       THEN req' = [req EXCEPT ![r].pc = "joined", ![r].job = j]
       ELSE req' = [req EXCEPT ![r].tries = @ + 1,
                               ![r].pc = IF req[r].tries + 1 = Tries
                                         THEN "error" ELSE "insert"]
  /\ UNCHANGED <<jobs, fresh, born, clock, raced>>

MutSelectAny(r) ==
  /\ req[r].pc = "select"
  /\ \E j \in Oldest(req[r].key) :
       req' = [req EXCEPT ![r].pc = "joined", ![r].job = j]
  /\ UNCHANGED <<jobs, fresh, born, clock, raced>>

SelectExisting(r) ==
  /\ req[r].pc = "select"
  /\ \E j \in Oldest(req[r].key) :
       IF jobs[j].status \notin TerminalStatus
       THEN req' = [req EXCEPT ![r].pc = "joined", ![r].job = j]
       ELSE req' = [req EXCEPT ![r].tries = @ + 1,
                               ![r].pc = IF req[r].tries + 1 = Tries
                                         THEN "error" ELSE "insert"]
  /\ UNCHANGED <<jobs, fresh, born, clock, raced>>

-----------------------------------------------------------------------------
(* Meanwhile: workers claim, renew, cache and end jobs, leases expire and    *)
(* are recovered, users cancel and retry, pages expire.                    *)

JobMoves(j) ==
  /\ \/ \E w \in Workers : Claim(w, {j})
     \/ \E w \in Workers, next \in TerminalStatus :
          CompleteIfLeaseOwner(j, w, jobs[j].version, next)
     \/ \E w \in Workers : Heartbeat(j, w, jobs[j].version)
     \/ Cancel(j) \/ Retry(j) \/ LeaseExpires(j)
  /\ raced' = raced \cup RacedBy(j)
  /\ UNCHANGED <<fresh, born, clock, req>>

JobsRecovered ==
  /\ \E j \in Jobs : Expired(j)
  /\ RecoverExpired
  /\ raced' = raced \cup UNION {RacedBy(j) : j \in {i \in Jobs : Expired(i)}}
  /\ UNCHANGED <<fresh, born, clock, req>>

\* An execution stores its page before it completes the job, and even if it
\* has lost the job by then.
PageCached(j) ==
  /\ jobs[j].attempts > 0
  /\ fresh' = fresh \cup {KeyOf[j]}
  /\ UNCHANGED <<jobs, born, clock, req, raced>>

PageExpires(k) ==
  /\ k \in fresh
  /\ fresh' = fresh \ {k}
  /\ UNCHANGED <<jobs, born, clock, req, raced>>

SubmitNext ==
  \/ \E r \in Requests :
       Lookup(r) \/ InsertJob(r) \/ InsertConflicts(r) \/ SelectExisting(r)
  \/ \E j \in Jobs : JobMoves(j) \/ PageCached(j)
  \/ JobsRecovered
  \/ \E k \in Keys : PageExpires(k)

SubmitSpec == SubmitInit /\ [][SubmitNext]_subVars

-----------------------------------------------------------------------------

\* A request is answered with a job that is active as it is answered, never
\* with one that has already ended (whose outcome the caller would wait for).
AnswersActiveJob ==
  [][\A r \in Requests :
       req'[r].pc \in {"created", "joined"} /\ req[r].pc # req'[r].pc
         => jobs'[req'[r].job].status \in ActiveStatus]_subVars

\* A page none of whose crawls has ever ended (in whatever state the row is now)
\* is always either queued or joined: only the outcome of an older crawl can
\* make a request give up.
Ended(j) == jobs[j].status \in TerminalStatus \/ jobs[j].retries > 0

FirstCrawlNeverRefused ==
  \A r \in Requests : req[r].pc = "error" => \E j \in Rows(req[r].key) : Ended(j)

\* What createOrGetByDedup says when it gives up: "Could not establish a crawl
\* job identity after concurrent deduplication races".
RefusedOnlyAfterRaces == \A r \in Requests : req[r].pc = "error" => r \in raced

=============================================================================
