------------------------------ MODULE Monitoring ------------------------------
(***************************************************************************)
(* RunMonitoring.execute on one monitoring configuration: a crawl, a       *)
(* snapshot that is compared with the one before, alerts for what has got  *)
(* worse, and the resolution of all other open alerts.  The repositories   *)
(* take the client of the caller's tenant context, so that a run is one    *)
(* READ COMMITTED transaction around the crawl; nothing keeps two runs of  *)
(* a configuration apart but the unique index on open alerts.              *)
(*                                                                         *)
(* A page is "old" or "new" when it is fine, with two contents; "bad" when *)
(* its status, indexability or tags are worse; or not in the snapshot.     *)
(***************************************************************************)
EXTENDS Naturals, FiniteSets

CONSTANTS Runs, Paths, NoSnapshot

Fine == {"old", "new"}
Snapshots == [Paths -> Fine \cup {"bad", "absent"}]

\* The fingerprints: category and url, and the one without a url.
Site == <<"site", "seo">>
Signals == (Paths \X {"technical", "content"}) \cup {Site}

ASSUME MonitoringAssumption == NoSnapshot \notin [at : Nat, pages : Snapshots]

VARIABLES
  latest,    \* the committed snapshot with the last captured_at
  captures,  \* snapshots captured so far: the clock of captured_at
  open,      \* committed alerts with status 'open': fingerprint and creator
  run,       \* where each run is, and what its transaction has done
  before,    \* history: the alerts that were open when each run in progress began
  closed     \* history: fingerprints other runs have resolved meanwhile

monitoringVars == <<latest, captures, open, run, before, closed>>

NoRun == [step |-> "idle", prev |-> NoSnapshot, cur |-> NoSnapshot, report |-> {},
          todo |-> {}, missing |-> {}, rest |-> {}, made |-> {}, resolved |-> {}]

MonitoringInit ==
  /\ latest = NoSnapshot /\ captures = 0 /\ open = {}
  /\ run = [r \in Runs |-> NoRun]
  /\ before = [r \in Runs |-> {}] /\ closed = before

Under(r) == run[r].step \notin {"idle", "done", "failed"}
Others(r) == {q \in Runs \ {r} : Under(q)}
SignalsOf(alerts) == {a[1] : a \in alerts}

-----------------------------------------------------------------------------
(* The comparison.                                                         *)

FinePages(pages) == Cardinality({p \in Paths : pages[p] \in Fine})

\* detectChanges looks only at pages that are in both snapshots; beside them
\* the number of indexable pages is compared.
Regressions(was, is) ==
  {<<p, "technical">> : p \in {q \in Paths : was[q] \in Fine /\ is[q] = "bad"}}
  \cup {<<p, "content">> :
          p \in {q \in Paths : was[q] # is[q] /\ "absent" \notin {was[q], is[q]}}}
  \cup (IF FinePages(is) < FinePages(was) THEN {Site} ELSE {})

-----------------------------------------------------------------------------
(* A run.                                                                  *)

\* The previous snapshot is read before the crawl.
BeginRun(r) ==
  /\ run[r].step = "idle"
  /\ run' = [run EXCEPT ![r].step = "crawl", ![r].prev = latest]
  /\ before' = [before EXCEPT ![r] = open]
  /\ UNCHANGED <<latest, captures, open, closed>>

\* The crawl ends and the snapshot is inserted; the first one is only a
\* baseline.
Capture(r) ==
  /\ run[r].step = "crawl"
  /\ captures' = captures + 1
  /\ \E pages \in Snapshots :
       LET found == IF run[r].prev = NoSnapshot THEN {}
                    ELSE Regressions(run[r].prev.pages, pages)
       IN run' = [run EXCEPT ![r].cur = [at |-> captures + 1, pages |-> pages],
                             ![r].step = IF run[r].prev = NoSnapshot THEN "commit" ELSE "find",
                             ![r].report = found, ![r].todo = found]
  /\ UNCHANGED <<latest, open, before, closed>>

\* Mutant of Visible: the fingerprint leaves the category out.
MutVisible == {x \in Signals : \E a \in open : a[1][1] = x[1]}

\* What findOpenByFingerprint sees: all that is committed.
Visible == SignalsOf(open)

FindOpen(r, x) ==
  /\ run[r].step = "find" /\ x \in run[r].todo
  /\ run' = IF x \in Visible
            THEN [run EXCEPT ![r].todo = @ \ {x}]
            ELSE [run EXCEPT ![r].step = "create", ![r].missing = {x}]
  /\ UNCHANGED <<latest, captures, open, before, closed>>

\* idx_monitoring_alerts_open_fingerprint: the INSERT waits for transactions
\* that have inserted or resolved an alert with this fingerprint, and fails if
\* one is open.
CreateAlert(r, x) ==
  /\ run[r].step = "create" /\ x \in run[r].missing
  /\ \A q \in Others(r) : x \notin run[q].made \cup SignalsOf(run[q].resolved \cap open)
  /\ run' = IF x \in SignalsOf(open)
            THEN [run EXCEPT ![r] = [NoRun EXCEPT !.step = "failed"]]
            ELSE [run EXCEPT ![r].step = "find", ![r].missing = {},
                             ![r].todo = @ \ {x}, ![r].made = @ \cup {x}]
  /\ UNCHANGED <<latest, captures, open, before, closed>>

\* Mutant of Unreported: the alerts of pages that are worse again are the only
\* ones looked at.
MutUnreported(r) == {a \in open : a[1] \notin run[r].report /\ a \notin before[r]}

Unreported(r) == {a \in open : a[1] \notin run[r].report}

\* findOpenAlertsByConfig.
SelectOpen(r) ==
  /\ run[r].step = "find" /\ run[r].todo = {}
  /\ run' = [run EXCEPT ![r].step = "resolve", ![r].rest = Unreported(r)]
  /\ UNCHANGED <<latest, captures, open, before, closed>>

\* The UPDATE waits for another that has the row.
Resolve(r, a) ==
  /\ run[r].step = "resolve"
  /\ \A q \in Others(r) : a \notin run[q].resolved
  /\ run' = [run EXCEPT ![r].rest = @ \ {a}, ![r].resolved = @ \cup {a}]
  /\ UNCHANGED <<latest, captures, open, before, closed>>

CommitRun(r) ==
  /\ run[r].step = "commit" \/ (run[r].step = "resolve" /\ run[r].rest = {})
  /\ open' = (open \ run[r].resolved) \cup {<<x, r>> : x \in run[r].made}
  /\ latest' = IF latest = NoSnapshot \/ run[r].cur.at > latest.at THEN run[r].cur ELSE latest
  /\ run' = [run EXCEPT ![r] = [NoRun EXCEPT !.step = "done"]]
  /\ closed' = [q \in Runs |->
       IF q \in Others(r) THEN closed[q] \cup SignalsOf(open \cap run[r].resolved) ELSE {}]
  /\ before' = [before EXCEPT ![r] = {}]
  /\ UNCHANGED captures

\* The crawl or a statement fails, or PostgreSQL breaks a deadlock of rows.
FailRun(r) ==
  /\ Under(r)
  /\ run' = [run EXCEPT ![r] = [NoRun EXCEPT !.step = "failed"]]
  /\ before' = [before EXCEPT ![r] = {}] /\ closed' = [closed EXCEPT ![r] = {}]
  /\ UNCHANGED <<latest, captures, open>>

-----------------------------------------------------------------------------

MonitoringNext ==
  \E r \in Runs :
    \/ BeginRun(r) \/ Capture(r) \/ SelectOpen(r) \/ CommitRun(r) \/ FailRun(r)
    \/ \E x \in Signals : FindOpen(r, x) \/ CreateAlert(r, x)
    \/ \E a \in run[r].rest : Resolve(r, a)

MonitoringSpec == MonitoringInit /\ [][MonitoringNext]_monitoringVars

-----------------------------------------------------------------------------

\* What a run reports has an open alert once the run has committed, unless an
\* overlapping run has resolved it: an alert the run found may be gone by then,
\* and a resolved one of an earlier time is no substitute.
ReportedIsOpen ==
  [][ \A r \in Runs :
        run[r].step # "done" /\ run'[r].step = "done" =>
          run[r].report \subseteq SignalsOf(open') \cup closed[r] ]_monitoringVars

\* No alert outlives a run that began behind it and did not report it, however
\* many other runs create and resolve alerts of the same fingerprint.
UnreportedIsResolved ==
  [][ \A r \in Runs :
        run[r].step = "resolve" /\ run'[r].step = "done" =>
          \A a \in open' \cap before[r] : a[1] \in run[r].report ]_monitoringVars

\* run-monitoring.ts calls it "Alert Recovery": an alert about a page that is
\* worse is resolved by a run that has seen the page well again.
ResolvedIsRecovered ==
  [][ \A r \in Runs, p \in Paths :
        <<p, "technical">> \in SignalsOf(run'[r].resolved) \ SignalsOf(run[r].resolved) =>
          run[r].cur.pages[p] # "bad" ]_monitoringVars

=============================================================================
