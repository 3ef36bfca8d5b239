---------------------------- MODULE Recommendations ----------------------------
(***************************************************************************)
(* RecommendationEngineService.runDiagnosisForTenant, which turns the open *)
(* alerts of Monitoring and the findings about competitors into pending    *)
(* recommendations, and the users who apply or dismiss them.  A diagnosis  *)
(* is one READ COMMITTED transaction; createOrUpdate looks for a pending   *)
(* recommendation and then updates or inserts one.                         *)
(***************************************************************************)
EXTENDS Monitoring

CONSTANTS Diagnoses, Findings

ASSUME RecommendationsAssumption == Findings \cap Signals = {}

VARIABLES
  advice,    \* recommendations with status 'pending': dedup_key and creator
  handled,   \* those that have been applied or dismissed
  diagnosis, \* where each diagnosis is, and what its transaction has done
  decided    \* history: keys that users have decided on during each diagnosis

adviceVars == <<advice, handled, diagnosis, decided>>
recommendationVars == <<monitoringVars, adviceVars>>

NoDiagnosis == [step |-> "idle", wanted |-> {}, todo |-> {}, missing |-> {},
                made |-> {}, updates |-> {}, updated |-> {}]

RecommendationsInit ==
  /\ MonitoringInit
  /\ advice = {} /\ handled = {}
  /\ diagnosis = [d \in Diagnoses |-> NoDiagnosis]
  /\ decided = [d \in Diagnoses |-> {}]

KeysOf(rows) == {a[1] : a \in rows}
InProgress(d) == diagnosis[d].step \notin {"idle", "done", "failed"}
Concurrent(d) == {e \in Diagnoses \ {d} : InProgress(e)}

-----------------------------------------------------------------------------
(* A diagnosis.                                                            *)

\* The open alerts are read once; the findings are processed behind them.
BeginDiagnosis(d) ==
  /\ diagnosis[d].step = "idle"
  /\ LET wanted == SignalsOf(open) \cup Findings
     IN diagnosis' = [diagnosis EXCEPT ![d].step = "find",
                                       ![d].wanted = wanted, ![d].todo = wanted]
  /\ UNCHANGED <<advice, handled, decided>>

\* Mutant of Existing: the SELECT does not ask for the status.
MutExisting(x) == {a \in advice \cup handled : a[1] = x}

Existing(x) == {a \in advice : a[1] = x}

\* createOrUpdate, its SELECT.
FindPending(d, x) ==
  /\ diagnosis[d].step = "find" /\ x \in diagnosis[d].todo
  /\ x \in Findings => diagnosis[d].todo \subseteq Findings
  /\ diagnosis' = IF Existing(x) # {}
       THEN [diagnosis EXCEPT ![d].step = "update", ![d].updates = Existing(x)]
       ELSE [diagnosis EXCEPT ![d].step = "insert", ![d].missing = {x}]
  /\ UNCHANGED <<advice, handled, decided>>

\* The UPDATE of the row that was found, whatever has become of it: it leaves
\* the status alone, and waits for another transaction that has the row.
UpdateAdvice(d) ==
  /\ diagnosis[d].step = "update"
  /\ \A e \in Concurrent(d) : diagnosis[d].updates \cap diagnosis[e].updated = {}
  /\ diagnosis' = [diagnosis EXCEPT ![d].step = "find", ![d].updates = {},
                     ![d].todo = @ \ KeysOf(diagnosis[d].updates),
                     ![d].updated = @ \cup diagnosis[d].updates]
  /\ UNCHANGED <<advice, handled, decided>>

\* idx_automated_recs_dedup: the INSERT waits for another with this key, and
\* fails if a pending recommendation has it.
InsertAdvice(d) ==
  LET x == diagnosis[d].missing IN
  /\ diagnosis[d].step = "insert"
  /\ \A e \in Concurrent(d) : x \cap diagnosis[e].made = {}
  /\ diagnosis' = IF x \subseteq KeysOf(advice)
       THEN [diagnosis EXCEPT ![d] = [NoDiagnosis EXCEPT !.step = "failed"]]
       ELSE [diagnosis EXCEPT ![d].step = "find", ![d].missing = {},
                              ![d].todo = @ \ x, ![d].made = @ \cup x]
  /\ UNCHANGED <<advice, handled, decided>>

CommitDiagnosis(d) ==
  /\ diagnosis[d].step = "find" /\ diagnosis[d].todo = {}
  /\ advice' = advice \cup {<<x, d>> : x \in diagnosis[d].made}
  /\ diagnosis' = [diagnosis EXCEPT ![d] = [NoDiagnosis EXCEPT !.step = "done"]]
  /\ decided' = [decided EXCEPT ![d] = {}]
  /\ UNCHANGED handled

FailDiagnosis(d) ==
  /\ InProgress(d)
  /\ diagnosis' = [diagnosis EXCEPT ![d] = [NoDiagnosis EXCEPT !.step = "failed"]]
  /\ decided' = [decided EXCEPT ![d] = {}]
  /\ UNCHANGED <<advice, handled>>

-----------------------------------------------------------------------------

\* applyRecommendationAction, dismissRecommendationAction: updateStatus, which
\* waits for a diagnosis that has updated the row.
Decide(a) ==
  /\ \A d \in Diagnoses : a \notin diagnosis[d].updated
  /\ advice' = advice \ {a} /\ handled' = handled \cup {a}
  /\ decided' = [d \in Diagnoses |-> decided[d] \cup IF InProgress(d) THEN {a[1]} ELSE {}]
  /\ UNCHANGED diagnosis

AdviceNext ==
  \/ \E d \in Diagnoses :
       \/ BeginDiagnosis(d) \/ UpdateAdvice(d) \/ InsertAdvice(d)
       \/ CommitDiagnosis(d) \/ FailDiagnosis(d)
       \/ \E x \in diagnosis[d].todo : FindPending(d, x)
  \/ \E a \in advice : Decide(a)

RecommendationsNext ==
  \/ MonitoringNext /\ UNCHANGED adviceVars
  \/ AdviceNext /\ UNCHANGED monitoringVars

RecommendationsSpec == RecommendationsInit /\ [][RecommendationsNext]_recommendationVars

-----------------------------------------------------------------------------

\* When a diagnosis has committed, every alert and finding it read is pending
\* once, unless a user has decided on it meanwhile: one dismissed before comes
\* back, and two diagnoses that overlap make no second copy.
AdviceIsCurrent ==
  [][ \A d \in Diagnoses :
        diagnosis[d].step # "done" /\ diagnosis'[d].step = "done" =>
          \A x \in diagnosis[d].wanted \ decided[d] :
            Cardinality({a \in advice' : a[1] = x}) = 1 ]_recommendationVars

=============================================================================
