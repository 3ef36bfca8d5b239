---------------------------- MODULE TenantContext ----------------------------
(***************************************************************************)
(* src/core/database/tenant-context/index.ts: scopes of a tenant or of the *)
(* system, nested along an asynchronous flow of calls (a task), and the    *)
(* pool of connections they lease.  A scope inside one of the same mode    *)
(* uses the transaction of the enclosing scope, any other scope leases a   *)
(* connection while its task keeps those it already has.                   *)
(***************************************************************************)
EXTENDS Naturals, FiniteSets, SequencesExt, FiniteSetsExt

CONSTANTS
  Tasks,      \* server actions, requests, jobs
  Tenants,
  System,     \* the system mode, and the setting of a transaction without tenant
  Conns,      \* the connections of the pool
  NoConn,
  ModesOf,    \* the modes each task opens scopes in
  Scopes      \* bound of the model: how many scopes each task opens

ASSUME TenantContextAssumption ==
  /\ System \notin Tenants /\ NoConn \notin Conns
  /\ ModesOf \in [Tasks -> SUBSET (Tenants \cup {System})]
  /\ Scopes \in [Tasks -> Nat]

VARIABLES
  stack,      \* AsyncLocalStorage: the scopes each task is in, innermost last
  pc,         \* where each task is in its innermost scope
  queue,      \* the tasks waiting for a connection, in order
  free,       \* the connections in the pool
  tx,         \* what PostgreSQL knows of each connection
  opened,     \* how many scopes each task has opened
  visible     \* history: the committed writes of the tasks that still run

ctxVars == <<stack, pc, queue, free, tx, opened, visible>>

Modes == Tenants \cup {System}
Ids == 1..Max({Scopes[t] : t \in Tasks})

\* A write of a scope: the tenant of its row, and the savepoints around it.
Writes == [task : Tasks, scope : Ids, mode : Modes, tenant : Modes, within : SUBSET Ids]

\* acked and undone are history: the acknowledged writes of the transaction,
\* and its savepoint scopes that were rejected.
IdleTx == [state |-> "idle", tenant |-> System, writes |-> {}, acked |-> {}, undone |-> {}]

ContextTypeOK ==
  /\ \A t \in Tasks :
       /\ pc[t] \in {"idle", "waiting", "leased", "work", "throwing"}
       /\ pc[t] = "idle" <=> stack[t] = <<>>
       /\ \A i \in DOMAIN stack[t] :
            stack[t][i].conn \in Conns \/ (i = Len(stack[t]) /\ pc[t] = "waiting")
       /\ opened[t] \in Len(stack[t])..Scopes[t]
  /\ ToSet(queue) = {t \in Tasks : pc[t] = "waiting"} /\ IsInjective(queue)
  /\ free \subseteq Conns
  /\ \A c \in Conns :
       /\ tx[c].state \in {"idle", "open", "failed", "broken"} /\ tx[c].tenant \in Modes
       /\ tx[c].writes \subseteq tx[c].acked /\ tx[c].undone \subseteq Ids
       /\ \A w \in tx[c].acked \cup visible : w \in Writes

ContextInit ==
  /\ stack = [t \in Tasks |-> <<>>] /\ pc = [t \in Tasks |-> "idle"]
  /\ queue = <<>> /\ free = Conns /\ tx = [c \in Conns |-> IdleTx]
  /\ opened = [t \in Tasks |-> 0] /\ visible = {}

Top(t) == Last(stack[t])
TopTx(t) == tx[Top(t).conn]

\* The savepoint scopes of its transaction that the innermost scope of t is in.
Savepoints(t) == {f.id : f \in {g \in ToSet(stack[t]) : g.save /\ g.conn = Top(t).conn}}

\* A rejected promise is caught by the enclosing work, or is rethrown by it.
Thrown(rest) == IF rest = <<>> THEN {"idle"} ELSE {"work", "throwing"}
Continues(rest) == IF rest = <<>> THEN {"idle"} ELSE {"work"}

\* The innermost scope of t is left, after the transaction made writes visible.
Leave(t, continuations, writes) ==
  /\ stack' = [stack EXCEPT ![t] = Front(@)]
  /\ \E next \in continuations : pc' = [pc EXCEPT ![t] = next]
  /\ visible' = IF Len(stack[t]) = 1 THEN {w \in visible : w.task # t}
                ELSE visible \cup writes

Resolve(t, writes) == Leave(t, Continues(Front(stack[t])), writes)
Reject(t, writes) == Leave(t, Thrown(Front(stack[t])), writes)

\* Mutant of Release: the connection goes back with its transaction open.
MutReleaseOpen(t) ==
  /\ free' = free \cup {Top(t).conn}
  /\ UNCHANGED tx

\* release(): what remains of the transaction ends with ROLLBACK before it, and
\* the pool replaces a broken connection.
Release(t) ==
  /\ free' = free \cup {Top(t).conn}
  /\ tx' = [tx EXCEPT ![Top(t).conn] = IdleTx]

-----------------------------------------------------------------------------
(* Entering a scope.                                                         *)

\* Mutant of Reuses: the transaction of the enclosing scope, whatever its mode.
MutReusesAny(t, m) == stack[t] # <<>>

\* The enclosing scope, if there is one, has the same mode.
Reuses(t, m) == stack[t] # <<>> /\ Top(t).mode = m

MayEnter(t) == pc[t] \in {"idle", "work"} /\ opened[t] < Scopes[t]

Scope(t, m, conn, own, save, mark) ==
  [id |-> opened[t] + 1, mode |-> m, conn |-> conn, own |-> own, save |-> save, mark |-> mark]

\* The scope needs a connection of its own: pool.connect() is awaited.
LeaseScope(t, m) ==
  /\ MayEnter(t) /\ ~Reuses(t, m)
  /\ opened' = [opened EXCEPT ![t] = @ + 1]
  /\ stack' = [stack EXCEPT ![t] = Append(@, Scope(t, m, NoConn, TRUE, FALSE, {}))]
  /\ queue' = Append(queue, t)
  /\ pc' = [pc EXCEPT ![t] = "waiting"]
  /\ UNCHANGED <<free, tx, visible>>

\* The scope runs in the transaction of the enclosing one, behind a SAVEPOINT
\* when save: a SAVEPOINT that fails rejects before the work begins.
ReuseScope(t, m, save) ==
  /\ MayEnter(t) /\ Reuses(t, m) /\ (save => m # System)
  /\ opened' = [opened EXCEPT ![t] = @ + 1]
  /\ IF save /\ TopTx(t).state # "open"
     THEN /\ \E next \in {"work", "throwing"} : pc' = [pc EXCEPT ![t] = next]
          /\ UNCHANGED stack
     ELSE /\ stack' = [stack EXCEPT ![t] =
                         Append(@, Scope(t, m, Top(t).conn, FALSE, save, TopTx(t).writes))]
          /\ UNCHANGED pc
  /\ UNCHANGED <<queue, free, tx, visible>>

\* The pool serves the oldest waiting call.
Grant(c) ==
  /\ c \in free /\ queue # <<>>
  /\ LET t == Head(queue)
     IN  /\ stack' = [stack EXCEPT ![t][Len(stack[t])].conn = c]
         /\ pc' = [pc EXCEPT ![t] = "leased"]
  /\ queue' = Tail(queue) /\ free' = free \ {c}
  /\ UNCHANGED <<tx, opened, visible>>

LeavesQueue(t) == \E i \in DOMAIN queue : queue[i] = t /\ queue' = RemoveAt(queue, i)

\* Mutant of LeaseTimeout: only the outermost scope of a task gives up.
MutTimeoutOutermost(t) ==
  /\ pc[t] = "waiting" /\ Len(stack[t]) = 1
  /\ LeavesQueue(t)
  /\ Reject(t, {})
  /\ UNCHANGED <<free, tx, opened>>

\* connectionTimeoutMillis: pool.connect() rejects and so does the scope.
LeaseTimeout(t) ==
  /\ pc[t] = "waiting"
  /\ LeavesQueue(t)
  /\ Reject(t, {})
  /\ UNCHANGED <<free, tx, opened>>

\* BEGIN, and set_config for a tenant.
Open(t) ==
  /\ pc[t] = "leased"
  /\ tx' = [tx EXCEPT ![Top(t).conn] = [IdleTx EXCEPT !.state = "open", !.tenant = Top(t).mode]]
  /\ pc' = [pc EXCEPT ![t] = "work"]
  /\ UNCHANGED <<stack, queue, free, opened, visible>>

OpenFails(t) ==
  /\ pc[t] = "leased"
  /\ Release(t) /\ Reject(t, {})
  /\ UNCHANGED <<queue, opened>>

-----------------------------------------------------------------------------
(* The work of a scope.                                                      *)

\* A statement that changes a row; the row belongs to the tenant the
\* transaction is set to, as the policies of the tables enforce.
Write(t) ==
  LET w == [task |-> t, scope |-> Top(t).id, mode |-> Top(t).mode,
            tenant |-> TopTx(t).tenant, within |-> Savepoints(t)]
  IN  /\ pc[t] = "work" /\ TopTx(t).state = "open" /\ w \notin TopTx(t).writes
      /\ tx' = [tx EXCEPT ![Top(t).conn].writes = @ \cup {w},
                          ![Top(t).conn].acked = @ \cup {w}]
      /\ UNCHANGED <<stack, pc, queue, free, opened, visible>>

\* A statement fails, which ends the transaction for all but ROLLBACK, or the
\* connection is lost, and PostgreSQL rolls back; the work lets the error pass
\* or swallows it.
StatementFails(t) ==
  /\ pc[t] = "work"
  /\ \/ /\ TopTx(t).state = "open"
        /\ tx' = [tx EXCEPT ![Top(t).conn].state = "failed"]
     \/ /\ TopTx(t).state # "broken"
        /\ tx' = [tx EXCEPT ![Top(t).conn].state = "broken", ![Top(t).conn].writes = {}]
  /\ \E next \in {"work", "throwing"} : pc' = [pc EXCEPT ![t] = next]
  /\ UNCHANGED <<stack, queue, free, opened, visible>>

\* The work throws for a reason of its own.
Throw(t) ==
  /\ pc[t] = "work"
  /\ pc' = [pc EXCEPT ![t] = "throwing"]
  /\ UNCHANGED <<stack, queue, free, tx, opened, visible>>

-----------------------------------------------------------------------------
(* Leaving a scope.                                                          *)

\* COMMIT, then release.  PostgreSQL answers the COMMIT of a failed
\* transaction without an error, and applies nothing.
Commit(t) ==
  /\ pc[t] = "work" /\ Top(t).own /\ TopTx(t).state \in {"open", "failed"}
  /\ Resolve(t, IF TopTx(t).state = "open" THEN TopTx(t).writes ELSE {})
  /\ Release(t)
  /\ UNCHANGED <<queue, opened>>

\* COMMIT rejects: on a broken connection, or because the connection breaks
\* before the reply, whether or not the server has committed.
CommitFails(t) ==
  /\ pc[t] = "work" /\ Top(t).own
  /\ \E applied \in {{}} \cup (IF TopTx(t).state = "open" THEN {TopTx(t).writes} ELSE {}) :
       Reject(t, applied)
  /\ Release(t)
  /\ UNCHANGED <<queue, opened>>

\* The work of an owning scope threw: ROLLBACK, then release.
Rollback(t) ==
  /\ pc[t] = "throwing" /\ Top(t).own
  /\ Release(t) /\ Reject(t, {})
  /\ UNCHANGED <<queue, opened>>

\* Mutant of ReturnReused: the nested scope commits.
MutReturnCommits(t) ==
  /\ pc[t] = "work" /\ ~Top(t).own
  /\ Top(t).save => TopTx(t).state = "open"
  /\ Resolve(t, TopTx(t).writes)
  /\ UNCHANGED <<queue, free, tx, opened>>

\* A scope in a reused transaction returns, after RELEASE SAVEPOINT if it has one.
ReturnReused(t) ==
  /\ pc[t] = "work" /\ ~Top(t).own
  /\ Top(t).save => TopTx(t).state = "open"
  /\ Resolve(t, {})
  /\ UNCHANGED <<queue, free, tx, opened>>

\* Mutant of Undone: ROLLBACK for ROLLBACK TO SAVEPOINT.
MutUndoneAll(f) == {}

\* What ROLLBACK TO SAVEPOINT leaves of the transaction.
Undone(f) == f.mark

\* The work of a scope in a reused transaction threw, or RELEASE SAVEPOINT
\* did: without a savepoint nothing is undone here.
RejectReused(t) ==
  /\ ~Top(t).own
  /\ pc[t] = "throwing" \/ (pc[t] = "work" /\ Top(t).save /\ TopTx(t).state # "open")
  /\ IF Top(t).save /\ TopTx(t).state # "broken"
     THEN tx' = [tx EXCEPT ![Top(t).conn].state = "open",
                           ![Top(t).conn].writes = Undone(Top(t)),
                           ![Top(t).conn].undone = @ \cup {Top(t).id}]
     ELSE UNCHANGED tx
  /\ Reject(t, {})
  /\ UNCHANGED <<queue, free, opened>>

TaskStep(t) ==
  \/ \E m \in ModesOf[t] : LeaseScope(t, m) \/ \E save \in BOOLEAN : ReuseScope(t, m, save)
  \/ Open(t) \/ OpenFails(t) \/ LeaseTimeout(t)
  \/ stack[t] # <<>> /\ (\/ Write(t) \/ StatementFails(t) \/ Throw(t)
                         \/ Commit(t) \/ CommitFails(t) \/ Rollback(t)
                         \/ ReturnReused(t) \/ RejectReused(t))

ContextNext == (\E t \in Tasks : TaskStep(t)) \/ (\E c \in Conns : Grant(c))

\* The event loop never rests while a statement, a timer or a waiting call has
\* something for it; that the work of a scope ends is in the bounds.
ContextFairness == WF_ctxVars(ContextNext)

ContextSpec == ContextInit /\ [][ContextNext]_ctxVars /\ ContextFairness

-----------------------------------------------------------------------------
(* Every row a scope writes belongs to the tenant the scope was opened for,  *)
(* through nesting, reuse and the return of connections to the pool          *)
(* (runWithTenantContext, "Guarantees").                                     *)
OwnTenantOnly == \A c \in Conns : \A w \in tx[c].acked : w.tenant = w.mode

(* A connection is in the pool, without a transaction, or exactly one scope  *)
(* has leased it: none leaks and none is shared, whatever failed.            *)
NoConnectionLeaks ==
  \A c \in Conns :
    LET owners == UNION {{<<t, i>> : i \in {k \in DOMAIN stack[t] :
                                       stack[t][k].own /\ stack[t][k].conn = c}} : t \in Tasks}
    IN  IF c \in free THEN owners = {} /\ tx[c] = IdleTx ELSE Cardinality(owners) = 1

(* The writes of nested scopes are seen by others only once the scope that   *)
(* owns the transaction has ended.                                           *)
CommitsWithOwner == \A c \in Conns : tx[c].acked \cap visible = {}

(* A transaction that may still commit holds exactly those acknowledged      *)
(* writes that no rejected savepoint around them has undone: what a nested   *)
(* scope undoes is its own, and what it has undone never commits.            *)
UndoesItsOwn ==
  \A c \in Conns :
    tx[c].state = "open" =>
      tx[c].writes = {w \in tx[c].acked : w.within \cap tx[c].undone = {}}

(* Every flow of scopes ends, also when nested scopes wait for connections   *)
(* that waiting tasks hold: connectionTimeoutMillis breaks the circle.       *)
EveryFlowEnds == \A t \in Tasks : stack[t] # <<>> ~> stack[t] = <<>>
=============================================================================
