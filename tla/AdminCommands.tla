---------------------------- MODULE AdminCommands ----------------------------
(***************************************************************************)
(* Commands of the administration on one tenant: ApplicationAdminCommand-  *)
(* Handler, the UnitOfWork of each handler and the PostgresClient they all *)
(* share in one process, whose transaction is a flag and an array of       *)
(* operations.  The repositories are not given the unit of work, so each   *)
(* operation is executed by statements of its own.  A saver calls a        *)
(* repository outside any unit of work, as the container allows.           *)
(*                                                                         *)
(* Every await is the border of a step.  A client whose await has settled  *)
(* goes on before the process takes a new request or a reply of the        *)
(* database (Quiet); but the others whose awaits have settled, and a unit  *)
(* that gets a connection meanwhile, go on between its steps.              *)
(***************************************************************************)
EXTENDS Naturals, Sequences, FiniteSets

CONSTANTS
  Units,       \* UnitOfWork instances
  Commands,    \* commands in progress at once
  UnitOf,      \* the unit of the handler of each
  Creates,     \* those that create the tenant; the others change it
  Savers,      \* callers of TenantRepository.save without a unit of work
  PoolSize,    \* connections for units of work
  MaxVersion   \* bound of the model: no write behind this version

Clients == Commands \cup Savers

ASSUME AdminAssumption ==
  /\ IsFiniteSet(Units) /\ UnitOf \in [Commands -> Units]
  /\ Creates \subseteq Commands /\ Commands \cap Savers = {}
  /\ PoolSize \in Nat /\ MaxVersion \in Nat

VARIABLES
  memory,    \* the in-memory stores are enabled: NODE_ENV is "test"
  version,   \* organizations.version of the tenant; 0 while it has no row
  records,   \* the commands whose audit record is stored
  inTx,      \* PostgresClient.inTransaction
  queue,     \* PostgresClient.currentTransactionOperations
  active,    \* isTransactionActive of each unit
  leased,    \* units that hold a connection
  pc,        \* where each client is
  loop,      \* the operations each client is running
  entity,    \* the version its copy of the tenant has
  seen,      \* the version its running operation has read
  broken     \* history: the units whose startTransaction has failed midway

table == <<memory, version, records>>
client == <<inTx, queue, loop>>
units == <<active, leased, broken>>
copies == <<entity, seen>>
adminVars == <<table, client, units, copies, pc>>

\* The operations a client runs one after the other: the client's array, while
\* it is the current one, or a list nobody extends; and what comes behind them.
NoLoop == [live |-> FALSE, ops |-> <<>>, at |-> 1, then |-> "idle"]

AdminInit ==
  /\ memory \in BOOLEAN
  /\ version \in {0, 1}
  /\ records = {} /\ inTx = FALSE /\ queue = <<>>
  /\ active = [u \in Units |-> FALSE] /\ leased = {}
  /\ pc = [c \in Clients |-> "idle"] /\ loop = [c \in Clients |-> NoLoop]
  /\ entity = [c \in Clients |-> 1] /\ seen = entity   \* of one it creates
  /\ broken = {}

Proceeds(c, to) == pc' = [pc EXCEPT ![c] = to]

\* No client has an await that has settled.
Quiet ==
  \A c \in Clients : pc[c] \notin {"begin", "save", "audit", "commit", "next",
                                   "catch", "finally", "undo", "return"}

\* The client gets a new array; the loops over the old one keep that.
NewArray ==
  /\ queue' = <<>>
  /\ loop' = [c \in Clients |-> IF loop[c].live
                                THEN [loop[c] EXCEPT !.live = FALSE, !.ops = queue]
                                ELSE loop[c]]

Clears == inTx' = FALSE /\ NewArray

-----------------------------------------------------------------------------
(* UnitOfWork.startTransaction.                                            *)

\* A request.  The flag is set first; a unit whose flag is set refuses it.
Start(c) ==
  LET u == UnitOf[c] IN
  /\ pc[c] = "idle" /\ Quiet
  /\ Proceeds(c, IF active[u] THEN "failed" ELSE "connect")
  /\ active' = [active EXCEPT ![u] = TRUE]
  /\ UNCHANGED <<table, client, copies, leased, broken>>

\* connectClient; a connection that is released serves a waiting unit at once.
Connected(c) ==
  /\ pc[c] = "connect" /\ Cardinality(leased) < PoolSize
  /\ leased' = leased \cup {UnitOf[c]}
  /\ Proceeds(c, "begin")
  /\ UNCHANGED <<table, client, copies, active, broken>>

ConnectFails(c) ==
  /\ pc[c] = "connect" /\ Quiet
  /\ broken' = broken \cup {UnitOf[c]}
  /\ Proceeds(c, "failed")
  /\ UNCHANGED <<table, client, copies, active, leased>>

\* When another unit is in its transaction begin() throws, and nobody returns
\* the connection.
Begins(c) ==
  /\ pc[c] = "begin"
  /\ IF inTx
     THEN /\ Proceeds(c, "failed")
          /\ broken' = broken \cup {UnitOf[c]}
          /\ UNCHANGED client
     ELSE /\ Proceeds(c, IF c \in Creates THEN "save" ELSE "select")
          /\ inTx' = TRUE /\ NewArray
          /\ UNCHANGED broken
  /\ UNCHANGED <<table, copies, active, leased>>

-----------------------------------------------------------------------------
(* The work of a command: its SELECT, unless it creates the tenant, and    *)
(* the two operations it registers.                                        *)

\* The command changes the copy, whose version the aggregate raises unless
\* nothing changes.
Select(c) ==
  /\ pc[c] = "select" /\ Quiet /\ version > 0
  /\ \E raised \in {0, 1} : entity' = [entity EXCEPT ![c] = version + raised]
  /\ Proceeds(c, "save")
  /\ UNCHANGED <<table, client, units, seen>>

\* The loop l of c goes on with its next operation.  Behind the last one a
\* commit ends the transaction, whoever has begun it.
Iterates(c, l) ==
  IF l.at <= Len(IF l.live THEN queue ELSE l.ops)
  THEN loop' = [loop EXCEPT ![c] = l] /\ Proceeds(c, "run") /\ UNCHANGED <<inTx, queue>>
  ELSE /\ Proceeds(c, l.then)
       /\ IF l.then = "publish"
          THEN Clears
          ELSE loop' = [loop EXCEPT ![c] = NoLoop] /\ UNCHANGED <<inTx, queue>>

\* registerTransactionOp: without a transaction the operation runs at once, and
\* otherwise it joins whatever transaction is active.
Registers(c, op, then) ==
  LET o == [op |-> op, of |-> c] IN
  IF inTx
  THEN queue' = Append(queue, o) /\ Proceeds(c, then) /\ UNCHANGED <<inTx, loop>>
  ELSE Iterates(c, [live |-> FALSE, ops |-> <<o>>, at |-> 1, then |-> then])

Save(c) ==
  /\ pc[c] = "save" /\ Registers(c, "tenant", "audit")
  /\ UNCHANGED <<table, units, copies>>

AppendAudit(c) ==
  /\ pc[c] = "audit" /\ Registers(c, "audit", "commit")
  /\ UNCHANGED <<table, units, copies>>

\* A saver does nothing else.
SaverReads(c) ==
  /\ c \in Savers /\ pc[c] = "idle" /\ Quiet /\ version > 0
  /\ entity' = [entity EXCEPT ![c] = version]
  /\ Proceeds(c, "changed")
  /\ UNCHANGED <<table, client, units, seen>>

SaverSaves(c) ==
  /\ pc[c] = "changed" /\ Quiet /\ Registers(c, "tenant", "done")
  /\ UNCHANGED <<table, units, copies>>

\* The work is done: pg.commit() runs the operations of the current array, or
\* throws when there is no transaction.
EnterCommit(c) ==
  /\ pc[c] = "commit"
  /\ IF inTx
     THEN Iterates(c, [live |-> TRUE, ops |-> <<>>, at |-> 1, then |-> "publish"])
     ELSE Proceeds(c, "undo") /\ UNCHANGED client
  /\ UNCHANGED <<table, units, copies>>

-----------------------------------------------------------------------------
(* The operations.                                                         *)

Current(c) == (IF loop[c].live THEN queue ELSE loop[c].ops)[loop[c].at]
Running(c, op) == pc[c] = "run" /\ Quiet /\ Current(c).op = op

\* save, its SELECTs and the comparison of the versions.
ReadRow(c) ==
  /\ Running(c, "tenant") /\ memory
  /\ version > 0 => entity[Current(c).of] - version \in {0, 1}
  /\ seen' = [seen EXCEPT ![c] = version]
  /\ Proceeds(c, "write")
  /\ UNCHANGED <<table, client, units, entity>>

\* save, its UPDATE or INSERT, which always writes the version behind the one
\* that was read, if the row is still that one: WHERE version = $7, or a
\* primary key that is still free.
Writes(c) ==
  /\ version = seen[c] /\ seen[c] < MaxVersion
  /\ version' = seen[c] + 1
  /\ UNCHANGED <<memory, records>>

WriteRow(c) ==
  /\ pc[c] = "write" /\ Quiet /\ Writes(c)
  /\ entity' = [entity EXCEPT ![Current(c).of] = seen[c] + 1]
  /\ Proceeds(c, "next")
  /\ UNCHANGED <<client, units, seen>>

SaveAudit(c) ==
  /\ Running(c, "audit") /\ memory /\ Current(c).of \notin records
  /\ records' = records \cup {Current(c).of}
  /\ Proceeds(c, "next")
  /\ UNCHANGED <<memory, version, client, units, copies>>

NextOperation(c) ==
  /\ pc[c] = "next"
  /\ Iterates(c, [loop[c] EXCEPT !.at = @ + 1])
  /\ UNCHANGED <<table, units, copies>>

-----------------------------------------------------------------------------
(* The end of a command.                                                   *)

\* The deferred events are published while the unit is still active.
Publish(c) ==
  /\ pc[c] = "publish"
  /\ active' = [active EXCEPT ![UnitOf[c]] = FALSE]
  /\ leased' = leased \ {UnitOf[c]}
  /\ Proceeds(c, "done")
  /\ UNCHANGED <<table, client, copies, broken>>

\* A statement may have taken effect although what comes back is an error, and
\* a record is stored when its in-memory store is found disabled.
Effect(c) ==
  \/ UNCHANGED table
  \/ pc[c] = "write" /\ Writes(c)
  \/ /\ Running(c, "audit")
     /\ records' = records \cup {Current(c).of}
     /\ UNCHANGED <<memory, version>>

\* The work throws (no such tenant), or an operation does: a version that does
\* not fit, a row that has changed, a record that is stored already, a failed
\* statement, stores that are disabled.
Fails(c) ==
  /\ pc[c] \in {"select", "run", "write"} /\ Quiet
  /\ Effect(c)
  /\ loop' = [loop EXCEPT ![c] = NoLoop]
  /\ Proceeds(c, IF c \in Savers THEN "failed"
                 ELSE IF loop[c].then = "publish" THEN "catch" ELSE "undo")
  /\ UNCHANGED <<inTx, queue, units, copies>>

\* Mutant of Unwinds: UnitOfWork.rollback leaves the client alone.
MutUnwinds(c) ==
  /\ pc[c] \in {"catch", "finally", "undo"}
  /\ IF pc[c] = "undo" THEN UNCHANGED client ELSE Clears
  /\ Proceeds(c, CASE pc[c] = "catch" -> "finally" [] pc[c] = "finally" -> "undo"
                   [] OTHER -> "return")
  /\ UNCHANGED <<table, units, copies>>

\* The rollbacks of a failure, with an await behind each: the catch and the
\* finally of pg.commit(), and the pg.rollback() of the unit, which is active.
\* Each ends whatever transaction the client is in by then.
Unwinds(c) ==
  /\ pc[c] \in {"catch", "finally", "undo"}
  /\ Clears
  /\ Proceeds(c, CASE pc[c] = "catch" -> "finally" [] pc[c] = "finally" -> "undo"
                   [] OTHER -> "return")
  /\ UNCHANGED <<table, units, copies>>

\* Mutant of Return: the connection of a failed command is not released.
MutReturn(c) ==
  /\ pc[c] = "return"
  /\ active' = [active EXCEPT ![UnitOf[c]] = FALSE]
  /\ Proceeds(c, "failed")
  /\ UNCHANGED <<table, client, copies, leased, broken>>

\* The rest of UnitOfWork.rollback; the further rollbacks of the unit on the way
\* out find it inactive.  What operations have written stays.
Return(c) ==
  /\ pc[c] = "return"
  /\ active' = [active EXCEPT ![UnitOf[c]] = FALSE]
  /\ leased' = leased \ {UnitOf[c]}
  /\ Proceeds(c, "failed")
  /\ UNCHANGED <<table, client, copies, broken>>

-----------------------------------------------------------------------------

AdminNext ==
  \/ \E c \in Commands :
       \/ Start(c) \/ Connected(c) \/ ConnectFails(c) \/ Begins(c)
       \/ Select(c) \/ Save(c) \/ AppendAudit(c) \/ EnterCommit(c)
       \/ Publish(c) \/ Unwinds(c) \/ Return(c)
  \/ \E c \in Clients :
       ReadRow(c) \/ WriteRow(c) \/ SaveAudit(c) \/ NextOperation(c) \/ Fails(c)
  \/ \E c \in Savers : SaverReads(c) \/ SaverSaves(c)

AdminSpec == AdminInit /\ [][AdminNext]_adminVars

-----------------------------------------------------------------------------

\* A unit of work that no command uses is inactive and holds no connection,
\* whatever has failed, unless its startTransaction failed midway.
UnitsAreReturned ==
  \A u \in Units :
    \/ u \in broken
    \/ \E c \in Commands : UnitOf[c] = u /\ pc[c] \notin {"idle", "done", "failed"}
    \/ ~active[u] /\ u \notin leased

\* While the shared client is in a transaction some command is between its begin
\* and its last rollback or its commit, and will end it: no order of begins,
\* rollbacks and commits leaves the flag set for good, behind which every begin
\* of the process would throw.
TransactionIsOwned ==
  inTx => \E c \in Commands :
            pc[c] \in {"select", "save", "audit", "commit", "run", "write", "next",
                       "catch", "finally", "undo"}

=============================================================================
