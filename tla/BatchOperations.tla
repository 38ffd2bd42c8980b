-------------------------- MODULE BatchOperations --------------------------
(***************************************************************************)
(* BatchOperationService: a batch of Orby operations is built one by one,  *)
(* stored as one record, executed by submitting its operations one by one, *)
(* and polled until they have settled.  The submissions themselves are     *)
(* those of OrbyOperations: an executeBatch call drives the request slot   *)
(* `handler` of the same name through submitSignedOperations.  Nothing     *)
(* here runs in a database transaction.                                    *)
(***************************************************************************)
EXTENDS OrbyOperations, Sequences, FiniteSets

CONSTANTS
  Batches,      \* batch ids the code generates
  BatchOps,     \* the operationSetIds generated for a batch, by position
  SignedLists,  \* what clients sign: the operationSetIds, in order
  Pollers       \* concurrent getBatchStatus calls

MaxOperations == 10

ASSUME BatchConstants ==
  /\ BatchOps \in [Batches -> Seq(Ops)]
  /\ SignedLists \subseteq Seq(Ops)

\* An operationSetId contains the batch's random id and the position.
ASSUME BatchOpsApart ==
  \A b, c \in Batches : \A i \in DOMAIN BatchOps[b], j \in DOMAIN BatchOps[c] :
    BatchOps[b][i] = BatchOps[c][j] => b = c /\ i = j

VARIABLES
  batch,     \* the batch_operations rows
  creator,   \* where the createBatchIntent call of each batch id stands
  executor,  \* where each executeBatch call stands; `accepted`, a history, has the
             \* positions of its list whose submission it saw accepted
  poller     \* where each getBatchStatus call stands

batchVars == <<batch, creator, executor, poller>>
allVars == <<vars, batchVars>>

BatchStatus ==
  {"unused", "created", "partial", "submitted", "failed", "completed", "deleted"}

Items == Seq([op : Ops, status : {"created", "failed"}])

Stored(b) == batch[b].status \notin {"unused", "deleted"}

IdleExecutor == [pc |-> "idle", batch |-> None, list |-> <<>>, next |-> 1,
                 submitted |-> 0, failed |-> 0, accepted |-> {}]

IdlePoller == [pc |-> "idle", batch |-> None, seen |-> "unused", overall |-> "unused"]

FreshCreator == [pc |-> "idle", atomic |-> FALSE, retry |-> FALSE, n |-> 0,
                 items |-> <<>>]

BatchInit ==
  /\ Init
  /\ batch = [b \in Batches |->
                [status |-> "unused", atomic |-> FALSE, items |-> <<>>]]
  /\ creator = [b \in Batches |-> FreshCreator]
  /\ executor = [x \in Handlers |-> IdleExecutor]
  /\ poller = [p \in Pollers |-> IdlePoller]

-----------------------------------------------------------------------------
(* createBatchIntent.                                                      *)

ItemOps(items) == {items[i].op : i \in DOMAIN items}
FailedItems(items) == {i \in DOMAIN items : items[i].status = "failed"}

\* A failed item is kept without an operationSetId: its id names nothing.
NamedOps(items) == {items[i].op : i \in DOMAIN items \ FailedItems(items)}

\* The profile lookup and the validation of the number of operations.
CreateBatch(b, atomic, retry, n) ==
  /\ profile
  /\ creator[b].pc = "idle"
  /\ n \in 1..MaxOperations /\ n <= Len(BatchOps[b])
  /\ creator' = [creator EXCEPT ![b] =
       [pc |-> "building", atomic |-> atomic, retry |-> retry, n |-> n,
        items |-> <<>>]]
  /\ UNCHANGED <<vars, batch, executor, poller>>

\* retryFailedOperations hands the chosen operations of an old batch to
\* createBatchIntent, never as an atomic batch.
RetryBatch(old, b) ==
  /\ Stored(old)
  /\ \E n \in 1..Len(batch[old].items) : CreateBatch(b, FALSE, TRUE, n)

NextOp(b) == BatchOps[b][Len(creator[b].items) + 1]

Building(b) ==
  /\ creator[b].pc = "building"
  /\ Len(creator[b].items) < creator[b].n

AddItem(b, status, pc) ==
  creator' = [creator EXCEPT ![b].pc = pc,
    ![b].items = Append(@, [op |-> NextOp(b), status |-> status])]

\* Orby builds the operation and the row is stored.  The operations of a
\* retry come from the batch record, which keeps no 'from' and no 'to': to
\* build one throws.
BuildItem(b) ==
  /\ Building(b)
  /\ profile /\ ~creator[b].retry
  /\ StoreCreated(NextOp(b))
  /\ AddItem(b, "created", "building")
  /\ UNCHANGED <<profile, handler, orby, subs, callback, crashes, batch,
                 executor, poller>>

\* Building or storing throws; an atomic batch stops at once.
BuildFails(b) ==
  /\ Building(b)
  /\ AddItem(b, "failed", IF creator[b].atomic THEN "cleanup" ELSE "building")
  /\ UNCHANGED <<vars, batch, executor, poller>>

\* A mutation: the refused batch leaves the operations it had stored.
CleanUpForgotten(b) ==
  /\ creator[b].pc = "cleanup"
  /\ creator' = [creator EXCEPT ![b].pc = "refused"]
  /\ UNCHANGED <<vars, batch, executor, poller>>

\* deleteMany over the rows whose metadata contains the batch id; the client
\* is told 'Batch operation failed'.
CleanUp(b) ==
  /\ creator[b].pc = "cleanup"
  /\ row' = [op \in Ops |->
       IF op \in ItemOps(creator[b].items) /\ Exists(op)
       THEN [status |-> "deleted", completedAt |-> FALSE, txs |-> 0]
       ELSE row[op]]
  /\ creator' = [creator EXCEPT ![b].pc = "refused"]
  /\ UNCHANGED <<profile, handler, orby, subs, callback, crashes, batch,
                 executor, poller>>

\* ... unless that deletion fails for an error of the database.
CleanUpFails(b) ==
  /\ creator[b].pc = "cleanup"
  /\ creator' = [creator EXCEPT ![b].pc = "error"]
  /\ UNCHANGED <<vars, batch, executor, poller>>

Built(b) == creator[b].pc = "building" /\ Len(creator[b].items) = creator[b].n

\* The batch record is stored last.
StoreBatch(b) ==
  LET items == creator[b].items
  IN /\ Built(b) /\ profile
     /\ batch' = [batch EXCEPT ![b] =
          [status |-> IF FailedItems(items) # {} THEN "partial" ELSE "created",
           atomic |-> creator[b].atomic, items |-> items]]
     /\ creator' = [creator EXCEPT ![b].pc = "done"]
     /\ UNCHANGED <<vars, executor, poller>>

\* ... unless the insertion throws: the profile is gone, or any other error of
\* the database.  Nothing is cleaned up then.
StoreFails(b) ==
  /\ Built(b)
  /\ creator' = [creator EXCEPT ![b].pc = "error"]
  /\ UNCHANGED <<vars, batch, executor, poller>>

-----------------------------------------------------------------------------
(* executeBatch.                                                           *)

\* The lookup and the status check; the record's operations and atomic flag
\* never change, so the call may be taken to read them again later.
ExecuteCheck(x, b, list) ==
  /\ executor[x].pc = "idle" /\ handler[x].pc = "idle"
  /\ batch[b].status \in {"created", "partial"}
  /\ executor' = [executor EXCEPT ![x] =
       [IdleExecutor EXCEPT !.pc = "loop", !.batch = b, !.list = list]]
  /\ UNCHANGED <<vars, batch, creator, poller>>

Signed(x) == executor[x].list[executor[x].next]
More(x) == executor[x].pc = "loop" /\ executor[x].next <= Len(executor[x].list)

\* An id that the batch does not hold counts as failed, and the loop goes on.
ExecuteUnknown(x) ==
  /\ More(x)
  /\ Signed(x) \notin NamedOps(batch[executor[x].batch].items)
  /\ executor' = [executor EXCEPT ![x].failed = @ + 1, ![x].next = @ + 1]
  /\ UNCHANGED <<vars, batch, creator, poller>>

ExecuteSubmit(x) ==
  /\ More(x)
  /\ Signed(x) \in NamedOps(batch[executor[x].batch].items)
  /\ SubmitCheck(x, Signed(x))
  /\ executor' = [executor EXCEPT ![x].pc = "submitting"]
  /\ UNCHANGED <<batch, creator, poller>>

\* A mutation: a failed submission never ends the loop.
ExecuteResultNoBreak(x) ==
  /\ executor[x].pc = "submitting"
  /\ SubmitReply(x)
  /\ executor' = [executor EXCEPT ![x].pc = "loop", ![x].next = @ + 1,
       ![x].submitted = IF handler[x].pc = "ok" THEN @ + 1 ELSE @,
       ![x].accepted = IF handler[x].pc = "ok" THEN @ \cup {executor[x].next} ELSE @,
       ![x].failed = IF handler[x].pc = "ok" THEN @ ELSE @ + 1]
  /\ UNCHANGED <<batch, creator, poller>>

\* submitSignedOperations returned or threw; a failure ends an atomic batch.
ExecuteResult(x) ==
  /\ executor[x].pc = "submitting"
  /\ SubmitReply(x)
  /\ LET ok == handler[x].pc = "ok"
     IN executor' = [executor EXCEPT ![x].next = @ + 1,
          ![x].pc = IF ~ok /\ batch[executor[x].batch].atomic THEN "stopped" ELSE "loop",
          ![x].submitted = IF ok THEN @ + 1 ELSE @,
          ![x].accepted = IF ok THEN @ \cup {executor[x].next} ELSE @,
          ![x].failed = IF ok THEN @ ELSE @ + 1]
  /\ UNCHANGED <<batch, creator, poller>>

\* A mutation: any success counts as a submitted batch.
ExecutionStatusLenient(submitted, failed) ==
  CASE submitted > 0 \/ failed = 0 -> "submitted"
    [] OTHER -> "failed"

ExecutionStatus(submitted, failed) ==
  CASE failed = 0 -> "submitted"
    [] failed > 0 /\ submitted > 0 -> "partial"
    [] OTHER -> "failed"

\* The final update of the record, whatever its status is by now.
ExecuteFinish(x) ==
  LET b == executor[x].batch
  IN /\ \/ executor[x].pc = "stopped"
        \/ executor[x].pc = "loop" /\ executor[x].next > Len(executor[x].list)
     /\ IF Stored(b)
        THEN batch' = [batch EXCEPT ![b].status =
               ExecutionStatus(executor[x].submitted, executor[x].failed)]
        ELSE UNCHANGED batch
     /\ executor' = [executor EXCEPT ![x] = IdleExecutor]
     /\ UNCHANGED <<vars, creator, poller>>

-----------------------------------------------------------------------------
(* getBatchStatus.                                                         *)

PollBatch(p, b) ==
  /\ poller[p].pc = "idle"
  /\ Stored(b)
  /\ poller' = [poller EXCEPT ![p] =
       [pc |-> "operations", batch |-> b, seen |-> batch[b].status,
        overall |-> "unused"]]
  /\ UNCHANGED <<vars, batch, creator, executor>>

\* The status of an item: its row's, or the one kept in the batch record.
\* A failed item has no row.
CurrentStatus(item) ==
  IF item.status = "created" /\ Exists(item.op) THEN row[item.op].status
  ELSE item.status

\* A mutation: operations still under way do not count.
OverallOfSettled(items, seen) ==
  LET current == {CurrentStatus(items[i]) : i \in DOMAIN items}
  IN IF current \cap Settled = {} THEN seen
     ELSE IF "failed" \in current THEN "failed"
     ELSE "completed"

\* The batch is over when every item is, and has failed when any item has.
OverallStatus(items, seen) ==
  LET current == {CurrentStatus(items[i]) : i \in DOMAIN items}
  IN IF ~(current \subseteq Settled) THEN seen
     ELSE IF "failed" \in current THEN "failed"
     ELSE "completed"

PollOperations(p) ==
  LET overall == OverallStatus(batch[poller[p].batch].items, poller[p].seen)
  IN /\ poller[p].pc = "operations"
     /\ poller' = [poller EXCEPT ![p] =
          IF overall = @.seen THEN IdlePoller
          ELSE [@ EXCEPT !.pc = "write", !.overall = overall]]
     /\ UNCHANGED <<vars, batch, creator, executor>>

PollWrite(p) ==
  /\ poller[p].pc = "write"
  /\ IF Stored(poller[p].batch)
     THEN batch' = [batch EXCEPT ![poller[p].batch].status = poller[p].overall]
     ELSE UNCHANGED batch
  /\ poller' = [poller EXCEPT ![p] = IdlePoller]
  /\ UNCHANGED <<vars, creator, executor>>

-----------------------------------------------------------------------------
(* The steps of OrbyOperations beside those of the batches.                *)

\* A client may also submit an operation of a batch directly.
DirectSubmit(h, op) ==
  /\ executor[h].pc = "idle"
  /\ SubmitCheck(h, op)
  /\ UNCHANGED batchVars

DirectReply(h) ==
  /\ executor[h].pc = "idle"
  /\ SubmitReply(h)
  /\ UNCHANGED batchVars

BatchDeleteProfile ==
  /\ DeleteProfile
  /\ batch' = [b \in Batches |->
       IF Stored(b) THEN [batch[b] EXCEPT !.status = "deleted"] ELSE batch[b]]
  /\ UNCHANGED <<creator, executor, poller>>

\* A creation that was under way is never taken up again: "lost".
BatchRestart ==
  /\ LoseMemory
  /\ creator' = [b \in Batches |->
       IF creator[b].pc \in {"building", "cleanup"}
       THEN [creator[b] EXCEPT !.pc = "lost"] ELSE creator[b]]
  /\ executor' = [x \in Handlers |-> IdleExecutor]
  /\ poller' = [p \in Pollers |-> IdlePoller]
  /\ UNCHANGED <<profile, row, orby, batch>>

BatchNext ==
  \/ \E b \in Batches :
       \/ \E atomic \in BOOLEAN, n \in 1..MaxOperations :
            CreateBatch(b, atomic, FALSE, n)
       \/ \E old \in Batches : RetryBatch(old, b)
       \/ BuildItem(b)
       \/ BuildFails(b)
       \/ CleanUp(b)
       \/ CleanUpFails(b)
       \/ StoreBatch(b)
       \/ StoreFails(b)
  \/ \E x \in Handlers :
       \/ \E b \in Batches, list \in SignedLists : ExecuteCheck(x, b, list)
       \/ ExecuteUnknown(x)
       \/ ExecuteSubmit(x)
       \/ ExecuteResult(x)
       \/ ExecuteFinish(x)
       \/ \E op \in Ops : DirectSubmit(x, op)
       \/ DirectReply(x)
       \/ HandlerSteps(x) /\ UNCHANGED batchVars
  \/ \E p \in Pollers :
       \/ \E b \in Batches : PollBatch(p, b)
       \/ PollOperations(p)
       \/ PollWrite(p)
  \/ OrbySteps /\ UNCHANGED batchVars
  \/ BatchDeleteProfile
  \/ BatchRestart

BatchSpec == BatchInit /\ [][BatchNext]_allVars

-----------------------------------------------------------------------------
(* Properties.                                                             *)

BatchTypeOK ==
  /\ TypeOK
  /\ batch \in [Batches -> [status : BatchStatus, atomic : BOOLEAN, items : Items]]
  /\ creator \in [Batches ->
       [pc : {"idle", "building", "cleanup", "refused", "done", "error", "lost"},
        atomic : BOOLEAN, retry : BOOLEAN, n : 0..MaxOperations, items : Items]]
  /\ executor \in [Handlers ->
       [pc : {"idle", "loop", "submitting", "stopped"},
        batch : Batches \cup {None}, list : SignedLists \cup {<<>>},
        next : Nat, submitted : Nat, failed : Nat, accepted : SUBSET Nat]]
  /\ poller \in [Pollers ->
       [pc : {"idle", "operations", "write"}, batch : Batches \cup {None},
        seen : BatchStatus, overall : BatchStatus]]

OperationsOnlyWithRecord(b) ==
  creator[b].atomic /\ ~Stored(b) => \A op \in ItemOps(creator[b].items) : ~Exists(op)

\* A creation of an atomic batch that was refused, its operations cleaned up,
\* leaves none of them for good; one that returned keeps its record as long as
\* any of its operations exists.
AtomicCreation ==
  \A b \in Batches : creator[b].pc \in {"refused", "done"} => OperationsOnlyWithRecord(b)

\* 'All or nothing': the same of every creation that is over, cut short by an
\* error of the database or a stop of the server.
AllOrNothing ==
  \A b \in Batches :
    creator[b].pc \in {"refused", "done", "error", "lost"} => OperationsOnlyWithRecord(b)

\* Positions of a list that name operations of the batch it is signed for.
KnownBefore(x) ==
  {i \in 1..(executor[x].next - 1) :
     executor[x].list[i] \in NamedOps(batch[executor[x].batch].items)}

\* An atomic batch stops at its first failure: an execution that is submitting
\* an operation had all operations of the batch that were signed before it
\* accepted in its own submissions, and Orby has them.  A submission refused
\* because somebody else has sent the operation is a failure too.
AtomicStopsAtFirstFailure ==
  \A x \in Handlers :
    executor[x].pc = "submitting" /\ batch[executor[x].batch].atomic =>
      /\ KnownBefore(x) \subseteq executor[x].accepted
      /\ \A i \in KnownBefore(x) : SentAs(executor[x].list[i]) # {}

\* ... and an id that names nothing is a failure like any other.
AtomicStopsAtUnknown ==
  \A x \in Handlers :
    executor[x].pc = "submitting" /\ batch[executor[x].batch].atomic =>
      executor[x].failed = 0

\* A batch reported 'submitted' has all its operations at Orby, however its
\* executions, direct submissions and restarts interleaved.
SubmittedMeansSent ==
  \A b \in Batches : batch[b].status = "submitted" =>
    \A i \in DOMAIN batch[b].items :
      batch[b].items[i].status = "created" => SentAs(batch[b].items[i].op) # {}

\* A batch reported 'completed' has succeeded at Orby in every operation.
CompletedMeansSucceeded ==
  \A b \in Batches : batch[b].status = "completed" =>
    \A op \in ItemOps(batch[b].items) :
      \E e \in SentAs(op) : orby[e].status = "successful"

\* A batch reported 'failed' has no operation that succeeded: a mixed outcome
\* is 'partial'.
FailedMeansNoneSucceeded ==
  \A b \in Batches : batch[b].status = "failed" =>
    \A op \in ItemOps(batch[b].items) : row[op].status # "successful"
=============================================================================
