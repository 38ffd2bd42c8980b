--------------------------- MODULE OrbyOperations ---------------------------
(***************************************************************************)
(* The life of an Orby operation: OrbyController.createIntent stores it,   *)
(* OrbyService.submitSignedOperations sends it to Orby, and the callback   *)
(* of monitorOperationStatus brings Orby's activity back into the row.     *)
(*                                                                         *)
(* Every bare prisma call and every call of the Orby SDK is an await: one  *)
(* step of the model, with the other requests and callbacks running in     *)
(* between.  A restart of the process loses the requests, the callbacks    *)
(* and the subscriptions, which live in memory; the rows survive.          *)
(***************************************************************************)
EXTENDS Naturals

CONSTANTS
  Ops,          \* operationSetIds the code generates (op_..., batch_..._op...)
  Handlers,     \* requests that run submitSignedOperations concurrently
  Callbacks,    \* activity callbacks that run concurrently
  Execs,        \* operation sets Orby accepts: the ids sendOperationSet gives
  Answers,      \* what operationSetId in a sendResponse may be, see AnswerKinds
  LosesAnswers, \* may sendOperationSet throw after Orby accepted the set
  MaxTxs,       \* OrbyTransaction rows of an operation are counted up to this
  MaxCrashes,   \* bound on the restarts of the process
  None          \* no operation, no execution

AnswerKinds == {"local", "remote", "none"}

ASSUME OrbyConstants ==
  /\ None \notin Ops /\ None \notin Execs
  /\ Answers \subseteq AnswerKinds
  /\ LosesAnswers \in BOOLEAN
  /\ MaxTxs \in Nat /\ MaxCrashes \in Nat

VARIABLES
  profile,   \* does the SmartProfile that owns the operations exist
  row,       \* the orby_operations rows, with their transactions counted
  handler,   \* where each submitSignedOperations call stands
  orby,      \* external: the operation sets Orby has accepted
  subs,      \* subscribeToOperationSetStatus subscriptions of this process
  callback,  \* where each activity callback stands
  crashes

vars == <<profile, row, handler, orby, subs, callback, crashes>>

Settled == {"successful", "failed"}

\* "unused": the id has not been generated; "deleted": the row is gone again.
RowStatus == {"unused", "created", "pending", "deleted"} \cup Settled
ExecStatus == {"unused", "running"} \cup Settled

Rows == [status : RowStatus, completedAt : BOOLEAN, txs : 0..MaxTxs]

HandlerStates ==
  [pc : {"idle", "checked", "sent", "recorded", "ok", "error"},
   op : Ops \cup {None}, exec : Execs \cup {None}, answer : AnswerKinds]

Subscriptions == [exec : Execs, id : {"local", "remote"}]

CallbackStates ==
  [pc : {"idle", "read", "written"}, exec : Execs \cup {None},
   seen : RowStatus, activity : ExecStatus]

Exists(op) == row[op].status \notin {"unused", "deleted"}

\* The row exists or existed, and was handed to Orby: no longer 'created'.
Left(op) == row[op].status \notin {"unused", "created"}

SentAs(op) == {e \in Execs : orby[e].op = op}

IdleHandler == [pc |-> "idle", op |-> None, exec |-> None, answer |-> "none"]

IdleCallback ==
  [pc |-> "idle", exec |-> None, seen |-> "unused", activity |-> "unused"]

Init ==
  /\ profile = TRUE
  /\ row = [op \in Ops |->
              [status |-> "unused", completedAt |-> FALSE, txs |-> 0]]
  /\ handler = [h \in Handlers |-> IdleHandler]
  /\ orby = [e \in Execs |-> [op |-> None, status |-> "unused"]]
  /\ subs = {}
  /\ callback = [c \in Callbacks |-> IdleCallback]
  /\ crashes = 0

-----------------------------------------------------------------------------
(* Requests.                                                               *)

\* A mutation: the row is stored as if the client had signed it already.
StoreSigned(op) ==
  row' = [row EXCEPT ![op].status = "signed"]

StoreCreated(op) ==
  row' = [row EXCEPT ![op].status = "created"]

\* createIntent: the access check and the Orby quote change no state; the
\* request either ends there with an error or stores a row under a fresh id.
CreateIntent(op) ==
  /\ profile
  /\ row[op].status = "unused"
  /\ StoreCreated(op)
  /\ UNCHANGED <<profile, handler, orby, subs, callback, crashes>>

\* The lookup and the status check at the head of submitSignedOperations.
SubmitCheck(h, op) ==
  /\ handler[h].pc = "idle"
  /\ row[op].status # "unused"
  /\ handler' = [handler EXCEPT ![h] =
       [IdleHandler EXCEPT !.op = op,
          !.pc = IF row[op].status = "created" THEN "checked" ELSE "error"]]
  /\ UNCHANGED <<profile, row, orby, subs, callback, crashes>>

\* createFreshAccountCluster, getVirtualNode or sendOperationSet throws, or
\* Orby answers without success: nothing was accepted.
SubmitRefused(h) ==
  /\ handler[h].pc = "checked"
  /\ handler' = [handler EXCEPT ![h].pc = "error"]
  /\ UNCHANGED <<profile, row, orby, subs, callback, crashes>>

\* Orby accepts the operation set under its own id e.
Accept(op, e) ==
  /\ orby[e].status = "unused"
  /\ orby' = [orby EXCEPT ![e] = [op |-> op, status |-> "running"]]

SubmitSent(h, e, answer) ==
  /\ handler[h].pc = "checked"
  /\ Accept(handler[h].op, e)
  /\ handler' = [handler EXCEPT ![h] =
       [pc |-> "sent", op |-> @.op, exec |-> e, answer |-> answer]]
  /\ UNCHANGED <<profile, row, subs, callback, crashes>>

\* Orby accepted the set and the answer never came back.
SubmitAnswerLost(h, e) ==
  /\ LosesAnswers
  /\ handler[h].pc = "checked"
  /\ Accept(handler[h].op, e)
  /\ handler' = [handler EXCEPT ![h].pc = "error"]
  /\ UNCHANGED <<profile, row, subs, callback, crashes>>

\* The subscription that a successful answer starts, if it names an id.
Subscribed(h) ==
  IF handler[h].answer = "none" THEN subs
  ELSE subs \cup {[exec |-> handler[h].exec, id |-> handler[h].answer]}

\* A mutation: the monitor is started before the row is updated.
SubmitRecordSubscribesFirst(h) ==
  \/ /\ handler[h].pc = "sent"
     /\ subs' = Subscribed(h)
     /\ handler' = [handler EXCEPT ![h].pc = "recorded"]
     /\ UNCHANGED <<profile, row, orby, callback, crashes>>
  \/ /\ handler[h].pc = "recorded"
     /\ Exists(handler[h].op)
     /\ row' = [row EXCEPT ![handler[h].op].status = "pending"]
     /\ handler' = [handler EXCEPT ![h].pc = "ok"]
     /\ UNCHANGED <<profile, orby, subs, callback, crashes>>

\* A mutation: the handler answers without having updated the row.
SubmitRecordSkipped(h) ==
  /\ handler[h].pc = "sent"
  /\ handler' = [handler EXCEPT ![h].pc = "ok"]
  /\ UNCHANGED <<profile, row, orby, subs, callback, crashes>>

\* The update to 'pending' by row id, whatever the status is by now; it
\* throws when the row is gone.
SubmitRecord(h) ==
  /\ handler[h].pc = "sent"
  /\ IF Exists(handler[h].op)
     THEN /\ row' = [row EXCEPT ![handler[h].op].status = "pending"]
          /\ handler' = [handler EXCEPT ![h].pc = "recorded"]
     ELSE /\ handler' = [handler EXCEPT ![h].pc = "error"]
          /\ UNCHANGED row
  /\ UNCHANGED <<profile, orby, subs, callback, crashes>>

\* monitorOperationStatus subscribes under the id of the answer, if any.
SubmitMonitor(h) ==
  /\ handler[h].pc = "recorded"
  /\ subs' = Subscribed(h)
  /\ handler' = [handler EXCEPT ![h].pc = "ok"]
  /\ UNCHANGED <<profile, row, orby, callback, crashes>>

SubmitReply(h) ==
  /\ handler[h].pc \in {"ok", "error"}
  /\ handler' = [handler EXCEPT ![h] = IdleHandler]
  /\ UNCHANGED <<profile, row, orby, subs, callback, crashes>>

\* Deleting the profile cascades to its operations and their transactions.
DeleteProfile ==
  /\ profile
  /\ profile' = FALSE
  /\ row' = [op \in Ops |->
       IF Exists(op) THEN [status |-> "deleted", completedAt |-> FALSE, txs |-> 0]
       ELSE row[op]]
  /\ UNCHANGED <<handler, orby, subs, callback, crashes>>

-----------------------------------------------------------------------------
(* Orby and the activity callback.                                         *)

\* External: an execution comes to its end.
OrbyFinishes(e, result) ==
  /\ orby[e].status = "running"
  /\ orby' = [orby EXCEPT ![e].status = result]
  /\ UNCHANGED <<profile, row, handler, subs, callback, crashes>>

\* A mutation: every activity of a finished set is taken for a success.
StatusAfterMisread(seen, activity) ==
  IF activity \in Settled THEN "successful" ELSE seen

\* The status the callback writes: the one it read, unless Orby is done.
StatusAfter(seen, activity) ==
  IF activity \in Settled THEN activity ELSE seen

\* A callback runs with an activity of the subscribed execution, maybe an
\* outdated one, and looks the row up under the subscribed id.  Only an id
\* that the code generated itself ("local") finds a row.  Orby may end the
\* subscription once it has given the result.
CallbackRead(c, s, activity) ==
  /\ callback[c].pc = "idle"
  /\ s \in subs
  /\ activity \in {"running", orby[s.exec].status}
  /\ s.id = "local" /\ Exists(orby[s.exec].op)
  /\ callback' = [callback EXCEPT ![c] =
       [pc |-> "read", exec |-> s.exec, activity |-> activity,
        seen |-> row[orby[s.exec].op].status]]
  /\ \/ UNCHANGED subs
     \/ activity \in Settled /\ subs' = subs \ {s}
  /\ UNCHANGED <<profile, row, handler, orby, crashes>>

\* The update of status and completedAt from what was read; it throws when
\* the row is gone.  completedAt is only ever set, never cleared.
CallbackWrite(c) ==
  LET op == orby[callback[c].exec].op
      status == StatusAfter(callback[c].seen, callback[c].activity)
  IN /\ callback[c].pc = "read"
     /\ IF Exists(op)
        THEN /\ row' = [row EXCEPT ![op].status = status,
                          ![op].completedAt = @ \/ status \in Settled]
             /\ callback' = [callback EXCEPT ![c].pc = "written"]
        ELSE /\ callback' = [callback EXCEPT ![c] = IdleCallback]
             /\ UNCHANGED row
     /\ UNCHANGED <<profile, handler, orby, subs, crashes>>

\* One OrbyTransaction row is created for each operation of the activity;
\* an activity has one or none here.
CallbackTransactions(c) ==
  LET op == orby[callback[c].exec].op
  IN /\ callback[c].pc = "written"
     /\ \/ UNCHANGED row
        \/ /\ Exists(op)
           /\ row' = [row EXCEPT ![op].txs = IF @ < MaxTxs THEN @ + 1 ELSE @]
     /\ callback' = [callback EXCEPT ![c] = IdleCallback]
     /\ UNCHANGED <<profile, handler, orby, subs, crashes>>

\* The process restarts.
LoseMemory ==
  /\ crashes < MaxCrashes
  /\ crashes' = crashes + 1
  /\ handler' = [h \in Handlers |-> IdleHandler]
  /\ subs' = {}
  /\ callback' = [c \in Callbacks |-> IdleCallback]

Restart ==
  /\ LoseMemory
  /\ UNCHANGED <<profile, row, orby>>

-----------------------------------------------------------------------------
HandlerSteps(h) ==
  \/ SubmitRefused(h)
  \/ \E e \in Execs : SubmitAnswerLost(h, e)
  \/ \E e \in Execs, answer \in Answers : SubmitSent(h, e, answer)
  \/ SubmitRecord(h)
  \/ SubmitMonitor(h)

CallbackSteps(c) == CallbackWrite(c) \/ CallbackTransactions(c)

OrbySteps ==
  \/ \E e \in Execs, result \in Settled : OrbyFinishes(e, result)
  \/ \E c \in Callbacks :
       \/ \E s \in subs, activity \in ExecStatus : CallbackRead(c, s, activity)
       \/ CallbackSteps(c)

Next ==
  \/ \E op \in Ops : CreateIntent(op)
  \/ \E h \in Handlers :
       \/ \E op \in Ops : SubmitCheck(h, op)
       \/ HandlerSteps(h)
       \/ SubmitReply(h)
  \/ DeleteProfile
  \/ OrbySteps
  \/ Restart

Spec == Init /\ [][Next]_vars

\* Clients need do nothing, but a request or callback once begun goes on (the
\* event loop), and Orby gives the result of a set to a callback at least once.
Fairness ==
  /\ \A h \in Handlers : WF_vars(HandlerSteps(h)) /\ WF_vars(SubmitReply(h))
  /\ \A c \in Callbacks : WF_vars(CallbackSteps(c))
  /\ \A e \in Execs : WF_vars(\E result \in Settled : OrbyFinishes(e, result))
  /\ \A e \in Execs, result \in Settled :
       SF_vars(\E c \in Callbacks, s \in subs :
                 s.exec = e /\ CallbackRead(c, s, result))

FairSpec == Spec /\ Fairness

-----------------------------------------------------------------------------
(* Properties.                                                             *)

TypeOK ==
  /\ profile \in BOOLEAN
  /\ row \in [Ops -> Rows]
  /\ handler \in [Handlers -> HandlerStates]
  /\ orby \in [Execs -> [op : Ops \cup {None}, status : ExecStatus]]
  /\ subs \subseteq Subscriptions
  /\ callback \in [Callbacks -> CallbackStates]
  /\ crashes \in 0..MaxCrashes

\* What the status endpoint reports did happen: a row that is 'pending' or
\* later was accepted by Orby, and a result was reached by one of its sets.
ReportedIsReal ==
  \A op \in Ops :
    /\ row[op].status \in {"pending"} \cup Settled => SentAs(op) # {}
    /\ row[op].status \in Settled =>
         \E e \in SentAs(op) : orby[e].status = row[op].status
    /\ row[op].completedAt =>
         \E e \in SentAs(op) : orby[e].status \in Settled

\* An operation handed to Orby is never offered for signing again: although
\* callbacks write back a status they read earlier, none of them can have
\* read 'created'.
NeverBackToCreated ==
  [][\A op \in Ops : Left(op) => row'[op].status # "created"]_vars

\* However submissions, callbacks, a deletion and restarts interleave, what the
\* status endpoint reports of an operation lives the life that OperationLife
\* allows, and a restart changes nothing of it.  (createIntent,
\* submitSignedOperations and the callback of monitorOperationStatus.)
Life == INSTANCE OperationLife WITH
  owned <- profile,
  status <- [op \in Ops |-> row[op].status],
  accepted <- [op \in Ops |-> SentAs(op) # {}],
  results <- [op \in Ops |-> {orby[e].status : e \in SentAs(op)} \cap Settled]

LivesItsLife == Life!Spec

\* The check 'Operation has already been processed' of submitSignedOperations:
\* an operation is accepted by Orby at most once.
SentAtMostOnce ==
  \A op \in Ops : \A e1, e2 \in SentAs(op) : e1 = e2

\* What Orby acknowledged is no longer offered for signing, unless the process
\* stops before the row is written.
AcceptedIsRecorded ==
  \A op \in Ops :
    (\E h \in Handlers : handler[h].pc = "sent" /\ handler[h].op = op)
      ~> Left(op) \/ crashes > 0

\* "Use status endpoint to track progress": a pending operation reaches a result that
\* the endpoint can report, whatever id Orby gave its set.
PendingSettlesWhateverId ==
  \A op \in Ops :
    row[op].status = "pending" ~> row[op].status \in Settled \cup {"deleted"}
=============================================================================
