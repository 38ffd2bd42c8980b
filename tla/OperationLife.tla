---------------------------- MODULE OperationLife ----------------------------
(***************************************************************************)
(* What the backend promises of an operation's reported status, apart from *)
(* the requests and callbacks that write it one by one.  An operation is   *)
(* created once.  It is reported as pending only when Orby accepted it,    *)
(* and as settled only after that, with a result that Orby reached.  It is *)
(* never reported as created again, and no longer reported at all once its *)
(* owner is deleted.                                                       *)
(*                                                                         *)
(* A result is not the last word: an operation that was submitted twice    *)
(* may be pending again, and may settle otherwise.                         *)
(***************************************************************************)
CONSTANT Ops

VARIABLES
  owned,     \* does the profile that owns the operations exist
  status,    \* what is reported of an operation
  accepted,  \* has Orby accepted the operation
  results    \* the results that Orby reached for it

vars == <<owned, status, accepted, results>>

Settled == {"successful", "failed"}

Init ==
  /\ owned = TRUE
  /\ status = [op \in Ops |-> "unused"]
  /\ accepted = [op \in Ops |-> FALSE]
  /\ results = [op \in Ops |-> {}]

Create(op) ==
  /\ owned
  /\ status[op] = "unused"
  /\ status' = [status EXCEPT ![op] = "created"]
  /\ UNCHANGED <<owned, accepted, results>>

\* Orby accepts what was created, maybe after it is gone from the backend.
Accept(op) ==
  /\ status[op] # "unused"
  /\ accepted' = [accepted EXCEPT ![op] = TRUE]
  /\ UNCHANGED <<owned, status, results>>

Reach(op, result) ==
  /\ accepted[op]
  /\ results' = [results EXCEPT ![op] = @ \cup {result}]
  /\ UNCHANGED <<owned, status, accepted>>

Reported(op) == status[op] \notin {"unused", "deleted"}

ReportPending(op) ==
  /\ Reported(op)
  /\ accepted[op]
  /\ status' = [status EXCEPT ![op] = "pending"]
  /\ UNCHANGED <<owned, accepted, results>>

ReportResult(op, result) ==
  /\ Reported(op) /\ status[op] # "created"
  /\ result \in results[op]
  /\ status' = [status EXCEPT ![op] = result]
  /\ UNCHANGED <<owned, accepted, results>>

DeleteOwner ==
  /\ owned
  /\ owned' = FALSE
  /\ status' = [op \in Ops |-> IF Reported(op) THEN "deleted" ELSE status[op]]
  /\ UNCHANGED <<accepted, results>>

Next ==
  \/ \E op \in Ops : Create(op) \/ Accept(op) \/ ReportPending(op)
  \/ \E op \in Ops, result \in Settled : Reach(op, result) \/ ReportResult(op, result)
  \/ DeleteOwner

Spec == Init /\ [][Next]_vars
=============================================================================
