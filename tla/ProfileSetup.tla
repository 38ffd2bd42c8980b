----------------------------- MODULE ProfileSetup ---------------------------
(***************************************************************************)
(* How a profile comes to be, composed with how it comes by its MPC        *)
(* wallet.  createProfile commits the profile in a transaction, and only   *)
(* then asks Orby for an account cluster: at most three times, each for at *)
(* most ten seconds, while the profile is already there for everybody to   *)
(* use or to delete.  The call that a timeout gives up is not cancelled.   *)
(* Last come a row of the audit log, the answer and the WebSocket event.   *)
(***************************************************************************)
EXTENDS MpcKeys

CONSTANT MaxAborts  \* bound: insertions of audit rows that fail

ASSUME AbortsBounded == MaxAborts \in Nat

VARIABLES
  creation,   \* where each profile's createProfile is
  abandoned,  \* external: calls at Orby that nobody waits for any more
  clusters,   \* external: how many clusters Orby created for the profile
  audit,      \* what the audit log says of the profile's cluster
  answer,     \* the answer, which is also the event profile_created
  aborts

setupVars == <<creation, abandoned, clusters, audit, answer, aborts>>
profileVars == <<mpcVars, setupVars>>

\* maxRetries of the transaction and of createClusterWithRetry: both count the
\* first attempt.
MaxTransactions == 2
MaxAttempts == 3

Running == {"transaction", "attempt", "backoff", "created", "failed", "respond"}
Ended == {"rolledBack", "answered", "error", "lost"}
NoAnswer == [needsMpcGeneration |-> FALSE, address |-> None, given |-> FALSE]

SetupInit ==
  /\ WalletInit
  /\ exists = [p \in Profiles |-> FALSE]
  /\ creation = [p \in Profiles |-> [pc |-> "none", tries |-> 0]]
  /\ abandoned = [p \in Profiles |-> 0]
  /\ clusters = [p \in Profiles |-> 0]
  /\ audit = [p \in Profiles |-> "none"]
  /\ answer = [p \in Profiles |-> NoAnswer]
  /\ aborts = 0

At(p, pc) == creation[p].pc = pc
Moves(p, pc) == creation' = [creation EXCEPT ![p].pc = pc]
Tries(p, pc) ==
  creation' = [creation EXCEPT ![p] = [pc |-> pc, tries |-> creation[p].tries + 1]]

-----------------------------------------------------------------------------
(* The transaction.                                                        *)

CreateProfile(p) ==
  /\ At(p, "none")
  /\ Tries(p, "transaction")
  /\ UNCHANGED <<mpcVars, abandoned, clusters, audit, answer, aborts>>

\* Profile, access, first linked account and audit row appear at once.
TransactionCommits(p) ==
  /\ At(p, "transaction")
  /\ creation' = [creation EXCEPT ![p] = [pc |-> "attempt", tries |-> 1]]
  /\ exists' = [exists EXCEPT ![p] = TRUE]
  /\ UNCHANGED <<address, mapping, wallet, client, issued, request, crashes>>
  /\ UNCHANGED <<abandoned, clusters, audit, answer, aborts>>

\* A write conflict is retried, any other error is not.
TransactionFails(p) ==
  /\ At(p, "transaction")
  /\ \/ creation[p].tries < MaxTransactions /\ Tries(p, "transaction")
     \/ Moves(p, "rolledBack")
  /\ UNCHANGED <<mpcVars, abandoned, clusters, audit, answer, aborts>>

-----------------------------------------------------------------------------
(* The cluster at Orby.                                                    *)

OrbyCreates(p) ==
  /\ At(p, "attempt")
  /\ clusters' = [clusters EXCEPT ![p] = @ + 1]
  /\ Moves(p, "created")
  /\ UNCHANGED <<mpcVars, abandoned, audit, answer, aborts>>

\* A mutation: the attempts are not counted.
BackOffWhatever(p) == creation' = [creation EXCEPT ![p].pc = "backoff"]

BackOff(p) ==
  IF creation[p].tries = MaxAttempts THEN Moves(p, "failed") ELSE Moves(p, "backoff")

\* Orby refuses, or cannot be reached.
OrbyRefuses(p) ==
  /\ At(p, "attempt")
  /\ BackOff(p)
  /\ UNCHANGED <<mpcVars, abandoned, clusters, audit, answer, aborts>>

\* A mutation: no timer runs beside the call.
TimesOutNever(p) == FALSE /\ UNCHANGED profileVars

\* The timer wins the race of Promise.race, and the call goes on.
TimesOut(p) ==
  /\ At(p, "attempt")
  /\ BackOff(p)
  /\ abandoned' = [abandoned EXCEPT ![p] = @ + 1]
  /\ UNCHANGED <<mpcVars, clusters, audit, answer, aborts>>

\* A call given up ends after all, with a cluster or without one.
LateAnswer(p) ==
  /\ abandoned[p] > 0
  /\ abandoned' = [abandoned EXCEPT ![p] = @ - 1]
  /\ \/ clusters' = [clusters EXCEPT ![p] = @ + 1]
     \/ UNCHANGED clusters
  /\ UNCHANGED <<mpcVars, creation, audit, answer, aborts>>

NextAttempt(p) ==
  /\ At(p, "backoff")
  /\ Tries(p, "attempt")
  /\ UNCHANGED <<mpcVars, abandoned, clusters, audit, answer, aborts>>

-----------------------------------------------------------------------------
(* The audit row, the answer.                                              *)

\* A row that refers to a profile deleted meanwhile is refused; in the branch
\* of success that error too is caught, and taken for one of Orby.
AuditRefused(p) ==
  \/ ~exists[p] /\ UNCHANGED aborts
  \/ exists[p] /\ aborts < MaxAborts /\ aborts' = aborts + 1

AuditCreated(p) ==
  /\ At(p, "created")
  /\ \/ /\ exists[p]
        /\ audit' = [audit EXCEPT ![p] = "created"]
        /\ Moves(p, "respond")
        /\ UNCHANGED aborts
     \/ /\ AuditRefused(p)
        /\ Moves(p, "failed")
        /\ UNCHANGED audit
  /\ UNCHANGED <<mpcVars, abandoned, clusters, answer>>

\* Nothing catches the error of this one: createProfile throws.
AuditFailed(p) ==
  /\ At(p, "failed")
  /\ \/ /\ exists[p]
        /\ audit' = [audit EXCEPT ![p] = "failed"]
        /\ Moves(p, "respond")
        /\ UNCHANGED aborts
     \/ /\ AuditRefused(p)
        /\ Moves(p, "error")
        /\ UNCHANGED audit
  /\ UNCHANGED <<mpcVars, abandoned, clusters, answer>>

\* formatProfileResponse reads the key mapping anew, but shows the address that
\* the transaction returned.
Respond(p) ==
  /\ At(p, "respond")
  /\ answer' = [answer EXCEPT ![p] =
       [needsMpcGeneration |-> mapping[p] = NoMapping, address |-> None, given |-> TRUE]]
  /\ Moves(p, "answered")
  /\ UNCHANGED <<mpcVars, abandoned, clusters, audit, aborts>>

SetupSteps(p) ==
  \/ TransactionCommits(p)
  \/ TransactionFails(p)
  \/ OrbyCreates(p)
  \/ OrbyRefuses(p)
  \/ TimesOut(p)
  \/ NextAttempt(p)
  \/ AuditCreated(p)
  \/ AuditFailed(p)
  \/ Respond(p)

\* The process stops: callers get no answer, Orby still serves the calls under
\* way.
SetupCrash ==
  /\ Crash
  /\ creation' = [p \in Profiles |->
       IF creation[p].pc \in Running THEN [pc |-> "lost", tries |-> 0] ELSE creation[p]]
  /\ abandoned' = [p \in Profiles |-> abandoned[p] + IF At(p, "attempt") THEN 1 ELSE 0]
  /\ UNCHANGED <<clusters, audit, answer, aborts>>

\* What MpcKeys does, crashes excepted, leaves the creation alone.
KeySteps ==
  /\ \/ \E c \in Clients : KeyIssued(c) \/ \E p \in Profiles : GenerateKey(c, p)
     \/ \E r \in Requests :
          \/ \E key \in Keys : Receive(r, key)
          \/ RequestSteps(r) \/ WriteFails(r)
     \/ \E p \in Profiles : DeleteProfile(p)
  /\ UNCHANGED setupVars

SetupNext ==
  \/ KeySteps
  \/ \E p \in Profiles : CreateProfile(p) \/ SetupSteps(p) \/ LateAnswer(p)
  \/ SetupCrash

SetupSpec == SetupInit /\ [][SetupNext]_profileVars

\* Timers fire and the database answers; Orby need not, and nobody need create,
\* use or delete anything.
SetupFairness ==
  /\ \A p \in Profiles :
       /\ WF_profileVars(TransactionCommits(p) \/ TransactionFails(p))
       /\ WF_profileVars(TimesOut(p))
       /\ WF_profileVars(NextAttempt(p))
       /\ WF_profileVars(AuditCreated(p) \/ AuditFailed(p) \/ Respond(p))
  /\ \A r \in Requests : WF_profileVars(RequestSteps(r) /\ UNCHANGED setupVars)
  /\ \A key \in Keys :
       SF_profileVars((\E r \in Requests : Receive(r, key)) /\ UNCHANGED setupVars)

SetupFairSpec == SetupSpec /\ SetupFairness

-----------------------------------------------------------------------------
(* Properties.                                                             *)

SetupTypeOK ==
  /\ MpcTypeOK
  /\ creation \in [Profiles -> [pc : {"none"} \cup Running \cup Ended, tries : 0..MaxAttempts]]
  /\ abandoned \in [Profiles -> 0..MaxAttempts]
  /\ clusters \in [Profiles -> 0..MaxAttempts]
  /\ audit \in [Profiles -> {"none", "created", "failed"}]
  /\ answer \in [Profiles ->
       [needsMpcGeneration : BOOLEAN, address : Keys \cup {None}, given : BOOLEAN]]
  /\ aborts \in 0..MaxAborts

\* However many attempts are refused, given up or cut short by a restart, and
\* however late Orby answers them, one createProfile leaves at most three
\* clusters at Orby, and one whose transaction never committed none at all:
\* that is what calling Orby outside the retried transaction is for.
ClustersBounded ==
  \A p \in Profiles :
    /\ clusters[p] + abandoned[p] <= MaxAttempts
    /\ creation[p].pc \in {"none", "transaction", "rolledBack"} =>
         clusters[p] + abandoned[p] = 0

\* Orby cannot hold createProfile up: whether or not it ever answers, the
\* request ends, unless the process does.
CreationEnds ==
  \A p \in Profiles : creation[p].pc \in Running ~> creation[p].pc \in Ended

\* "profile creation succeeds even if Orby fails": no error for a profile that
\* is there.  Not true if the row about Orby's failure cannot be written.
ErrorLeavesNothing == \A p \in Profiles : At(p, "error") => ~exists[p]

\* The log says of a cluster that failed only what is so.  Not true if the row
\* about its success could not be written, or an abandoned call succeeded.
FailureMeansNoCluster == \A p \in Profiles : audit[p] = "failed" => clusters[p] = 0

\* The answer shows the wallet of a profile that it says needs none.  Not true:
\* the address is the one read before Orby was asked.
AnswerShowsWallet ==
  \A p \in Profiles :
    answer[p].given /\ ~answer[p].needsMpcGeneration => answer[p].address # None
=============================================================================
