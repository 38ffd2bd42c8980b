-------------------------- MODULE OperationsProofs --------------------------
(***************************************************************************)
(* Proofs about operations at Orby and the batches that drive them, for    *)
(* any number of operations, requests, callbacks, executions and restarts  *)
(* and any batches, concurrent executions and polls.  First what holds of  *)
(* OrbyOperations by itself, whose invariant is a part of that of          *)
(* BatchOperations.                                                        *)
(***************************************************************************)
EXTENDS BatchOperations, TLAPS

-----------------------------------------------------------------------------
(* OrbyOperations: the invariant.                                          *)

\* A set that Orby accepted belongs to an operation for good.
OrbyOK == \A e \in Execs : orby[e].status # "unused" <=> orby[e].op \in Ops

\* A request past the lookup names an operation, past the send the execution
\* of that operation, and past the update one that was handed to Orby.
HandlerOK ==
  \A h \in Handlers :
    /\ handler[h].pc # "idle" => handler[h].op \in Ops
    /\ handler[h].pc \in {"sent", "recorded"} =>
         handler[h].exec \in Execs /\ orby[handler[h].exec].op = handler[h].op
    /\ handler[h].pc = "recorded" => Left(handler[h].op)

\* Subscriptions are made after the update only.
SubsOK ==
  \A s \in subs : orby[s.exec].op \in Ops /\ Left(orby[s.exec].op)

\* What a callback carries across its await is still true when it writes.
CallbackOK ==
  \A c \in Callbacks : callback[c].pc # "idle" =>
    LET e == callback[c].exec
    IN /\ e \in Execs /\ orby[e].op \in Ops /\ Left(orby[e].op)
       /\ callback[c].seen \in {"pending"} \cup Settled
       /\ callback[c].seen \in Settled =>
            \E d \in SentAs(orby[e].op) : orby[d].status = callback[c].seen
       /\ callback[c].activity \in Settled => orby[e].status = callback[c].activity

IInv == TypeOK /\ OrbyOK /\ HandlerOK /\ SubsOK /\ CallbackOK /\ ReportedIsReal

-----------------------------------------------------------------------------
\* The initial state.
LEMMA InitIInv == Init => IInv
  BY OrbyConstants DEF Init, IInv, TypeOK, Rows, RowStatus, HandlerStates, IdleHandler,
     AnswerKinds, ExecStatus, Subscriptions, CallbackStates, IdleCallback, Settled,
     OrbyOK, HandlerOK, SubsOK, CallbackOK, ReportedIsReal

\* Type correctness is preserved by every step, one variable at a time.
LEMMA TypeStep ==
  TypeOK /\ HandlerOK /\ SubsOK /\ CallbackOK /\ [Next]_vars => TypeOK'
<1> SUFFICES ASSUME TypeOK, HandlerOK, SubsOK, CallbackOK, [Next]_vars
             PROVE TypeOK'
  OBVIOUS
<1>t. /\ handler \in [Handlers -> HandlerStates]
      /\ orby \in [Execs -> [op : Ops \cup {None}, status : ExecStatus]]
      /\ row \in [Ops -> Rows]
      /\ callback \in [Callbacks -> CallbackStates]
      /\ subs \subseteq Subscriptions
      /\ crashes \in 0..MaxCrashes
      /\ profile \in BOOLEAN
  BY DEF TypeOK
<1>1. ASSUME NEW op \in Ops, CreateIntent(op) PROVE TypeOK'
  BY <1>1, <1>t DEF CreateIntent, StoreCreated, TypeOK, Rows, RowStatus
<1>2. ASSUME NEW h \in Handlers, NEW op \in Ops, SubmitCheck(h, op) PROVE TypeOK'
  BY <1>2, <1>t DEF SubmitCheck, TypeOK, HandlerStates, IdleHandler, AnswerKinds
<1>3. ASSUME NEW h \in Handlers, HandlerSteps(h) PROVE TypeOK'
  <2>1. CASE SubmitRefused(h)
    BY <2>1, <1>t DEF SubmitRefused, TypeOK, HandlerStates
  <2>2. ASSUME NEW e \in Execs, SubmitAnswerLost(h, e) PROVE TypeOK'
    <3>1. handler[h].op \in Ops
      BY <2>2 DEF SubmitAnswerLost, HandlerOK
    <3>2. orby' \in [Execs -> [op : Ops \cup {None}, status : ExecStatus]]
      BY <3>1, <2>2, <1>t DEF SubmitAnswerLost, Accept, ExecStatus
    <3>3. handler' \in [Handlers -> HandlerStates]
      BY <2>2, <1>t DEF SubmitAnswerLost, HandlerStates
    <3> QED BY <3>2, <3>3, <2>2, <1>t DEF SubmitAnswerLost, TypeOK
  <2>3. ASSUME NEW e \in Execs, NEW a \in Answers, SubmitSent(h, e, a) PROVE TypeOK'
    <3>1. handler[h].op \in Ops
      BY <2>3 DEF SubmitSent, HandlerOK
    <3>2. orby' \in [Execs -> [op : Ops \cup {None}, status : ExecStatus]]
      BY <3>1, <2>3, <1>t DEF SubmitSent, Accept, ExecStatus
    <3>3. a \in AnswerKinds
      BY OrbyConstants
    <3>4. handler' \in [Handlers -> HandlerStates]
      BY <2>3, <3>3, <1>t DEF SubmitSent, HandlerStates
    <3> QED BY <3>2, <3>4, <2>3, <1>t DEF SubmitSent, TypeOK
  <2>4. CASE SubmitRecord(h)
    <3>1. handler[h].op \in Ops
      BY <2>4 DEF SubmitRecord, HandlerOK
    <3>2. row' \in [Ops -> Rows]
      BY <3>1, <2>4, <1>t DEF SubmitRecord, Rows, RowStatus
    <3>3. handler' \in [Handlers -> HandlerStates]
      BY <2>4, <1>t DEF SubmitRecord, HandlerStates
    <3> QED BY <3>2, <3>3, <2>4, <1>t DEF SubmitRecord, TypeOK
  <2>5. CASE SubmitMonitor(h)
    <3>1. handler[h].exec \in Execs /\ handler[h].answer \in AnswerKinds
      BY <2>5, <1>t DEF SubmitMonitor, HandlerOK, HandlerStates
    <3>2. subs' \subseteq Subscriptions
      BY <3>1, <2>5, <1>t DEF SubmitMonitor, Subscribed, Subscriptions, AnswerKinds
    <3>3. handler' \in [Handlers -> HandlerStates]
      BY <2>5, <1>t DEF SubmitMonitor, HandlerStates
    <3> QED BY <3>2, <3>3, <2>5, <1>t DEF SubmitMonitor, TypeOK
  <2> QED BY <1>3, <2>1, <2>2, <2>3, <2>4, <2>5 DEF HandlerSteps
<1>4. ASSUME NEW h \in Handlers, SubmitReply(h) PROVE TypeOK'
  BY <1>4, <1>t DEF SubmitReply, TypeOK, HandlerStates, IdleHandler, AnswerKinds
<1>5. CASE DeleteProfile
  <2>1. [status |-> "deleted", completedAt |-> FALSE, txs |-> 0] \in Rows
    BY OrbyConstants DEF Rows, RowStatus
  <2>2. row' \in [Ops -> Rows]
    BY <1>5, <2>1, <1>t DEF DeleteProfile
  <2> QED BY <1>5, <2>2, <1>t DEF DeleteProfile, TypeOK
<1>6. ASSUME NEW e \in Execs, NEW result \in Settled, OrbyFinishes(e, result)
      PROVE TypeOK'
  BY <1>6, <1>t DEF OrbyFinishes, TypeOK, ExecStatus
<1>7. ASSUME NEW c \in Callbacks, NEW s \in subs, NEW a \in ExecStatus,
             CallbackRead(c, s, a) PROVE TypeOK'
  <2>1. s.exec \in Execs
    BY <1>t DEF Subscriptions
  <2>2. orby[s.exec].op \in Ops
    BY DEF SubsOK
  <2>3. row[orby[s.exec].op].status \in RowStatus
    BY <2>2, <1>t DEF Rows
  <2>4. callback' \in [Callbacks -> CallbackStates]
    BY <1>7, <2>1, <2>3, <1>t DEF CallbackRead, CallbackStates
  <2>5. subs' \subseteq Subscriptions
    BY <1>7, <1>t DEF CallbackRead
  <2> QED BY <1>7, <2>4, <2>5, <1>t DEF CallbackRead, TypeOK
<1>8. ASSUME NEW c \in Callbacks, CallbackSteps(c) PROVE TypeOK'
  <2> DEFINE op == orby[callback[c].exec].op
  <2>1. callback[c].pc # "idle" => callback[c].exec \in Execs /\ op \in Ops
    BY DEF CallbackOK
  <2>2. IdleCallback \in CallbackStates
    BY DEF IdleCallback, CallbackStates, RowStatus, ExecStatus
  <2>3. CASE CallbackWrite(c)
    <3> DEFINE status == StatusAfter(callback[c].seen, callback[c].activity)
    <3>1. op \in Ops
      BY <2>3, <2>1 DEF CallbackWrite
    <3>2. status \in RowStatus
      BY <1>t DEF StatusAfter, CallbackStates, RowStatus
    <3>3. row' \in [Ops -> Rows]
      BY <3>1, <3>2, <2>3, <1>t DEF CallbackWrite, Rows
    <3>4. callback' \in [Callbacks -> CallbackStates]
      BY <2>2, <2>3, <1>t DEF CallbackWrite, CallbackStates
    <3> QED BY <3>3, <3>4, <2>3, <1>t DEF CallbackWrite, TypeOK
  <2>4. CASE CallbackTransactions(c)
    <3>1. op \in Ops
      BY <2>4, <2>1 DEF CallbackTransactions
    <3>2. row' \in [Ops -> Rows]
      <4>1. CASE UNCHANGED row
        BY <4>1, <1>t
      <4>2. CASE row' = [row EXCEPT ![op].txs = IF @ < MaxTxs THEN @ + 1 ELSE @]
        <5>1. row[op].txs \in 0..MaxTxs
          BY <3>1, <1>t DEF Rows
        <5>2. (IF row[op].txs < MaxTxs THEN row[op].txs + 1 ELSE row[op].txs)
                \in 0..MaxTxs
          BY <5>1, OrbyConstants
        <5> QED BY <4>2, <5>2, <3>1, <1>t DEF Rows
      <4> QED BY <2>4, <4>1, <4>2 DEF CallbackTransactions
    <3>3. callback' \in [Callbacks -> CallbackStates]
      BY <2>2, <2>4, <1>t DEF CallbackTransactions
    <3> QED BY <3>2, <3>3, <2>4, <1>t DEF CallbackTransactions, TypeOK
  <2> QED BY <1>8, <2>3, <2>4 DEF CallbackSteps
<1>9. CASE Restart
  BY <1>9, <1>t, OrbyConstants DEF Restart, LoseMemory, TypeOK, HandlerStates,
     IdleHandler, AnswerKinds, CallbackStates, IdleCallback, RowStatus, ExecStatus
<1>10. CASE UNCHANGED vars
  BY <1>10 DEF vars, TypeOK
<1> QED BY <1>1, <1>2, <1>3, <1>4, <1>5, <1>6, <1>7, <1>8, <1>9, <1>10
     DEF Next, OrbySteps

-----------------------------------------------------------------------------
(* OrbyOperations: what no step takes back.                                *)

StillLeft(op) == row'[op].status \notin {"unused", "created"}

\* Operations that were handed over stay so; executions keep their operation
\* and their result.
Monotone ==
  /\ \A op \in Ops : Left(op) => StillLeft(op)
  /\ \A e \in Execs :
       /\ orby[e].op \in Ops => orby'[e].op = orby[e].op
       /\ orby[e].status \in Settled => orby'[e].status = orby[e].status

LEMMA MonotoneStep == IInv /\ [Next]_vars => Monotone
<1> SUFFICES ASSUME IInv, [Next]_vars PROVE Monotone
  OBVIOUS
<1>t. /\ handler \in [Handlers -> HandlerStates]
      /\ orby \in [Execs -> [op : Ops \cup {None}, status : ExecStatus]]
      /\ row \in [Ops -> Rows]
      /\ callback \in [Callbacks -> CallbackStates]
  BY DEF IInv, TypeOK
<1>1. ASSUME NEW op \in Ops, CreateIntent(op) PROVE Monotone
  BY <1>1, <1>t DEF CreateIntent, StoreCreated, Monotone, Left, StillLeft, Rows
<1>2. ASSUME NEW h \in Handlers, NEW op \in Ops, SubmitCheck(h, op) PROVE Monotone
  BY <1>2 DEF SubmitCheck, Monotone, Left, StillLeft
<1>3. ASSUME NEW h \in Handlers, HandlerSteps(h) PROVE Monotone
  <2>1. CASE SubmitRefused(h)
    BY <2>1 DEF SubmitRefused, Monotone, Left, StillLeft
  <2>2. ASSUME NEW e \in Execs, SubmitAnswerLost(h, e) PROVE Monotone
    <3>1. orby[e].op \notin Ops /\ orby[e].status \notin Settled
      BY <2>2 DEF IInv, OrbyOK, SubmitAnswerLost, Accept, Settled
    <3> QED BY <2>2, <3>1, <1>t DEF SubmitAnswerLost, Accept, Monotone, Left, StillLeft
  <2>3. ASSUME NEW e \in Execs, NEW a \in Answers, SubmitSent(h, e, a) PROVE Monotone
    <3>1. orby[e].op \notin Ops /\ orby[e].status \notin Settled
      BY <2>3 DEF IInv, OrbyOK, SubmitSent, Accept, Settled
    <3> QED BY <2>3, <3>1, <1>t DEF SubmitSent, Accept, Monotone, Left, StillLeft
  <2>4. CASE SubmitRecord(h)
    BY <2>4, <1>t DEF SubmitRecord, Monotone, Left, StillLeft, Rows
  <2>5. CASE SubmitMonitor(h)
    BY <2>5 DEF SubmitMonitor, Monotone, Left, StillLeft
  <2> QED BY <1>3, <2>1, <2>2, <2>3, <2>4, <2>5 DEF HandlerSteps
<1>4. ASSUME NEW h \in Handlers, SubmitReply(h) PROVE Monotone
  BY <1>4 DEF SubmitReply, Monotone, Left, StillLeft
<1>5. CASE DeleteProfile
  BY <1>5, <1>t DEF DeleteProfile, Monotone, Left, StillLeft
<1>6. ASSUME NEW e \in Execs, NEW result \in Settled, OrbyFinishes(e, result)
      PROVE Monotone
  BY <1>6, <1>t DEF OrbyFinishes, Monotone, Left, StillLeft, Settled
<1>7. ASSUME NEW c \in Callbacks, NEW s \in subs, NEW a \in ExecStatus,
             CallbackRead(c, s, a) PROVE Monotone
  BY <1>7 DEF CallbackRead, Monotone, Left, StillLeft
<1>8. ASSUME NEW c \in Callbacks, CallbackSteps(c) PROVE Monotone
  <2> DEFINE op == orby[callback[c].exec].op
             status == StatusAfter(callback[c].seen, callback[c].activity)
  <2>1. CASE CallbackWrite(c)
    <3>1. op \in Ops /\ status \in {"pending"} \cup Settled
      BY <2>1 DEF CallbackWrite, IInv, CallbackOK, StatusAfter
    <3>2. CASE UNCHANGED row
      BY <2>1, <3>2 DEF CallbackWrite, Monotone, Left, StillLeft
    <3>3. CASE row' = [row EXCEPT ![op].status = status,
                         ![op].completedAt = @ \/ status \in Settled]
      <4>1. \A o \in Ops : Left(o) => StillLeft(o)
        BY <3>1, <3>3, <1>t DEF Left, StillLeft, Rows, Settled
      <4> QED BY <4>1, <2>1 DEF CallbackWrite, Monotone
    <3> QED BY <2>1, <3>2, <3>3 DEF CallbackWrite
  <2>2. CASE CallbackTransactions(c)
    <3>1. op \in Ops
      BY <2>2 DEF CallbackTransactions, IInv, CallbackOK
    <3> QED BY <2>2, <3>1, <1>t DEF CallbackTransactions, Monotone, Left, StillLeft, Rows
  <2> QED BY <1>8, <2>1, <2>2 DEF CallbackSteps
<1>9. CASE Restart
  BY <1>9 DEF Restart, LoseMemory, Monotone, Left, StillLeft
<1>10. CASE UNCHANGED vars
  BY <1>10 DEF vars, Monotone, Left, StillLeft
<1> QED BY <1>1, <1>2, <1>3, <1>4, <1>5, <1>6, <1>7, <1>8, <1>9, <1>10
     DEF Next, OrbySteps

-----------------------------------------------------------------------------
(* OrbyOperations: the parts of the inductive invariant.                   *)

LEMMA OrbyStep == IInv /\ [Next]_vars => OrbyOK'
<1> SUFFICES ASSUME IInv, [Next]_vars PROVE OrbyOK'
  OBVIOUS
<1>t. orby \in [Execs -> [op : Ops \cup {None}, status : ExecStatus]] /\ OrbyOK
  BY DEF IInv, TypeOK
<1>1. ASSUME NEW h \in Handlers, NEW e \in Execs, Accept(handler[h].op, e),
             handler[h].pc = "checked"
      PROVE OrbyOK'
  <2>1. handler[h].op \in Ops
    BY <1>1 DEF IInv, HandlerOK
  <2> QED BY <1>1, <2>1, <1>t DEF Accept, OrbyOK
<1>2. ASSUME NEW e \in Execs, NEW result \in Settled, OrbyFinishes(e, result)
      PROVE OrbyOK'
  BY <1>2, <1>t DEF OrbyFinishes, OrbyOK, Settled
<1>3. CASE UNCHANGED orby
  BY <1>3, <1>t DEF OrbyOK
<1>4. ASSUME NEW h \in Handlers, HandlerSteps(h) PROVE OrbyOK'
  BY <1>4, <1>1, <1>3 DEF HandlerSteps, SubmitRefused, SubmitAnswerLost, SubmitSent,
     SubmitRecord, SubmitMonitor
<1>5. CASE UNCHANGED vars
  BY <1>5, <1>3 DEF vars
<1>6. ASSUME NEW c \in Callbacks, CallbackSteps(c) PROVE OrbyOK'
  BY <1>6, <1>3 DEF CallbackSteps, CallbackWrite, CallbackTransactions
<1> QED BY <1>2, <1>3, <1>4, <1>5, <1>6 DEF Next, OrbySteps, CreateIntent,
     SubmitCheck, SubmitReply, DeleteProfile, CallbackRead, Restart

LEMMA HandlerStep == IInv /\ [Next]_vars => HandlerOK'
<1> SUFFICES ASSUME IInv, [Next]_vars, NEW g \in Handlers
             PROVE /\ handler'[g].pc # "idle" => handler'[g].op \in Ops
                   /\ handler'[g].pc \in {"sent", "recorded"} =>
                        /\ handler'[g].exec \in Execs
                        /\ orby'[handler'[g].exec].op = handler'[g].op
                   /\ handler'[g].pc = "recorded" => StillLeft(handler'[g].op)
  BY DEF HandlerOK, Left, StillLeft
<1>t. /\ handler \in [Handlers -> HandlerStates]
      /\ orby \in [Execs -> [op : Ops \cup {None}, status : ExecStatus]]
      /\ row \in [Ops -> Rows]
  BY DEF IInv, TypeOK
<1>o. /\ handler[g].pc # "idle" => handler[g].op \in Ops
      /\ handler[g].pc \in {"sent", "recorded"} =>
           /\ handler[g].exec \in Execs
           /\ orby[handler[g].exec].op = handler[g].op
      /\ handler[g].pc = "recorded" => Left(handler[g].op)
  BY DEF IInv, HandlerOK
<1>m. Monotone
  BY MonotoneStep
<1> DEFINE Goal == /\ handler'[g].pc # "idle" => handler'[g].op \in Ops
                   /\ handler'[g].pc \in {"sent", "recorded"} =>
                        /\ handler'[g].exec \in Execs
                        /\ orby'[handler'[g].exec].op = handler'[g].op
                   /\ handler'[g].pc = "recorded" => StillLeft(handler'[g].op)
<1>1. CASE handler'[g] = handler[g]
  BY <1>1, <1>o, <1>m DEF Monotone
<1>2. CASE handler'[g].pc \in {"idle", "ok", "error", "checked"} /\
           (handler'[g].pc = "idle" \/ handler'[g].op \in Ops)
  BY <1>2
<1>3. ASSUME NEW op \in Ops, SubmitCheck(g, op) PROVE Goal
  BY <1>3, <1>2, <1>t DEF SubmitCheck, IdleHandler, HandlerStates
<1>4. CASE HandlerSteps(g)
  <2>1. CASE SubmitRefused(g)
    BY <2>1, <1>2, <1>o, <1>t DEF SubmitRefused, HandlerStates
  <2>2. ASSUME NEW e \in Execs, SubmitAnswerLost(g, e) PROVE Goal
    BY <2>2, <1>2, <1>o, <1>t DEF SubmitAnswerLost, HandlerStates
  <2>3. ASSUME NEW e \in Execs, NEW a \in Answers, SubmitSent(g, e, a) PROVE Goal
    BY <2>3, <1>o, <1>t DEF SubmitSent, Accept
  <2>4. CASE SubmitRecord(g)
    <3>1. handler[g].op \in Ops
      BY <2>4, <1>o DEF SubmitRecord
    <3>2. CASE Exists(handler[g].op)
      <4>1. row'[handler[g].op].status = "pending"
        BY <2>4, <3>1, <3>2, <1>t DEF SubmitRecord, Rows
      <4>2. /\ handler'[g].pc = "recorded" /\ handler'[g].op = handler[g].op
            /\ handler'[g].exec = handler[g].exec
        BY <2>4, <3>2, <1>t DEF SubmitRecord, HandlerStates
      <4>3. handler[g].pc = "sent" /\ UNCHANGED orby
        BY <2>4 DEF SubmitRecord
      <4> QED BY <4>1, <4>2, <4>3, <3>1, <1>o DEF StillLeft
    <3>3. CASE ~Exists(handler[g].op)
      BY <2>4, <3>1, <3>3, <1>2, <1>t DEF SubmitRecord, HandlerStates
    <3> QED BY <3>2, <3>3
  <2>5. CASE SubmitMonitor(g)
    BY <2>5, <1>2, <1>o, <1>t DEF SubmitMonitor, HandlerStates
  <2> QED BY <1>4, <2>1, <2>2, <2>3, <2>4, <2>5 DEF HandlerSteps
<1>5. CASE SubmitReply(g)
  BY <1>5, <1>2, <1>t DEF SubmitReply, IdleHandler
<1>6. CASE Restart
  BY <1>6, <1>2 DEF Restart, LoseMemory, IdleHandler
<1>7. CASE UNCHANGED handler
  BY <1>7, <1>1
<1>8. ASSUME NEW h \in Handlers \ {g},
             \/ \E op \in Ops : SubmitCheck(h, op)
             \/ HandlerSteps(h)
             \/ SubmitReply(h)
      PROVE Goal
  <2>1. handler'[g] = handler[g]
    BY <1>8, <1>t DEF SubmitCheck, HandlerSteps, SubmitRefused, SubmitAnswerLost,
       SubmitSent, SubmitRecord, SubmitMonitor, SubmitReply
  <2> QED BY <2>1, <1>1
<1>9. ASSUME NEW c \in Callbacks, CallbackSteps(c) PROVE UNCHANGED handler
  BY <1>9 DEF CallbackSteps, CallbackWrite, CallbackTransactions
<1>10. CASE \E h \in Handlers :
             \/ \E op \in Ops : SubmitCheck(h, op)
             \/ HandlerSteps(h)
             \/ SubmitReply(h)
  BY <1>10, <1>3, <1>4, <1>5, <1>8
<1> HIDE DEF Goal
<1>11. CASE OrbySteps
  BY <1>11, <1>7, <1>9 DEF OrbySteps, OrbyFinishes, CallbackRead, Goal
<1> QED BY <1>6, <1>7, <1>10, <1>11 DEF Next, CreateIntent, DeleteProfile, vars, Goal

LEMMA SubsStep == IInv /\ [Next]_vars => SubsOK'
<1> SUFFICES ASSUME IInv, [Next]_vars, NEW s \in subs'
             PROVE orby'[s.exec].op \in Ops /\ StillLeft(orby'[s.exec].op)
  BY DEF SubsOK, Left, StillLeft
<1>t. /\ handler \in [Handlers -> HandlerStates]
      /\ subs \subseteq Subscriptions
  BY DEF IInv, TypeOK
<1>m. Monotone
  BY MonotoneStep
<1>1. CASE s \in subs
  <2>1. s.exec \in Execs /\ orby[s.exec].op \in Ops /\ Left(orby[s.exec].op)
    BY <1>1, <1>t DEF IInv, SubsOK, Subscriptions
  <2> QED BY <2>1, <1>m DEF Monotone
<1>2. ASSUME NEW h \in Handlers, SubmitMonitor(h), s \notin subs
      PROVE orby'[s.exec].op \in Ops /\ StillLeft(orby'[s.exec].op)
  <2>1. s.exec = handler[h].exec
    BY <1>2 DEF SubmitMonitor, Subscribed
  <2>2. s.exec \in Execs /\ orby[s.exec].op \in Ops /\ Left(orby[s.exec].op)
    BY <1>2, <2>1 DEF SubmitMonitor, IInv, HandlerOK
  <2> QED BY <2>2, <1>m DEF Monotone
<1>3. ASSUME NEW h \in Handlers, HandlerSteps(h), s \notin subs PROVE SubmitMonitor(h)
  BY <1>3 DEF HandlerSteps, SubmitRefused, SubmitAnswerLost, SubmitSent, SubmitRecord
<1>4. ASSUME NEW c \in Callbacks, CallbackSteps(c) PROVE subs' = subs
  BY <1>4 DEF CallbackSteps, CallbackWrite, CallbackTransactions
<1>5. CASE OrbySteps
  BY <1>5, <1>1, <1>4 DEF OrbySteps, OrbyFinishes, CallbackRead
<1> QED BY <1>1, <1>2, <1>3, <1>5 DEF Next, CreateIntent, SubmitCheck, SubmitReply,
     DeleteProfile, Restart, LoseMemory, vars

LEMMA CallbackStep == IInv /\ [Next]_vars => CallbackOK'
<1> DEFINE Carried(cb) ==
      /\ cb.exec \in Execs /\ orby'[cb.exec].op \in Ops
      /\ StillLeft(orby'[cb.exec].op)
      /\ cb.seen \in {"pending"} \cup Settled
      /\ cb.seen \in Settled =>
           \E d \in Execs : /\ orby'[d].op = orby'[cb.exec].op
                            /\ orby'[d].status = cb.seen
      /\ cb.activity \in Settled => orby'[cb.exec].status = cb.activity
<1> SUFFICES ASSUME IInv, [Next]_vars, NEW c \in Callbacks,
                    callback'[c].pc # "idle"
             PROVE Carried(callback'[c])
  BY DEF CallbackOK, StillLeft, Left, SentAs
<1>t. /\ callback \in [Callbacks -> CallbackStates]
      /\ subs \subseteq Subscriptions
      /\ row \in [Ops -> Rows]
  BY DEF IInv, TypeOK
<1>m. Monotone
  BY MonotoneStep
<1>1. ASSUME callback[c].pc # "idle", NEW cb, cb.exec = callback[c].exec,
             cb.seen = callback[c].seen, cb.activity = callback[c].activity
      PROVE Carried(cb)
  <2> DEFINE e == callback[c].exec
  <2>1. /\ e \in Execs /\ orby[e].op \in Ops /\ Left(orby[e].op)
        /\ callback[c].seen \in {"pending"} \cup Settled
        /\ callback[c].seen \in Settled =>
             \E d \in Execs : /\ orby[d].op = orby[e].op
                              /\ orby[d].status = callback[c].seen
        /\ callback[c].activity \in Settled => orby[e].status = callback[c].activity
    BY <1>1 DEF IInv, CallbackOK, SentAs
  <2>2. orby'[e].op = orby[e].op /\ StillLeft(orby[e].op)
    BY <2>1, <1>m DEF Monotone
  <2>3. callback[c].seen \in Settled =>
          \E d \in Execs : /\ orby'[d].op = orby'[e].op
                           /\ orby'[d].status = callback[c].seen
    BY <2>1, <2>2, <1>m DEF Monotone
  <2>4. callback[c].activity \in Settled => orby'[e].status = callback[c].activity
    BY <2>1, <1>m DEF Monotone
  <2> QED BY <2>1, <2>2, <2>3, <2>4, <1>1
<1>2. CASE callback'[c] = callback[c]
  BY <1>1, <1>2
<1>3. ASSUME NEW s \in subs, NEW a \in ExecStatus, CallbackRead(c, s, a)
      PROVE Carried(callback'[c])
  <2>1. s.exec \in Execs /\ orby[s.exec].op \in Ops /\ Left(orby[s.exec].op)
    BY <1>t DEF IInv, SubsOK, Subscriptions
  <2>2. callback'[c] = [pc |-> "read", exec |-> s.exec, activity |-> a,
                        seen |-> row[orby[s.exec].op].status]
    BY <1>3, <1>t DEF CallbackRead
  <2>3. row[orby[s.exec].op].status \in {"pending"} \cup Settled
    BY <1>3, <1>t, <2>1 DEF CallbackRead, Exists, Left, Rows, RowStatus
  <2>4. row[orby[s.exec].op].status \in Settled =>
          \E d \in Execs : /\ orby[d].op = orby[s.exec].op
                           /\ orby[d].status = row[orby[s.exec].op].status
    BY <2>1 DEF IInv, ReportedIsReal, SentAs
  <2>5. a \in Settled => orby[s.exec].status = a
    BY <1>3 DEF CallbackRead, Settled
  <2>6. UNCHANGED orby /\ StillLeft(orby[s.exec].op)
    BY <1>3, <1>m, <2>1 DEF CallbackRead, Monotone
  <2> QED BY <2>1, <2>2, <2>3, <2>4, <2>5, <2>6
<1>4. CASE CallbackWrite(c)
  BY <1>1, <1>4, <1>t DEF CallbackWrite, IdleCallback, CallbackStates
<1>5. CASE CallbackTransactions(c)
  BY <1>5, <1>t DEF CallbackTransactions, IdleCallback
<1>6. ASSUME NEW d \in Callbacks \ {c}, NEW s \in subs, NEW a \in ExecStatus,
             CallbackRead(d, s, a)
      PROVE callback'[c] = callback[c]
  BY <1>6, <1>t DEF CallbackRead
<1>7. ASSUME NEW d \in Callbacks \ {c}, CallbackSteps(d)
      PROVE callback'[c] = callback[c]
  BY <1>7, <1>t DEF CallbackSteps, CallbackWrite, CallbackTransactions
<1>8. CASE Restart
  BY <1>8 DEF Restart, LoseMemory, IdleCallback
<1>9. CASE UNCHANGED callback
  BY <1>9, <1>2
<1>10. ASSUME NEW h \in Handlers, HandlerSteps(h) PROVE UNCHANGED callback
  BY <1>10 DEF HandlerSteps, SubmitRefused, SubmitAnswerLost, SubmitSent,
     SubmitRecord, SubmitMonitor
<1> HIDE DEF Carried
<1>11. CASE OrbySteps
  BY <1>11, <1>2, <1>3, <1>4, <1>5, <1>6, <1>7, <1>9
     DEF OrbySteps, OrbyFinishes, CallbackSteps
<1> QED BY <1>8, <1>9, <1>10, <1>11 DEF Next, CreateIntent, SubmitCheck,
     SubmitReply, DeleteProfile, vars

\* Once an execution justifies what a row reports, it goes on doing so.
LEMMA ReportedStep == IInv /\ [Next]_vars => ReportedIsReal'
<1> DEFINE Real(op, r) ==
      /\ r.status \in {"pending"} \cup Settled => \E e \in Execs : orby'[e].op = op
      /\ r.status \in Settled =>
           \E e \in Execs : orby'[e].op = op /\ orby'[e].status = r.status
      /\ r.completedAt =>
           \E e \in Execs : orby'[e].op = op /\ orby'[e].status \in Settled
<1> SUFFICES ASSUME IInv, [Next]_vars, NEW o \in Ops PROVE Real(o, row'[o])
  BY DEF ReportedIsReal, SentAs
<1>t. /\ callback \in [Callbacks -> CallbackStates]
      /\ row \in [Ops -> Rows]
  BY DEF IInv, TypeOK
<1>m. Monotone
  BY MonotoneStep
<1>1. Real(o, row[o])
  <2>1. /\ row[o].status \in {"pending"} \cup Settled =>
             \E e \in Execs : orby[e].op = o
        /\ row[o].status \in Settled =>
             \E e \in Execs : orby[e].op = o /\ orby[e].status = row[o].status
        /\ row[o].completedAt =>
             \E e \in Execs : orby[e].op = o /\ orby[e].status \in Settled
    BY DEF IInv, ReportedIsReal, SentAs
  <2> QED BY <2>1, <1>m DEF Monotone
<1>2. CASE row'[o] = row[o]
  BY <1>1, <1>2
<1>3. ASSUME row'[o].status \notin {"pending"} \cup Settled,
             row'[o].completedAt = row[o].completedAt \/ ~row'[o].completedAt
      PROVE Real(o, row'[o])
  BY <1>1, <1>3
<1>4. ASSUME NEW op \in Ops, CreateIntent(op) PROVE Real(o, row'[o])
  BY <1>2, <1>3, <1>4, <1>t DEF CreateIntent, StoreCreated, Settled, Rows
<1>5. ASSUME NEW h \in Handlers, SubmitRecord(h) PROVE Real(o, row'[o])
  <2>1. CASE row'[o] = row[o]
    BY <2>1, <1>2
  <2>2. CASE row'[o] # row[o]
    <3>1. handler[h].op = o /\ handler[h].pc = "sent"
      BY <2>2, <1>5, <1>t DEF SubmitRecord
    <3>2. row'[o].status = "pending" /\ row'[o].completedAt = row[o].completedAt
      BY <2>2, <1>5, <3>1, <1>t DEF SubmitRecord, Rows
    <3>3. handler[h].exec \in Execs /\ orby'[handler[h].exec].op = o
      BY <3>1, <1>m DEF IInv, HandlerOK, Monotone
    <3> QED BY <3>2, <3>3, <1>1 DEF Settled
  <2> QED BY <2>1, <2>2
<1>6. CASE DeleteProfile
  BY <1>2, <1>3, <1>6, <1>t DEF DeleteProfile, Settled
<1>7. ASSUME NEW c \in Callbacks, CallbackWrite(c) PROVE Real(o, row'[o])
  <2> DEFINE e == callback[c].exec
             status == StatusAfter(callback[c].seen, callback[c].activity)
  <2>1. CASE row'[o] = row[o]
    BY <2>1, <1>2
  <2>2. CASE row'[o] # row[o]
    <3>1. /\ orby[e].op = o /\ e \in Execs
          /\ callback[c].seen \in Settled =>
               \E d \in Execs : orby[d].op = o /\ orby[d].status = callback[c].seen
          /\ callback[c].activity \in Settled => orby[e].status = callback[c].activity
      BY <2>2, <1>7, <1>t DEF CallbackWrite, IInv, CallbackOK, SentAs
    <3>2. row'[o].status = status /\
          row'[o].completedAt = (row[o].completedAt \/ status \in Settled)
      BY <2>2, <1>7, <1>t, <3>1 DEF CallbackWrite, Rows
    <3>3. status \in Settled =>
            \E d \in Execs : orby[d].op = o /\ orby[d].status = status
      BY <3>1 DEF StatusAfter
    <3>4. status \in Settled =>
            \E d \in Execs : orby'[d].op = o /\ orby'[d].status = status
      BY <3>3, <1>m DEF Monotone
    <3>5. orby'[e].op = o
      BY <3>1, <1>m DEF Monotone
    <3> HIDE DEF status
    <3> QED BY <3>1, <3>2, <3>4, <3>5, <1>1
  <2> QED BY <2>1, <2>2
<1>8. ASSUME NEW c \in Callbacks, CallbackTransactions(c) PROVE Real(o, row'[o])
  <2>1. row'[o].status = row[o].status /\ row'[o].completedAt = row[o].completedAt
    BY <1>8, <1>t DEF CallbackTransactions, Rows
  <2> QED BY <2>1, <1>1
<1>9. CASE UNCHANGED row
  BY <1>9, <1>2
<1>10. ASSUME NEW h \in Handlers, HandlerSteps(h) PROVE Real(o, row'[o])
  BY <1>10, <1>5, <1>9 DEF HandlerSteps, SubmitRefused, SubmitAnswerLost, SubmitSent,
     SubmitMonitor
<1> HIDE DEF Real
<1>11. CASE OrbySteps
  BY <1>11, <1>7, <1>8, <1>9 DEF OrbySteps, OrbyFinishes, CallbackRead, CallbackSteps
<1> QED BY <1>4, <1>6, <1>9, <1>10, <1>11 DEF Next, SubmitCheck, SubmitReply, Restart, vars

-----------------------------------------------------------------------------
(* OrbyOperations: the theorems.                                           *)

\* The inductive invariant holds in every reachable state.
THEOREM Invariance == Spec => []IInv
<1>1. IInv /\ [Next]_vars => IInv'
  BY TypeStep, OrbyStep, HandlerStep, SubsStep, CallbackStep, ReportedStep DEF IInv
<1> QED BY InitIInv, <1>1, PTL DEF Spec

\* Every row, request, subscription and callback stays well formed.
THEOREM TypeCorrect == Spec => []TypeOK
<1>1. IInv => TypeOK
  BY DEF IInv
<1> QED BY Invariance, <1>1, PTL

\* The status endpoint never reports an operation as pending, successful or
\* failed that Orby did not accept, or did not bring to that result.
THEOREM StatusIsReal == Spec => []ReportedIsReal
<1>1. IInv => ReportedIsReal
  BY DEF IInv
<1> QED BY Invariance, <1>1, PTL

\* An operation that was handed to Orby is never 'created' again, so that no
\* later submission passes the check of submitSignedOperations.
THEOREM HandedOverForGood == Spec => NeverBackToCreated
<1>1. IInv /\ [Next]_vars => [\A op \in Ops : Left(op) => row'[op].status # "created"]_vars
  BY MonotoneStep DEF Monotone, StillLeft
<1> QED BY Invariance, <1>1, PTL DEF Spec, NeverBackToCreated

-----------------------------------------------------------------------------
(* OrbyOperations implements OperationLife.                                *)

\* A request past the lookup names an operation that was created.
KnownOK ==
  \A h \in Handlers : handler[h].pc # "idle" => row[handler[h].op].status # "unused"

LifeInv == IInv /\ KnownOK

Results(op) == {orby[e].status : e \in SentAs(op)} \cap Settled

\* The steps that leave the sets at Orby alone leave what the life sees of them.
LEMMA OrbyAlone ==
  ASSUME UNCHANGED orby
  PROVE  \A op \in Ops : SentAs(op)' = SentAs(op) /\ Results(op)' = Results(op)
BY DEF SentAs, Results

\* A new set is one of its operation, and has no result.
LEMMA AcceptSeen ==
  ASSUME IInv, NEW o \in Ops, NEW e \in Execs, Accept(o, e)
  PROVE  /\ SentAs(o)' # {}
         /\ \A op \in Ops \ {o} : SentAs(op)' = SentAs(op)
         /\ \A op \in Ops : Results(op)' = Results(op)
<1>1. /\ orby \in [Execs -> [op : Ops \cup {None}, status : ExecStatus]]
      /\ orby[e].op \notin Ops
  BY DEF IInv, TypeOK, OrbyOK, Accept
<1>2. orby' = [orby EXCEPT ![e] = [op |-> o, status |-> "running"]]
  BY DEF Accept
<1>3. /\ orby'[e].op = o /\ orby'[e].status = "running"
      /\ \A d \in Execs \ {e} : orby'[d] = orby[d]
  BY <1>1, <1>2
<1>4. SentAs(o)' = SentAs(o) \cup {e} /\ e \notin SentAs(o)
  BY <1>1, <1>3 DEF SentAs
<1>5. \A op \in Ops \ {o} : SentAs(op)' = SentAs(op) /\ e \notin SentAs(op)
  BY <1>1, <1>3 DEF SentAs
<1>6. ASSUME NEW op \in Ops PROVE Results(op)' = Results(op)
  <2>1. ASSUME NEW s PROVE s \in Results(op)' <=> s \in Results(op)
    <3>1. s \in Results(op)' <=>
            s \in Settled /\ \E d \in SentAs(op)' : s = orby'[d].status
      BY DEF Results
    <3>2. s \in Results(op) <=> s \in Settled /\ \E d \in SentAs(op) : s = orby[d].status
      BY DEF Results
    <3>3. \A d \in SentAs(op) : d \in Execs \ {e}
      BY <1>4, <1>5 DEF SentAs
    <3>4. s \in Settled => s # "running"
      BY DEF Settled
    <3> QED BY <3>1, <3>2, <3>3, <3>4, <1>3, <1>4, <1>5
  <2> QED BY <2>1
<1> QED BY <1>4, <1>5, <1>6

\* The end of a set is a result of its operation.
LEMMA FinishSeen ==
  ASSUME IInv, NEW e \in Execs, NEW result \in Settled, OrbyFinishes(e, result)
  PROVE  /\ orby[e].op \in Ops /\ SentAs(orby[e].op) # {}
         /\ \A op \in Ops : SentAs(op)' = SentAs(op)
         /\ \A op \in Ops : Results(op)' =
              IF op = orby[e].op THEN Results(op) \cup {result} ELSE Results(op)
<1>1. /\ orby \in [Execs -> [op : Ops \cup {None}, status : ExecStatus]]
      /\ orby[e].op \in Ops /\ orby[e].status = "running"
  BY DEF IInv, TypeOK, OrbyOK, OrbyFinishes
<1>2. orby' = [orby EXCEPT ![e].status = result]
  BY DEF OrbyFinishes
<1>3. /\ orby'[e].status = result
      /\ \A d \in Execs : orby'[d].op = orby[d].op
      /\ \A d \in Execs \ {e} : orby'[d].status = orby[d].status
  BY <1>1, <1>2
<1>4. \A op \in Ops : SentAs(op)' = SentAs(op)
  BY <1>3 DEF SentAs
<1>5. ASSUME NEW op \in Ops
      PROVE  Results(op)' =
               IF op = orby[e].op THEN Results(op) \cup {result} ELSE Results(op)
  <2>1. ASSUME NEW s
        PROVE  s \in Results(op)' <=>
                 s \in Results(op) \/ (op = orby[e].op /\ s = result)
    <3>1. s \in Results(op)' <=>
            s \in Settled /\ \E d \in SentAs(op) : s = orby'[d].status
      BY <1>4 DEF Results
    <3>2. s \in Results(op) <=> s \in Settled /\ \E d \in SentAs(op) : s = orby[d].status
      BY DEF Results
    <3>3. /\ e \in SentAs(op) <=> op = orby[e].op
          /\ SentAs(op) \subseteq Execs
      BY DEF SentAs
    <3>4. s \in Settled => s # orby[e].status
      BY <1>1 DEF Settled
    <3> QED BY <3>1, <3>2, <3>3, <3>4, <1>3
  <2> QED BY <2>1
<1>6. e \in SentAs(orby[e].op)
  BY DEF SentAs
<1> QED BY <1>1, <1>4, <1>5, <1>6

\* Transactions are counted beside the status.
LEMMA TransactionsCounted ==
  ASSUME row \in [Ops -> Rows], NEW c \in Callbacks, CallbackTransactions(c)
  PROVE  \A op \in Ops : row'[op].status = row[op].status
<1> DEFINE o == orby[callback[c].exec].op
<1>1. CASE UNCHANGED row
  BY <1>1
<1>2. ASSUME row' = [row EXCEPT ![o].txs = IF @ < MaxTxs THEN @ + 1 ELSE @]
      PROVE  \A op \in Ops : row'[op].status = row[op].status
  <2> DEFINE n == IF row[o].txs < MaxTxs THEN row[o].txs + 1 ELSE row[o].txs
  <2>1. row' = [row EXCEPT ![o].txs = n]
    BY <1>2
  <2> HIDE DEF o, n
  <2> QED BY <2>1 DEF Rows
<1> QED BY <1>1, <1>2 DEF CallbackTransactions

\* Rows are not forgotten, so that requests name operations that were created.
LEMMA KnownStep == LifeInv /\ [Next]_vars => KnownOK'
<1> SUFFICES ASSUME LifeInv, [Next]_vars, NEW g \in Handlers, handler'[g].pc # "idle"
             PROVE  row'[handler'[g].op].status # "unused"
  BY DEF KnownOK
<1>t. /\ handler \in [Handlers -> HandlerStates]
      /\ row \in [Ops -> Rows]
  BY DEF LifeInv, IInv, TypeOK
<1>1. ASSUME NEW op \in Ops, row[op].status # "unused" PROVE row'[op].status # "unused"
  <2>1. CASE Left(op)
    BY <2>1, MonotoneStep DEF LifeInv, Monotone, StillLeft
  <2>2. CASE row[op].status = "created"
    <3>1. ASSUME NEW o \in Ops, CreateIntent(o) PROVE row'[op].status # "unused"
      BY <2>2, <3>1, <1>t DEF CreateIntent, StoreCreated, Rows
    <3>2. CASE UNCHANGED row
      BY <2>2, <3>2
    <3>3. ASSUME NEW h \in Handlers, HandlerSteps(h) PROVE row'[op].status # "unused"
      BY <2>2, <3>2, <3>3, <1>t DEF HandlerSteps, SubmitRefused, SubmitAnswerLost,
         SubmitSent, SubmitRecord, SubmitMonitor, Rows
    <3>4. CASE DeleteProfile
      BY <2>2, <3>4 DEF DeleteProfile
    <3>5. ASSUME NEW c \in Callbacks, CallbackWrite(c) PROVE row'[op].status # "unused"
      <4>1. StatusAfter(callback[c].seen, callback[c].activity) # "unused"
        BY <3>5 DEF CallbackWrite, LifeInv, IInv, CallbackOK, StatusAfter, Settled
      <4> DEFINE o == orby[callback[c].exec].op
                 s == StatusAfter(callback[c].seen, callback[c].activity)
      <4>2. ASSUME row' = [row EXCEPT ![o].status = s, ![o].completedAt = @ \/ s \in Settled]
            PROVE  row'[op].status # "unused"
        <5> HIDE DEF o, s
        <5>1. row'[op].status \in {s, row[op].status}
          BY <4>2, <1>t DEF Rows
        <5> QED BY <2>2, <4>1, <5>1 DEF s
      <4> QED BY <3>2, <3>5, <4>2 DEF CallbackWrite
    <3>6. ASSUME NEW c \in Callbacks, CallbackTransactions(c)
          PROVE  row'[op].status # "unused"
      BY <2>2, <3>6, TransactionsCounted, <1>t
    <3>7. \/ \E o \in Ops : CreateIntent(o)
          \/ \E h \in Handlers : HandlerSteps(h)
          \/ DeleteProfile
          \/ \E c \in Callbacks : CallbackWrite(c) \/ CallbackTransactions(c)
          \/ UNCHANGED row
      BY ZenonT(60) DEF Next, OrbySteps, CallbackSteps, SubmitCheck,
         SubmitReply, OrbyFinishes, CallbackRead, Restart, vars
    <3> QED BY <3>1, <3>2, <3>3, <3>4, <3>5, <3>6, <3>7
  <2> QED BY <1>1, <2>1, <2>2 DEF Left
<1>2. ASSUME handler[g].pc # "idle", handler'[g].op = handler[g].op
      PROVE  row'[handler'[g].op].status # "unused"
  BY <1>1, <1>2 DEF LifeInv, IInv, HandlerOK, KnownOK
<1>3. ASSUME NEW h \in Handlers, NEW op \in Ops, SubmitCheck(h, op)
      PROVE  row'[handler'[g].op].status # "unused"
  <2>1. CASE g = h
    BY <1>1, <1>3, <1>t, <2>1 DEF SubmitCheck, IdleHandler
  <2>2. CASE g # h
    BY <1>2, <1>3, <1>t, <2>2 DEF SubmitCheck
  <2> QED BY <2>1, <2>2
<1>4. ASSUME NEW h \in Handlers, HandlerSteps(h)
      PROVE  row'[handler'[g].op].status # "unused"
  <2>1. handler[g].pc # "idle" /\ handler'[g].op = handler[g].op
    BY <1>4, <1>t DEF HandlerSteps, SubmitRefused, SubmitAnswerLost, SubmitSent,
       SubmitRecord, SubmitMonitor, HandlerStates
  <2> QED BY <1>2, <2>1
<1>5. ASSUME NEW h \in Handlers, SubmitReply(h)
      PROVE  row'[handler'[g].op].status # "unused"
  <2>1. handler[g].pc # "idle" /\ handler'[g].op = handler[g].op
    BY <1>5, <1>t DEF SubmitReply, IdleHandler
  <2> QED BY <1>2, <2>1
<1>6. CASE UNCHANGED handler
  BY <1>2, <1>6
<1>7. CASE Restart
  BY <1>7 DEF Restart, LoseMemory, IdleHandler
<1>8. \/ \E h \in Handlers :
           \/ \E op \in Ops : SubmitCheck(h, op)
           \/ HandlerSteps(h) \/ SubmitReply(h)
      \/ Restart
      \/ UNCHANGED handler
  BY ZenonT(60) DEF Next, OrbySteps, CallbackSteps, CreateIntent, DeleteProfile,
     OrbyFinishes, CallbackRead, CallbackWrite, CallbackTransactions, vars
<1> QED BY <1>3, <1>4, <1>5, <1>6, <1>7, <1>8

\* A step that changes no reported status and nothing at Orby is a stutter.
LEMMA LifeStutters ==
  ASSUME UNCHANGED <<profile, orby>>, \A op \in Ops : row'[op].status = row[op].status
  PROVE  UNCHANGED Life!vars
<1>1. [op \in Ops |-> row[op].status]' = [op \in Ops |-> row[op].status]
  OBVIOUS
<1>2. [op \in Ops |-> SentAs(op) # {}]' = [op \in Ops |-> SentAs(op) # {}]
  BY DEF SentAs
<1>3. [op \in Ops |-> {orby[e].status : e \in SentAs(op)} \cap Settled]'
        = [op \in Ops |-> {orby[e].status : e \in SentAs(op)} \cap Settled]
  BY DEF SentAs
<1> QED BY <1>1, <1>2, <1>3 DEF Life!vars

\* Orby's acceptance of a set is that of a created operation.
LEMMA LifeAccepts ==
  ASSUME LifeInv, NEW o \in Ops, NEW e \in Execs, Accept(o, e),
         row[o].status # "unused", UNCHANGED <<profile, row>>
  PROVE  Life!Next
<1>1. [op \in Ops |-> row[op].status][o] # "unused"
  OBVIOUS
<1>2. [op \in Ops |-> SentAs(op) # {}]'
        = [[op \in Ops |-> SentAs(op) # {}] EXCEPT ![o] = TRUE]
  BY AcceptSeen DEF LifeInv
<1>3. [op \in Ops |-> {orby[d].status : d \in SentAs(op)} \cap Settled]'
        = [op \in Ops |-> {orby[d].status : d \in SentAs(op)} \cap Settled]
  BY AcceptSeen DEF LifeInv, Results
<1>4. Life!Accept(o)
  BY <1>1, <1>2, <1>3 DEF Life!Accept
<1> QED BY <1>4 DEF Life!Next

LEMMA LifeReaches ==
  ASSUME LifeInv, NEW e \in Execs, NEW result \in Settled, OrbyFinishes(e, result)
  PROVE  Life!Next
<1> DEFINE o == orby[e].op
<1>1. o \in Ops /\ [op \in Ops |-> SentAs(op) # {}][o]
  BY FinishSeen DEF LifeInv
<1>2. [op \in Ops |-> SentAs(op) # {}]' = [op \in Ops |-> SentAs(op) # {}]
  BY FinishSeen DEF LifeInv
<1>3. [op \in Ops |-> {orby[d].status : d \in SentAs(op)} \cap Settled]'
        = [[op \in Ops |-> {orby[d].status : d \in SentAs(op)} \cap Settled]
             EXCEPT ![o] = @ \cup {result}]
  <2>1. \A op \in Ops : Results(op)' =
          IF op = o THEN Results(op) \cup {result} ELSE Results(op)
    BY FinishSeen DEF LifeInv
  <2> QED BY <1>1, <2>1 DEF Results
<1>4. UNCHANGED <<profile, row>>
  BY DEF OrbyFinishes
<1>5. Life!Reach(o, result)
  BY <1>1, <1>2, <1>3, <1>4 DEF Life!Reach
<1>6. result \in Life!Settled
  BY DEF Settled, Life!Settled
<1> HIDE DEF o
<1> QED BY <1>1, <1>5, <1>6 DEF Life!Next

\* The status of a row that was handed over is only ever replaced by 'pending',
\* once Orby accepted it, or by a result Orby reached.
LEMMA LifeReports ==
  ASSUME LifeInv, NEW o \in Ops, NEW s \in {"pending"} \cup Settled, Exists(o),
         \A op \in Ops : row'[op].status = IF op = o THEN s ELSE row[op].status,
         s = "pending" => SentAs(o) # {},
         s \in Settled => Left(o) /\ s \in Results(o),
         UNCHANGED <<profile, orby>>
  PROVE  Life!Next
<1>1. [op \in Ops |-> row[op].status]' = [[op \in Ops |-> row[op].status] EXCEPT ![o] = s]
  OBVIOUS
<1>2. [op \in Ops |-> SentAs(op) # {}]' = [op \in Ops |-> SentAs(op) # {}]
  BY OrbyAlone
<1>3. [op \in Ops |-> {orby[d].status : d \in SentAs(op)} \cap Settled]'
        = [op \in Ops |-> {orby[d].status : d \in SentAs(op)} \cap Settled]
  BY OrbyAlone DEF Results
<1>4. Life!Reported(o)
  BY DEF Life!Reported, Exists
<1>5. CASE s = "pending"
  <2>1. [op \in Ops |-> SentAs(op) # {}][o]
    BY <1>5
  <2>2. Life!ReportPending(o)
    BY <1>1, <1>2, <1>3, <1>4, <1>5, <2>1 DEF Life!ReportPending
  <2> QED BY <2>2 DEF Life!Next
<1>6. CASE s \in Settled
  <2>1. s \in [op \in Ops |-> {orby[d].status : d \in SentAs(op)} \cap Settled][o]
    BY <1>6 DEF Results
  <2>2. [op \in Ops |-> row[op].status][o] # "created"
    BY <1>6 DEF Left
  <2>3. Life!ReportResult(o, s)
    BY <1>1, <1>2, <1>3, <1>4, <2>1, <2>2 DEF Life!ReportResult
  <2> QED BY <1>6, <2>3 DEF Life!Next, Life!Settled, Settled
<1> QED BY <1>5, <1>6

LEMMA LifeInit == Init => Life!Init
<1> SUFFICES ASSUME Init PROVE Life!Init
  OBVIOUS
<1>1. \A op \in Ops : SentAs(op) = {}
  <2>1. orby = [e \in Execs |-> [op |-> None, status |-> "unused"]]
    BY Zenon DEF Init
  <2>2. \A e \in Execs : orby[e].op = None
    BY <2>1
  <2> QED BY <2>2, OrbyConstants DEF SentAs
<1>2. \A op \in Ops : {orby[e].status : e \in SentAs(op)} \cap Settled = {}
  BY <1>1
<1>3. [op \in Ops |-> SentAs(op) # {}] = [op \in Ops |-> FALSE]
  BY <1>1
<1>4. [op \in Ops |-> {orby[e].status : e \in SentAs(op)} \cap Settled] = [op \in Ops |-> {}]
  BY <1>2
<1>5. \A op \in Ops : row[op].status = "unused"
  <2>1. row = [op \in Ops |->
                 [status |-> "unused", completedAt |-> FALSE, txs |-> 0]]
    BY Zenon DEF Init
  <2> QED BY <2>1
<1>6. [op \in Ops |-> row[op].status] = [op \in Ops |-> "unused"]
  BY <1>5
<1>7. profile = TRUE
  BY DEF Init
<1> QED BY <1>3, <1>4, <1>6, <1>7 DEF Life!Init

\* Every step is one of OperationLife, or a stutter.
LEMMA LifeStep == LifeInv /\ [Next]_vars => [Life!Next]_(Life!vars)
<1> SUFFICES ASSUME LifeInv, [Next]_vars PROVE Life!Next \/ UNCHANGED Life!vars
  OBVIOUS
<1> DEFINE Goal == Life!Next \/ UNCHANGED Life!vars
<1>t. /\ handler \in [Handlers -> HandlerStates]
      /\ row \in [Ops -> Rows]
  BY DEF LifeInv, IInv, TypeOK
<1>s. ASSUME UNCHANGED <<profile, row, orby>> PROVE Goal
  <2>1. \A op \in Ops : row'[op].status = row[op].status
    BY <1>s
  <2> QED BY <1>s, <2>1, LifeStutters
<1>1. ASSUME NEW o \in Ops, CreateIntent(o) PROVE Goal
  <2>1. [op \in Ops |-> row[op].status]'
          = [[op \in Ops |-> row[op].status] EXCEPT ![o] = "created"]
    BY <1>1, <1>t DEF CreateIntent, StoreCreated, Rows
  <2>2. profile /\ [op \in Ops |-> row[op].status][o] = "unused"
    BY <1>1 DEF CreateIntent
  <2>3. [op \in Ops |-> SentAs(op) # {}]' = [op \in Ops |-> SentAs(op) # {}]
    BY <1>1, OrbyAlone DEF CreateIntent
  <2>4. [op \in Ops |-> {orby[d].status : d \in SentAs(op)} \cap Settled]'
          = [op \in Ops |-> {orby[d].status : d \in SentAs(op)} \cap Settled]
    BY <1>1, OrbyAlone DEF CreateIntent, Results
  <2>5. UNCHANGED profile
    BY <1>1 DEF CreateIntent
  <2>6. Life!Create(o)
    BY <2>1, <2>2, <2>3, <2>4, <2>5 DEF Life!Create
  <2> QED BY <2>6 DEF Life!Next
<1>2. ASSUME NEW h \in Handlers, NEW e \in Execs, handler[h].pc = "checked",
             Accept(handler[h].op, e), UNCHANGED <<profile, row>>
      PROVE  Goal
  BY <1>2, LifeAccepts DEF LifeInv, IInv, HandlerOK, KnownOK
<1>3. ASSUME NEW h \in Handlers, HandlerSteps(h) PROVE Goal
  <2>1. CASE SubmitRefused(h)
    BY <1>s, <2>1 DEF SubmitRefused
  <2>2. CASE \E e \in Execs : SubmitAnswerLost(h, e)
    BY <1>2, <2>2 DEF SubmitAnswerLost
  <2>3. CASE \E e \in Execs, answer \in Answers : SubmitSent(h, e, answer)
    BY <1>2, <2>3 DEF SubmitSent
  <2>4. CASE SubmitRecord(h)
    <3> DEFINE o == handler[h].op
    <3>1. CASE UNCHANGED row
      BY <1>s, <2>4, <3>1 DEF SubmitRecord
    <3>2. CASE Exists(o) /\ row' = [row EXCEPT ![o].status = "pending"]
      <4>1. o \in Ops /\ handler[h].exec \in SentAs(o)
        BY <2>4 DEF SubmitRecord, LifeInv, IInv, HandlerOK, SentAs
      <4>2. \A op \in Ops : row'[op].status = IF op = o THEN "pending" ELSE row[op].status
        BY <3>2, <4>1, <1>t DEF Rows
      <4>3. UNCHANGED <<profile, orby>>
        BY <2>4 DEF SubmitRecord
      <4>4. "pending" \notin Settled
        BY DEF Settled
      <4> HIDE DEF o
      <4> QED BY <3>2, <4>1, <4>2, <4>3, <4>4, LifeReports
    <3> QED BY <2>4, <3>1, <3>2 DEF SubmitRecord
  <2>5. CASE SubmitMonitor(h)
    BY <1>s, <2>5 DEF SubmitMonitor
  <2> QED BY <1>3, <2>1, <2>2, <2>3, <2>4, <2>5 DEF HandlerSteps
<1>4. CASE DeleteProfile
  <2>1. profile /\ profile' = FALSE
    BY <1>4 DEF DeleteProfile
  <2>2. [op \in Ops |-> row[op].status]'
          = [op \in Ops |-> IF Life!Reported(op) THEN "deleted"
                            ELSE [p \in Ops |-> row[p].status][op]]
    BY <1>4, <1>t DEF DeleteProfile, Exists, Life!Reported, Rows
  <2>3. [op \in Ops |-> SentAs(op) # {}]' = [op \in Ops |-> SentAs(op) # {}]
    BY <1>4, OrbyAlone DEF DeleteProfile
  <2>4. [op \in Ops |-> {orby[d].status : d \in SentAs(op)} \cap Settled]'
          = [op \in Ops |-> {orby[d].status : d \in SentAs(op)} \cap Settled]
    BY <1>4, OrbyAlone DEF DeleteProfile, Results
  <2>5. Life!DeleteOwner
    BY <2>1, <2>2, <2>3, <2>4 DEF Life!DeleteOwner
  <2> QED BY <2>5 DEF Life!Next
<1>5. ASSUME NEW c \in Callbacks, CallbackWrite(c) PROVE Goal
  <2> DEFINE e == callback[c].exec
             o == orby[e].op
             s == StatusAfter(callback[c].seen, callback[c].activity)
  <2>1. CASE UNCHANGED row
    BY <1>5, <1>s, <2>1 DEF CallbackWrite
  <2>2. CASE Exists(o) /\ row' = [row EXCEPT ![o].status = s,
                                     ![o].completedAt = @ \/ s \in Settled]
    <3>1. e \in SentAs(o) /\ o \in Ops /\ Left(o)
      BY <1>5 DEF CallbackWrite, LifeInv, IInv, CallbackOK, SentAs
    <3>2. s \in {"pending"} \cup Settled
      BY <1>5 DEF CallbackWrite, LifeInv, IInv, CallbackOK, StatusAfter
    <3>3. s \in Settled => s \in Results(o)
      <4>1. CASE callback[c].activity \in Settled
        <5>1. s = orby[e].status
          BY <1>5, <4>1 DEF CallbackWrite, LifeInv, IInv, CallbackOK, StatusAfter
        <5>2. orby[e].status \in {orby[d].status : d \in SentAs(o)}
          BY <3>1
        <5> HIDE DEF s, o, e
        <5> QED BY <5>1, <5>2 DEF Results
      <4>2. CASE callback[c].activity \notin Settled
        BY <1>5, <4>2 DEF CallbackWrite, LifeInv, IInv, CallbackOK, StatusAfter, Results
      <4> QED BY <4>1, <4>2
    <3>4. \A op \in Ops : row'[op].status = IF op = o THEN s ELSE row[op].status
      <4> HIDE DEF o, s
      <4> QED BY <2>2, <3>1, <1>t DEF Rows
    <3>5. UNCHANGED <<profile, orby>>
      BY <1>5 DEF CallbackWrite
    <3>6. SentAs(o) # {}
      BY <3>1
    <3> HIDE DEF o, s
    <3> QED BY <2>2, <3>1, <3>2, <3>3, <3>4, <3>5, <3>6, LifeReports
  <2> QED BY <1>5, <2>1, <2>2 DEF CallbackWrite
<1>6. ASSUME NEW c \in Callbacks, CallbackTransactions(c) PROVE Goal
  <2>1. \A op \in Ops : row'[op].status = row[op].status
    BY <1>6, TransactionsCounted, <1>t
  <2>2. UNCHANGED <<profile, orby>>
    BY <1>6 DEF CallbackTransactions
  <2> QED BY <2>1, <2>2, LifeStutters
<1>7. ASSUME NEW e \in Execs, NEW result \in Settled, OrbyFinishes(e, result) PROVE Goal
  BY <1>7, LifeReaches
<1>8. \/ \E o \in Ops : CreateIntent(o)
      \/ \E h \in Handlers : HandlerSteps(h)
      \/ DeleteProfile
      \/ \E c \in Callbacks : CallbackWrite(c) \/ CallbackTransactions(c)
      \/ \E e \in Execs, result \in Settled : OrbyFinishes(e, result)
      \/ UNCHANGED <<profile, row, orby>>
  BY ZenonT(60) DEF Next, OrbySteps, CallbackSteps, SubmitCheck, SubmitReply,
     CallbackRead, Restart, vars
<1> QED BY <1>s, <1>1, <1>3, <1>4, <1>5, <1>6, <1>7, <1>8

\* What the status endpoint reports lives the life of OperationLife.
THEOREM LifeIsLived == Spec => LivesItsLife
<1>1. Init => LifeInv /\ Life!Init
  <2>1. Init => LifeInv
    BY InitIInv DEF LifeInv, KnownOK, Init, IdleHandler
  <2> QED BY <2>1, LifeInit
<1>2. LifeInv /\ [Next]_vars => LifeInv'
  BY TypeStep, OrbyStep, HandlerStep, SubsStep, CallbackStep, ReportedStep, KnownStep
     DEF LifeInv, IInv
<1>3. LifeInv /\ [Next]_vars => [Life!Next]_(Life!vars)
  BY LifeStep
<1> QED BY <1>1, <1>2, <1>3, PTL DEF Spec, LivesItsLife, Life!Spec

-----------------------------------------------------------------------------
(* BatchOperations: what the steps of OrbyOperations do to its operations. *)

Sent(op) == \E e \in Execs : orby[e].op = op
Succeeded(op) == \E e \in Execs : orby[e].op = op /\ orby[e].status = "successful"

\* Without the profile there are no operations.
NoProfileNoRows == ~profile => \A op \in Ops : ~Exists(op)

\* A request that has answered 'ok' was accepted by Orby.
OkIsSent == \A h \in Handlers : handler[h].pc = "ok" => Sent(handler[h].op)

OrbyInv == IInv /\ NoProfileNoRows /\ OkIsSent

\* What was sent and what succeeded stays so.
SentStays ==
  \A op \in Ops : (Sent(op) => Sent(op)') /\ (Succeeded(op) => Succeeded(op)')

\* No row comes into being, or back.
NoRowComes ==
  \A op \in Ops : /\ row[op].status = "unused" <=> row'[op].status = "unused"
                  /\ Exists(op)' => Exists(op)

LEMMA MonotoneSent == Monotone => SentStays
BY DEF Monotone, SentStays, Sent, Succeeded, Settled

\* The steps beside CreateIntent.
LEMMA OrbyRows ==
  ASSUME IInv, [Next]_vars, ~ \E op \in Ops : CreateIntent(op)
  PROVE  /\ NoRowComes
         /\ profile' => profile
         /\ profile' # profile => \A op \in Ops : ~Exists(op)'
<1>t. /\ row \in [Ops -> Rows] /\ callback \in [Callbacks -> CallbackStates]
      /\ profile \in BOOLEAN
  BY DEF IInv, TypeOK
<1>1. CASE UNCHANGED <<row, profile>>
  BY <1>1 DEF NoRowComes, Exists
<1>2. CASE DeleteProfile
  <2>1. /\ row' = [op \in Ops |->
             IF Exists(op) THEN [status |-> "deleted", completedAt |-> FALSE, txs |-> 0]
             ELSE row[op]]
        /\ profile /\ profile' = FALSE
    BY <1>2 DEF DeleteProfile
  <2> QED BY <2>1 DEF NoRowComes, Exists
<1>3. ASSUME NEW h \in Handlers, SubmitRecord(h) PROVE NoRowComes /\ UNCHANGED profile
  <2>1. handler[h].op \in Ops
    BY <1>3 DEF SubmitRecord, IInv, HandlerOK
  <2> QED BY <1>3, <1>t, <2>1 DEF SubmitRecord, NoRowComes, Exists, Rows
<1>4. ASSUME NEW c \in Callbacks, CallbackWrite(c) PROVE NoRowComes /\ UNCHANGED profile
  <2> DEFINE op == orby[callback[c].exec].op
             status == StatusAfter(callback[c].seen, callback[c].activity)
  <2>1. op \in Ops /\ status \in {"pending"} \cup Settled
    BY <1>4 DEF CallbackWrite, IInv, CallbackOK, StatusAfter
  <2>2. CASE UNCHANGED row
    BY <1>4, <2>2 DEF CallbackWrite, NoRowComes, Exists
  <2>3. CASE Exists(op) /\ row' = [row EXCEPT ![op].status = status,
                                   ![op].completedAt = @ \/ status \in Settled]
    <3>1. \A o \in Ops : row'[o].status = IF o = op THEN status ELSE row[o].status
      BY <1>t, <2>1, <2>3 DEF Rows
    <3> QED BY <1>4, <2>1, <2>3, <3>1 DEF CallbackWrite, NoRowComes, Exists, Settled
  <2> QED BY <1>4, <2>2, <2>3 DEF CallbackWrite
<1>5. ASSUME NEW c \in Callbacks, CallbackTransactions(c) PROVE NoRowComes /\ UNCHANGED profile
  <2>1. orby[callback[c].exec].op \in Ops
    BY <1>5 DEF CallbackTransactions, IInv, CallbackOK
  <2>2. \A o \in Ops : row'[o].status = row[o].status
    BY <1>5, <1>t, <2>1 DEF CallbackTransactions, Rows
  <2> QED BY <1>5, <2>2 DEF CallbackTransactions, NoRowComes, Exists
<1>6. ASSUME NEW h \in Handlers, HandlerSteps(h), ~SubmitRecord(h) PROVE UNCHANGED <<row, profile>>
  BY <1>6 DEF HandlerSteps, SubmitRefused, SubmitAnswerLost, SubmitSent, SubmitMonitor
<1>7. ASSUME OrbySteps, ~ \E c \in Callbacks : CallbackSteps(c) PROVE UNCHANGED <<row, profile>>
  BY <1>7 DEF OrbySteps, OrbyFinishes, CallbackRead
<1>8. CASE \E h \in Handlers, op \in Ops : SubmitCheck(h, op)
  BY <1>1, <1>8 DEF SubmitCheck
<1>9. CASE Restart \/ UNCHANGED vars \/ \E h \in Handlers : SubmitReply(h)
  BY <1>1, <1>9 DEF Restart, vars, SubmitReply
<1> QED BY <1>1, <1>2, <1>3, <1>4, <1>5, <1>6, <1>7, <1>8, <1>9 DEF Next, CallbackSteps

\* A request in flight keeps its operation until it is answered or lost.
LEMMA RequestsKeep ==
  ASSUME IInv, NEW h \in Handlers, HandlerSteps(h)
  PROVE  /\ handler' = [handler EXCEPT ![h] = handler'[h]]
         /\ handler'[h].op = handler[h].op
         /\ handler'[h].pc = "ok" => handler[h].pc = "recorded"
         /\ handler[h].pc # "idle"
<1>t. handler \in [Handlers -> HandlerStates]
  BY DEF IInv, TypeOK
<1>1. CASE SubmitRefused(h)
  BY <1>1, <1>t DEF SubmitRefused, HandlerStates
<1>2. CASE \E e \in Execs : SubmitAnswerLost(h, e)
  BY <1>2, <1>t DEF SubmitAnswerLost, HandlerStates
<1>3. CASE \E e \in Execs, answer \in Answers : SubmitSent(h, e, answer)
  BY <1>3, <1>t DEF SubmitSent, HandlerStates
<1>4. CASE SubmitRecord(h)
  BY <1>4, <1>t DEF SubmitRecord, HandlerStates
<1>5. CASE SubmitMonitor(h)
  BY <1>5, <1>t DEF SubmitMonitor, HandlerStates
<1> QED BY <1>1, <1>2, <1>3, <1>4, <1>5 DEF HandlerSteps

LEMMA OkStep ==
  ASSUME IInv, OkIsSent, [Next]_vars
  PROVE  OkIsSent'
<1>t. handler \in [Handlers -> HandlerStates]
  BY DEF IInv, TypeOK
<1>m. SentStays
  BY MonotoneStep, MonotoneSent
<1>o. \A h \in Handlers : handler[h].pc # "idle" => handler[h].op \in Ops
  BY DEF IInv, HandlerOK
<1>1. CASE \A h \in Handlers : handler'[h].pc = "ok" => handler'[h] = handler[h]
  <2> SUFFICES ASSUME NEW h \in Handlers, handler'[h].pc = "ok"
               PROVE  \E e \in Execs : orby'[e].op = handler'[h].op
    BY DEF OkIsSent, Sent
  <2>1. handler'[h] = handler[h]
    BY <1>1
  <2>2. handler[h].op \in Ops /\ Sent(handler[h].op)
    BY <1>o, <2>1 DEF OkIsSent
  <2> QED BY <1>m, <2>1, <2>2 DEF SentStays, Sent
<1>2. ASSUME NEW h \in Handlers, HandlerSteps(h) PROVE OkIsSent'
  <2> SUFFICES ASSUME NEW g \in Handlers, handler'[g].pc = "ok"
               PROVE  \E e \in Execs : orby'[e].op = handler'[g].op
    BY DEF OkIsSent, Sent
  <2>1. CASE g = h
    <3>1. handler[h].pc = "recorded" /\ handler'[h].op = handler[h].op
      BY <1>2, <2>1, RequestsKeep
    <3>2. handler[h].exec \in Execs /\ orby[handler[h].exec].op = handler[h].op
      BY <3>1 DEF IInv, HandlerOK
    <3>3. handler[h].op \in Ops /\ Sent(handler[h].op)
      BY <1>o, <3>1, <3>2 DEF Sent
    <3> QED BY <1>m, <2>1, <3>1, <3>3 DEF SentStays, Sent
  <2>2. CASE g # h
    <3>1. handler'[g] = handler[g]
      BY <1>2, <1>t, <2>2, RequestsKeep
    <3>2. handler[g].op \in Ops /\ Sent(handler[g].op)
      BY <1>o, <3>1 DEF OkIsSent
    <3> QED BY <1>m, <3>1, <3>2 DEF SentStays, Sent
  <2> QED BY <2>1, <2>2
<1>3. ASSUME NEW h \in Handlers, NEW op \in Ops, SubmitCheck(h, op) PROVE OkIsSent'
  BY <1>1, <1>3, <1>t DEF SubmitCheck, IdleHandler
<1>4. ASSUME NEW h \in Handlers, SubmitReply(h) PROVE OkIsSent'
  BY <1>1, <1>4, <1>t DEF SubmitReply, IdleHandler
<1>5. CASE Restart
  BY <1>1, <1>5 DEF Restart, LoseMemory, IdleHandler
<1>6. CASE OrbySteps \/ UNCHANGED vars \/ DeleteProfile \/ \E op \in Ops : CreateIntent(op)
  <2>1. UNCHANGED handler
    BY <1>6 DEF OrbySteps, OrbyFinishes, CallbackRead, CallbackSteps, CallbackWrite,
       CallbackTransactions, vars, DeleteProfile, CreateIntent
  <2> QED BY <1>1, <2>1
<1> QED BY <1>2, <1>3, <1>4, <1>5, <1>6 DEF Next

\* Every step of OrbyOperations keeps its invariant.
LEMMA OrbyInvStep ==
  ASSUME OrbyInv, [Next]_vars
  PROVE  OrbyInv' /\ SentStays
<1>1. IInv'
  BY TypeStep, OrbyStep, HandlerStep, SubsStep, CallbackStep, ReportedStep DEF OrbyInv, IInv
<1>2. OkIsSent'
  BY OkStep DEF OrbyInv
<1>3. NoProfileNoRows'
  <2>1. CASE \E op \in Ops : CreateIntent(op)
    BY <2>1 DEF CreateIntent, NoProfileNoRows
  <2>2. CASE ~ \E op \in Ops : CreateIntent(op)
    BY <2>2, OrbyRows DEF OrbyInv, NoProfileNoRows, NoRowComes
  <2> QED BY <2>1, <2>2
<1> QED BY <1>1, <1>2, <1>3, MonotoneStep, MonotoneSent DEF OrbyInv

\* So does the deletion of a refused batch's operations.
LEMMA RowsDeleted ==
  ASSUME OrbyInv, NEW S,
         row' = [op \in Ops |->
           IF op \in S /\ Exists(op) THEN [status |-> "deleted", completedAt |-> FALSE, txs |-> 0]
           ELSE row[op]],
         UNCHANGED <<profile, handler, orby, subs, callback, crashes>>
  PROVE  OrbyInv' /\ SentStays /\ NoRowComes /\ \A op \in S \cap Ops : ~Exists(op)'
<1>1. [status |-> "deleted", completedAt |-> FALSE, txs |-> 0] \in Rows
  BY OrbyConstants DEF Rows, RowStatus
<1>2. TypeOK'
  BY <1>1 DEF OrbyInv, IInv, TypeOK
<1>3. \A op \in Ops : (Left(op) => StillLeft(op)) /\ (row'[op] = row[op] \/ row'[op].status = "deleted")
  BY DEF Left, StillLeft
<1>4. OrbyOK' /\ HandlerOK' /\ SubsOK'
  BY <1>3 DEF OrbyInv, IInv, OrbyOK, HandlerOK, SubsOK, Left, StillLeft
<1>5. CallbackOK'
  BY <1>3 DEF OrbyInv, IInv, CallbackOK, Left, StillLeft, SentAs
<1>6. ReportedIsReal'
  <2> SUFFICES ASSUME NEW op \in Ops
      PROVE /\ row'[op].status \in {"pending"} \cup Settled => SentAs(op) # {}
            /\ row'[op].status \in Settled => \E e \in SentAs(op) : orby[e].status = row'[op].status
            /\ row'[op].completedAt => \E e \in SentAs(op) : orby[e].status \in Settled
    BY DEF ReportedIsReal, SentAs
  <2>1. CASE row'[op] = row[op]
    BY <2>1 DEF OrbyInv, IInv, ReportedIsReal
  <2>2. CASE row'[op] # row[op]
    BY <2>2 DEF Settled
  <2> QED BY <2>1, <2>2
<1>7. NoRowComes /\ \A op \in S \cap Ops : ~Exists(op)'
  BY DEF NoRowComes, Exists
<1>8. NoProfileNoRows' /\ OkIsSent' /\ SentStays
  BY <1>7 DEF OrbyInv, NoProfileNoRows, OkIsSent, NoRowComes, Sent, SentStays, Succeeded
<1> QED BY <1>2, <1>4, <1>5, <1>6, <1>7, <1>8 DEF OrbyInv, IInv

-----------------------------------------------------------------------------
(* The invariant of the batches.                                           *)

InOrder(b, items) == \A i \in DOMAIN items : items[i].op = BatchOps[b][i]

\* A call of createBatchIntent works its batch's operations off in order and
\* has stored the record once it is done.  An atomic batch keeps no failed
\* item unless it is being cleaned up, and nothing once it was refused.
CreatorOK(b) ==
  LET k == creator[b]
  IN /\ Len(k.items) <= Len(BatchOps[b])
     /\ InOrder(b, k.items)
     /\ k.pc = "idle" => k.items = <<>>
     /\ k.pc = "building" => Len(k.items) <= k.n /\ k.n <= Len(BatchOps[b])
     /\ batch[b].status # "unused" <=> k.pc = "done"
     /\ k.pc = "done" => batch[b].items = k.items /\ batch[b].atomic = k.atomic
     /\ k.pc \in {"building", "done"} /\ k.atomic => FailedItems(k.items) = {}
     /\ k.pc = "refused" /\ k.atomic => \A op \in ItemOps(k.items) : ~Exists(op)

\* An operation that was not built yet has no row.
NotBuilt ==
  \A b \in Batches : \A i \in DOMAIN BatchOps[b] :
    i > Len(creator[b].items) => row[BatchOps[b][i]].status = "unused"

\* Records disappear with the profile only.
RecordsStay == \A b \in Batches : batch[b].status = "deleted" => ~profile

\* An execution counts as failed what it did not send; while an atomic batch
\* goes on, it saw everything known so far accepted.
ExecutorOK(x) ==
  LET q == executor[x]
      named == NamedOps(batch[q.batch].items)
  IN q.pc # "idle" =>
       /\ q.batch \in Batches /\ batch[q.batch].status # "unused"
       /\ q.list \in SignedLists /\ q.next \in 1..(Len(q.list) + 1)
       /\ q.pc = "submitting" =>
            /\ q.next <= Len(q.list) /\ q.list[q.next] \in named
            /\ handler[x].op = q.list[q.next]
       /\ q.failed = 0 =>
            /\ q.pc # "stopped"
            /\ \A i \in 1..(q.next - 1) : q.list[i] \in named /\ Sent(q.list[i])
       /\ batch[q.batch].atomic /\ q.pc # "stopped" =>
            \A i \in 1..(q.next - 1) :
              q.list[i] \in named => i \in q.accepted /\ Sent(q.list[i])

\* What a poll is about to write is still true.
PollerOK(p) ==
  LET q == poller[p]
  IN /\ q.pc # "idle" =>
          /\ q.batch \in Batches /\ batch[q.batch].status # "unused"
          /\ q.seen \notin {"unused", "deleted"}
     /\ q.pc = "write" =>
          /\ q.overall \in {"completed", "failed"}
          /\ q.overall = "completed" =>
               \A op \in ItemOps(batch[q.batch].items) : Succeeded(op)

CompletedOK ==
  \A b \in Batches : batch[b].status = "completed" =>
    \A op \in ItemOps(batch[b].items) : Succeeded(op)

BatchInv ==
  /\ OrbyInv /\ BatchTypeOK
  /\ \A b \in Batches : CreatorOK(b)
  /\ NotBuilt /\ RecordsStay
  /\ \A x \in Handlers : ExecutorOK(x)
  /\ \A p \in Pollers : PollerOK(p)
  /\ CompletedOK

-----------------------------------------------------------------------------
(* Helpers.                                                                *)

BatchRecords == [status : BatchStatus, atomic : BOOLEAN, items : Items]

CreateCalls ==
  [pc : {"idle", "building", "cleanup", "refused", "done", "error", "lost"},
   atomic : BOOLEAN, retry : BOOLEAN, n : 0..MaxOperations, items : Items]

ExecuteCalls ==
  [pc : {"idle", "loop", "submitting", "stopped"},
   batch : Batches \cup {None}, list : SignedLists \cup {<<>>},
   next : Nat, submitted : Nat, failed : Nat, accepted : SUBSET Nat]

PollCalls ==
  [pc : {"idle", "operations", "write"}, batch : Batches \cup {None},
   seen : BatchStatus, overall : BatchStatus]

LEMMA BatchTypes ==
  BatchTypeOK <=> /\ TypeOK
                  /\ batch \in [Batches -> BatchRecords]
                  /\ creator \in [Batches -> CreateCalls]
                  /\ executor \in [Handlers -> ExecuteCalls]
                  /\ poller \in [Pollers -> PollCalls]
BY DEF BatchTypeOK, BatchRecords, CreateCalls, ExecuteCalls, PollCalls

LEMMA SeqElement ==
  ASSUME NEW S, NEW s \in Seq(S)
  PROVE  \A i \in DOMAIN s : s[i] \in S
OBVIOUS

LEMMA SeqAppend ==
  ASSUME NEW S, NEW s \in Seq(S), NEW e \in S
  PROVE  Append(s, e) \in Seq(S)
OBVIOUS

LEMMA BatchOpsTyped ==
  ASSUME NEW b \in Batches
  PROVE  /\ BatchOps[b] \in Seq(Ops)
         /\ \A i \in DOMAIN BatchOps[b] : BatchOps[b][i] \in Ops
BY BatchConstants

LEMMA ItemsTyped ==
  ASSUME NEW items \in Items
  PROVE  NamedOps(items) \subseteq ItemOps(items) /\ ItemOps(items) \subseteq Ops
<1>1. \A i \in DOMAIN items : items[i] \in [op : Ops, status : {"created", "failed"}]
  BY SeqElement DEF Items
<1>2. \A i \in DOMAIN items : items[i].op \in Ops
  BY <1>1
<1> QED BY <1>2 DEF ItemOps, NamedOps

\* The operations of a batch's items are those generated for it.
LEMMA ItemsOfBatch ==
  ASSUME NEW b \in Batches, NEW items \in Items, Len(items) <= Len(BatchOps[b]),
         InOrder(b, items)
  PROVE  \A op \in ItemOps(items) :
           \E i \in DOMAIN BatchOps[b] : i <= Len(items) /\ op = BatchOps[b][i]
<1>1. \A i \in DOMAIN items : i \in DOMAIN BatchOps[b] /\ i <= Len(items) /\ items[i].op \in Ops
  BY BatchConstants DEF Items, InOrder
<1> QED BY <1>1 DEF ItemOps, InOrder

\* Adding an item keeps the order of the operations.
LEMMA ItemAdded ==
  ASSUME NEW b \in Batches, CreatorOK(b), Building(b), creator[b].items \in Items,
         creator[b].n \in 0..MaxOperations,
         NEW status \in {"created", "failed"},
         NEW items, items = Append(creator[b].items, [op |-> NextOp(b), status |-> status])
  PROVE  /\ NextOp(b) \in Ops
         /\ Len(creator[b].items) + 1 \in DOMAIN BatchOps[b]
         /\ items \in Items /\ Len(items) = Len(creator[b].items) + 1
         /\ Len(items) <= creator[b].n /\ creator[b].n <= Len(BatchOps[b])
         /\ InOrder(b, items)
         /\ status = "created" /\ FailedItems(creator[b].items) = {} => FailedItems(items) = {}
<1> DEFINE old == creator[b].items
<1>1. /\ Len(old) \in Nat /\ creator[b].n \in Nat /\ Len(BatchOps[b]) \in Nat
      /\ Len(old) < creator[b].n /\ creator[b].n <= Len(BatchOps[b])
  BY BatchConstants DEF CreatorOK, Building, Items
<1>2. Len(old) + 1 \in DOMAIN BatchOps[b]
  BY <1>1, BatchConstants
<1>3. NextOp(b) \in Ops
  BY <1>2, BatchConstants DEF NextOp
<1>4. items \in Items /\ Len(items) = Len(old) + 1
  BY <1>3 DEF Items
<1>5. \A i \in 1..Len(old) : items[i] = old[i]
  BY <1>3 DEF Items
<1>6. items[Len(old) + 1] = [op |-> NextOp(b), status |-> status]
  BY <1>3 DEF Items
<1>7. \A i \in DOMAIN items : i \in 1..Len(old) \/ i = Len(old) + 1
  BY <1>1, <1>4 DEF Items
<1>8. \A i \in 1..Len(old) : i \in DOMAIN old
  BY DEF Items
<1>9. InOrder(b, items)
  BY <1>5, <1>6, <1>7, <1>8 DEF CreatorOK, NextOp, InOrder
<1>10. status = "created" /\ FailedItems(old) = {} => FailedItems(items) = {}
  BY <1>5, <1>6, <1>7, <1>8 DEF FailedItems
<1> QED BY <1>1, <1>2, <1>3, <1>4, <1>9, <1>10

\* The steps of the batches are steps of OrbyOperations, or a cleaning up.
LEMMA OrbyPart ==
  ASSUME BatchInv, [BatchNext]_allVars
  PROVE  [Next]_vars \/ \E b \in Batches : CleanUp(b)
<1>1. ASSUME NEW b \in Batches, BuildItem(b) PROVE Next
  <2>1. CreatorOK(b) /\ Building(b) /\ creator[b].items \in Items /\ creator[b].n \in 0..MaxOperations
    BY <1>1 DEF BatchInv, BatchTypeOK, BuildItem
  <2>2. NextOp(b) \in Ops /\ Len(creator[b].items) + 1 \in DOMAIN BatchOps[b]
    BY <2>1, ItemAdded
  <2>3. row[NextOp(b)].status = "unused"
    BY <2>1, <2>2 DEF BatchInv, NotBuilt, NextOp, Items
  <2>4. CreateIntent(NextOp(b))
    BY <1>1, <2>3 DEF BuildItem, CreateIntent
  <2> QED BY <2>2, <2>4 DEF Next
<1>2. ASSUME NEW x \in Handlers, ExecuteSubmit(x) PROVE Next
  <2>1. PICK op : op = Signed(x)
    OBVIOUS
  <2>2. op \in NamedOps(batch[executor[x].batch].items) /\ SubmitCheck(x, op)
    BY <1>2, <2>1 DEF ExecuteSubmit
  <2>3. executor[x].batch \in Batches /\ batch[executor[x].batch].items \in Items
    BY <1>2 DEF ExecuteSubmit, More, BatchInv, ExecutorOK, BatchTypeOK
  <2>4. op \in Ops
    BY <2>2, <2>3, ItemsTyped
  <2> QED BY <2>2, <2>4 DEF Next
<1>3. ASSUME NEW x \in Handlers, ExecuteResult(x) \/ DirectReply(x) PROVE Next
  BY <1>3 DEF ExecuteResult, DirectReply, Next
<1>4. ASSUME NEW x \in Handlers, NEW op \in Ops, DirectSubmit(x, op) PROVE Next
  BY <1>4 DEF DirectSubmit, Next
<1>5. ASSUME NEW x \in Handlers, HandlerSteps(x) PROVE Next
  BY <1>5 DEF Next
<1>6. CASE OrbySteps \/ BatchDeleteProfile \/ BatchRestart
  BY <1>6 DEF BatchDeleteProfile, BatchRestart, Restart, Next
<1>7. ASSUME NEW b \in Batches, NEW a \in BOOLEAN, NEW r \in BOOLEAN, NEW n \in 1..MaxOperations,
             CreateBatch(b, a, r, n)
      PROVE UNCHANGED vars
  BY <1>7 DEF CreateBatch
<1>8. ASSUME NEW b \in Batches, NEW old \in Batches, RetryBatch(old, b) PROVE UNCHANGED vars
  BY <1>8 DEF RetryBatch, CreateBatch
<1>9. ASSUME NEW b \in Batches, BuildFails(b) \/ CleanUpFails(b) \/ StoreBatch(b) \/ StoreFails(b)
      PROVE UNCHANGED vars
  BY <1>9 DEF BuildFails, CleanUpFails, StoreBatch, StoreFails
<1>10. ASSUME NEW x \in Handlers, ExecuteUnknown(x) \/ ExecuteFinish(x) PROVE UNCHANGED vars
  BY <1>10 DEF ExecuteUnknown, ExecuteFinish
<1>11. ASSUME NEW x \in Handlers, NEW b \in Batches, NEW list \in SignedLists, ExecuteCheck(x, b, list)
       PROVE UNCHANGED vars
  BY <1>11 DEF ExecuteCheck
<1>12. ASSUME NEW p \in Pollers, PollOperations(p) \/ PollWrite(p) PROVE UNCHANGED vars
  BY <1>12 DEF PollOperations, PollWrite
<1>13. ASSUME NEW p \in Pollers, NEW b \in Batches, PollBatch(p, b) PROVE UNCHANGED vars
  BY <1>13 DEF PollBatch
<1>14. CASE UNCHANGED allVars
  BY <1>14 DEF allVars
<1> QED BY <1>1, <1>2, <1>3, <1>4, <1>5, <1>6, <1>7, <1>8, <1>9, <1>10, <1>11, <1>12, <1>13, <1>14
     DEF BatchNext

LEMMA OrbyInvKept ==
  ASSUME BatchInv, [BatchNext]_allVars
  PROVE  OrbyInv' /\ SentStays
<1>1. CASE [Next]_vars
  BY <1>1, OrbyInvStep DEF BatchInv
<1>2. ASSUME NEW b \in Batches, CleanUp(b) PROVE OrbyInv' /\ SentStays
  <2> DEFINE S == ItemOps(creator[b].items)
  <2>1. /\ row' = [op \in Ops |->
             IF op \in S /\ Exists(op) THEN [status |-> "deleted", completedAt |-> FALSE, txs |-> 0]
             ELSE row[op]]
        /\ UNCHANGED <<profile, handler, orby, subs, callback, crashes>>
    BY <1>2 DEF CleanUp
  <2> HIDE DEF S
  <2> QED BY <2>1, RowsDeleted DEF BatchInv
<1> QED BY <1>1, <1>2, OrbyPart

-----------------------------------------------------------------------------
(* Who writes what.                                                        *)

LEMMA BatchWriters ==
  ASSUME [BatchNext]_allVars
  PROVE  \/ UNCHANGED batch
         \/ \E b \in Batches : StoreBatch(b)
         \/ \E x \in Handlers : ExecuteFinish(x)
         \/ \E p \in Pollers : PollWrite(p)
         \/ BatchDeleteProfile
BY DEF BatchNext, allVars, batchVars, CreateBatch, RetryBatch, BuildItem, BuildFails, CleanUp,
   CleanUpFails, StoreFails, ExecuteCheck, ExecuteUnknown, ExecuteSubmit, ExecuteResult, DirectSubmit, DirectReply,
   PollBatch, PollOperations, BatchRestart

Starts(b) ==
  \E atomic \in BOOLEAN, retry \in BOOLEAN, n \in 1..MaxOperations : CreateBatch(b, atomic, retry, n)

LEMMA CreatorWriters ==
  ASSUME BatchTypeOK, [BatchNext]_allVars
  PROVE  \/ UNCHANGED creator
         \/ \E b \in Batches : \/ Starts(b) \/ BuildItem(b) \/ BuildFails(b)
                               \/ CleanUp(b) \/ CleanUpFails(b)
                               \/ StoreBatch(b) \/ StoreFails(b)
         \/ BatchRestart
<1>1. ASSUME NEW b \in Batches, NEW old \in Batches, RetryBatch(old, b) PROVE Starts(b)
  <2>1. PICK n \in 1..Len(batch[old].items) : CreateBatch(b, FALSE, TRUE, n)
    BY <1>1 DEF RetryBatch
  <2>2. n \in 1..MaxOperations
    BY <2>1 DEF CreateBatch
  <2> QED BY <2>1, <2>2 DEF Starts
<1>2. ASSUME NEW b \in Batches, NEW a \in BOOLEAN, NEW n \in 1..MaxOperations, CreateBatch(b, a, FALSE, n)
      PROVE Starts(b)
  BY <1>2 DEF Starts
<1>3. ASSUME NEW x \in Handlers,
             \/ \E b \in Batches, list \in SignedLists : ExecuteCheck(x, b, list)
             \/ ExecuteUnknown(x) \/ ExecuteSubmit(x) \/ ExecuteResult(x) \/ ExecuteFinish(x)
             \/ \E op \in Ops : DirectSubmit(x, op)
             \/ DirectReply(x)
             \/ HandlerSteps(x) /\ UNCHANGED batchVars
      PROVE UNCHANGED creator
  BY <1>3 DEF ExecuteCheck, ExecuteUnknown, ExecuteSubmit, ExecuteResult, ExecuteFinish,
     DirectSubmit, DirectReply, batchVars
<1>4. ASSUME NEW p \in Pollers,
             (\E b \in Batches : PollBatch(p, b)) \/ PollOperations(p) \/ PollWrite(p)
      PROVE UNCHANGED creator
  BY <1>4 DEF PollBatch, PollOperations, PollWrite
<1>5. CASE (OrbySteps /\ UNCHANGED batchVars) \/ BatchDeleteProfile \/ UNCHANGED allVars
  BY <1>5 DEF batchVars, BatchDeleteProfile, allVars
<1> QED BY <1>1, <1>2, <1>3, <1>4, <1>5 DEF BatchNext

LEMMA ExecutorWriters ==
  ASSUME [BatchNext]_allVars
  PROVE  \/ UNCHANGED executor
         \/ \E x \in Handlers :
              \/ \E b \in Batches, list \in SignedLists : ExecuteCheck(x, b, list)
              \/ ExecuteUnknown(x) \/ ExecuteSubmit(x) \/ ExecuteResult(x) \/ ExecuteFinish(x)
         \/ BatchRestart
BY DEF BatchNext, allVars, batchVars, CreateBatch, RetryBatch, BuildItem, BuildFails, CleanUp, StoreBatch,
   CleanUpFails, StoreFails, DirectSubmit, DirectReply, PollBatch, PollOperations, PollWrite, BatchDeleteProfile

LEMMA PollerWriters ==
  ASSUME [BatchNext]_allVars
  PROVE  \/ UNCHANGED poller
         \/ \E p \in Pollers :
              (\E b \in Batches : PollBatch(p, b)) \/ PollOperations(p) \/ PollWrite(p)
         \/ BatchRestart
BY DEF BatchNext, allVars, batchVars, CreateBatch, RetryBatch, BuildItem, BuildFails, CleanUp, StoreBatch,
   CleanUpFails, StoreFails, DirectSubmit, DirectReply, ExecuteCheck, ExecuteUnknown, ExecuteSubmit, ExecuteResult, ExecuteFinish,
   BatchDeleteProfile

LEMMA ProfileGoes == BatchInv /\ [BatchNext]_allVars /\ profile' => profile
<1> SUFFICES ASSUME BatchInv, [BatchNext]_allVars, profile' PROVE profile
  OBVIOUS
<1>1. CASE \E op \in Ops : CreateIntent(op)
  BY <1>1 DEF CreateIntent
<1>2. CASE [Next]_vars /\ ~ \E op \in Ops : CreateIntent(op)
  BY <1>2, OrbyRows DEF BatchInv, OrbyInv
<1>3. ASSUME NEW b \in Batches, CleanUp(b) PROVE profile
  BY <1>3 DEF CleanUp
<1> QED BY <1>1, <1>2, <1>3, OrbyPart

\* A stored record keeps its operations, and disappears with the profile only.
Kept(b) ==
  /\ batch'[b].items = batch[b].items /\ batch'[b].atomic = batch[b].atomic
  /\ batch'[b].status = "unused" <=> batch[b].status = "unused"
  /\ batch'[b].status = "deleted" => batch[b].status = "deleted" \/ ~profile'

LEMMA RecordsKept ==
  ASSUME BatchInv, [BatchNext]_allVars, NEW b \in Batches, ~StoreBatch(b)
  PROVE  Kept(b)
<1>t. batch \in [Batches -> BatchRecords]
  BY BatchTypes DEF BatchInv
<1>1. CASE UNCHANGED batch
  BY <1>1 DEF Kept
<1>2. ASSUME NEW c \in Batches, StoreBatch(c) PROVE Kept(b)
  BY <1>2, <1>t DEF StoreBatch, Kept, BatchRecords
<1>3. ASSUME NEW x \in Handlers, ExecuteFinish(x) PROVE Kept(b)
  <2>1. PICK c, status : /\ c = executor[x].batch
                         /\ status = ExecutionStatus(executor[x].submitted, executor[x].failed)
    OBVIOUS
  <2>2. status \in {"submitted", "partial", "failed"}
    BY <2>1 DEF ExecutionStatus
  <2>3. CASE Stored(c) /\ batch' = [batch EXCEPT ![c].status = status]
    BY <1>t, <2>2, <2>3 DEF Kept, Stored, BatchRecords
  <2> QED BY <1>1, <1>3, <2>1, <2>3 DEF ExecuteFinish
<1>4. ASSUME NEW p \in Pollers, PollWrite(p) PROVE Kept(b)
  <2>1. poller[p].overall \in {"completed", "failed"}
    BY <1>4 DEF PollWrite, BatchInv, PollerOK
  <2>2. PICK c : c = poller[p].batch
    OBVIOUS
  <2>3. CASE Stored(c) /\ batch' = [batch EXCEPT ![c].status = poller[p].overall]
    BY <1>t, <2>1, <2>3 DEF Kept, Stored, BatchRecords
  <2> QED BY <1>1, <1>4, <2>2, <2>3 DEF PollWrite
<1>5. CASE BatchDeleteProfile
  <2>1. batch'[b] = IF Stored(b) THEN [batch[b] EXCEPT !.status = "deleted"] ELSE batch[b]
    BY <1>5 DEF BatchDeleteProfile
  <2>2. ~profile'
    BY <1>5 DEF BatchDeleteProfile, DeleteProfile
  <2> QED BY <1>t, <2>1, <2>2 DEF Kept, Stored, BatchRecords
<1> QED BY <1>1, <1>2, <1>3, <1>4, <1>5, BatchWriters

\* A batch that is being stored was not there before.
LEMMA StoredNew ==
  ASSUME BatchInv, NEW b \in Batches, StoreBatch(b)
  PROVE  batch[b].status = "unused"
BY DEF StoreBatch, Built, BatchInv, CreatorOK

-----------------------------------------------------------------------------
(* The types of the batches.                                               *)

LEMMA BatchTyped ==
  ASSUME BatchInv, [BatchNext]_allVars
  PROVE  batch' \in [Batches -> BatchRecords]
<1>t. /\ batch \in [Batches -> BatchRecords]
      /\ creator \in [Batches -> CreateCalls]
  BY BatchTypes DEF BatchInv
<1>1. ASSUME NEW b \in Batches, StoreBatch(b)
      PROVE batch' \in [Batches -> BatchRecords]
  <2>2. PICK atomic \in BOOLEAN, items \in Items :
          atomic = creator[b].atomic /\ items = creator[b].items
    BY <1>t DEF CreateCalls
  <2>3. ASSUME NEW status \in {"partial", "created"},
               batch' = [batch EXCEPT ![b] = [status |-> status, atomic |-> atomic, items |-> items]]
        PROVE batch' \in [Batches -> BatchRecords]
    BY <2>3, <1>t DEF BatchStatus, BatchRecords
  <2> QED BY <1>1, <2>2, <2>3 DEF StoreBatch
<1>2. ASSUME NEW b, NEW status \in BatchStatus,
             UNCHANGED batch \/ batch' = [batch EXCEPT ![b].status = status]
      PROVE batch' \in [Batches -> BatchRecords]
  BY <1>2, <1>t DEF BatchRecords
<1>3. ASSUME NEW x \in Handlers, ExecuteFinish(x)
      PROVE batch' \in [Batches -> BatchRecords]
  <2>1. ExecutionStatus(executor[x].submitted, executor[x].failed) \in BatchStatus
    BY DEF ExecutionStatus, BatchStatus
  <2> QED BY <1>2, <1>3, <2>1 DEF ExecuteFinish
<1>4. ASSUME NEW p \in Pollers, PollWrite(p)
      PROVE batch' \in [Batches -> BatchRecords]
  <2>1. poller[p].overall \in BatchStatus
    BY <1>4 DEF PollWrite, BatchInv, PollerOK, BatchStatus
  <2> QED BY <1>2, <1>4, <2>1 DEF PollWrite
<1>5. CASE BatchDeleteProfile
  BY <1>5, <1>t DEF BatchDeleteProfile, BatchStatus, BatchRecords
<1> QED BY <1>t, <1>1, <1>3, <1>4, <1>5, BatchWriters

LEMMA CreatorTyped ==
  ASSUME BatchInv, [BatchNext]_allVars
  PROVE  creator' \in [Batches -> CreateCalls]
<1>t. creator \in [Batches -> CreateCalls]
  BY BatchTypes DEF BatchInv
<1>1. ASSUME NEW b \in Batches, NEW a \in BOOLEAN, NEW r \in BOOLEAN, NEW n \in 1..MaxOperations,
             CreateBatch(b, a, r, n)
      PROVE creator' \in [Batches -> CreateCalls]
  <2>1. <<>> \in Items /\ n \in 0..MaxOperations
    BY DEF Items, MaxOperations
  <2>2. creator' = [creator EXCEPT ![b] =
          [pc |-> "building", atomic |-> a, retry |-> r, n |-> n, items |-> <<>>]]
    BY <1>1 DEF CreateBatch
  <2> QED BY <1>t, <2>1, <2>2 DEF CreateCalls
<1>2. ASSUME NEW b \in Batches, NEW status \in {"created", "failed"},
             NEW pc \in {"building", "cleanup"}, Building(b), AddItem(b, status, pc)
      PROVE creator' \in [Batches -> CreateCalls]
  <2>1. PICK items : items = Append(creator[b].items, [op |-> NextOp(b), status |-> status])
    OBVIOUS
  <2>2. CreatorOK(b) /\ creator[b].items \in Items /\ creator[b].n \in 0..MaxOperations
    BY <1>t DEF BatchInv, CreateCalls
  <2>3. items \in Items
    BY <1>2, <2>1, <2>2, ItemAdded
  <2>4. creator' = [creator EXCEPT ![b] = [creator[b] EXCEPT !.pc = pc, !.items = items]]
    BY <1>2, <2>1 DEF AddItem
  <2>5. [creator[b] EXCEPT !.pc = pc, !.items = items] \in CreateCalls
    BY <1>t, <2>3 DEF CreateCalls
  <2> QED BY <1>t, <2>4, <2>5
<1>3. ASSUME NEW b \in Batches, BuildItem(b) \/ BuildFails(b) PROVE creator' \in [Batches -> CreateCalls]
  <2>1. CASE BuildItem(b)
    BY <1>2, <2>1 DEF BuildItem
  <2>2. CASE BuildFails(b)
    <3>1. PICK pc \in {"building", "cleanup"} : AddItem(b, "failed", pc)
      BY <2>2 DEF BuildFails
    <3> QED BY <1>2, <2>2, <3>1 DEF BuildFails
  <2> QED BY <1>3, <2>1, <2>2
<1>4. ASSUME NEW b \in Batches, CleanUp(b) \/ CleanUpFails(b) \/ StoreBatch(b) \/ StoreFails(b)
      PROVE creator' \in [Batches -> CreateCalls]
  BY <1>4, <1>t DEF CleanUp, CleanUpFails, StoreBatch, StoreFails, CreateCalls
<1>5. CASE BatchRestart
  BY <1>5, <1>t DEF BatchRestart, CreateCalls
<1>6. CASE UNCHANGED creator
  BY <1>6, <1>t DEF CreateCalls
<1>7. ASSUME NEW b \in Batches, Starts(b) PROVE creator' \in [Batches -> CreateCalls]
  BY <1>1, <1>7 DEF Starts
<1> QED BY <1>t, <1>3, <1>4, <1>5, <1>6, <1>7, CreatorWriters DEF BatchInv

LEMMA ExecutorTyped ==
  ASSUME BatchInv, [BatchNext]_allVars
  PROVE  executor' \in [Handlers -> ExecuteCalls]
<1>t. executor \in [Handlers -> ExecuteCalls]
  BY BatchTypes DEF BatchInv
<1>i. IdleExecutor \in ExecuteCalls
  BY DEF IdleExecutor, ExecuteCalls
<1>1. ASSUME NEW x \in Handlers, NEW b \in Batches, NEW list \in SignedLists, ExecuteCheck(x, b, list)
      PROVE executor' \in [Handlers -> ExecuteCalls]
  <2>1. [IdleExecutor EXCEPT !.pc = "loop", !.batch = b, !.list = list] \in ExecuteCalls
    BY DEF IdleExecutor, ExecuteCalls
  <2> QED BY <1>1, <1>t, <2>1 DEF ExecuteCheck
<1>2. ASSUME NEW x \in Handlers, ExecuteUnknown(x) PROVE executor' \in [Handlers -> ExecuteCalls]
  BY <1>2, <1>t DEF ExecuteUnknown, ExecuteCalls
<1>3. ASSUME NEW x \in Handlers, ExecuteSubmit(x) PROVE executor' \in [Handlers -> ExecuteCalls]
  BY <1>3, <1>t DEF ExecuteSubmit, ExecuteCalls
<1>4. ASSUME NEW x \in Handlers, ExecuteResult(x) PROVE executor' \in [Handlers -> ExecuteCalls]
  <2>1. PICK q : q = executor'[x]
    OBVIOUS
  <2>2. executor' = [executor EXCEPT ![x] = q]
    BY <1>4, <1>t, <2>1 DEF ExecuteResult
  <2>3. q \in ExecuteCalls
    BY <1>4, <1>t, <2>1 DEF ExecuteResult, ExecuteCalls
  <2> QED BY <1>t, <2>2, <2>3
<1>5. ASSUME NEW x \in Handlers, ExecuteFinish(x) PROVE executor' \in [Handlers -> ExecuteCalls]
  BY <1>5, <1>t, <1>i DEF ExecuteFinish, ExecuteCalls
<1>6. CASE BatchRestart
  BY <1>6, <1>i DEF BatchRestart, ExecuteCalls
<1>7. CASE UNCHANGED executor
  BY <1>7, <1>t DEF ExecuteCalls
<1> QED BY <1>t, <1>1, <1>2, <1>3, <1>4, <1>5, <1>6, <1>7, ExecutorWriters

LEMMA PollerTyped ==
  ASSUME BatchInv, [BatchNext]_allVars
  PROVE  poller' \in [Pollers -> PollCalls]
<1>t. /\ poller \in [Pollers -> PollCalls]
      /\ batch \in [Batches -> BatchRecords]
  BY BatchTypes DEF BatchInv
<1>i. IdlePoller \in PollCalls
  BY DEF IdlePoller, BatchStatus, PollCalls
<1>1. ASSUME NEW p \in Pollers, NEW b \in Batches, PollBatch(p, b)
      PROVE poller' \in [Pollers -> PollCalls]
  <2>1. [pc |-> "operations", batch |-> b, seen |-> batch[b].status, overall |-> "unused"] \in PollCalls
    BY <1>t DEF BatchStatus, PollCalls, BatchRecords
  <2> QED BY <1>1, <1>t, <2>1 DEF PollBatch
<1>2. ASSUME NEW p \in Pollers, PollOperations(p)
      PROVE poller' \in [Pollers -> PollCalls]
  <2>1. PICK overall : overall = OverallStatus(batch[poller[p].batch].items, poller[p].seen)
    OBVIOUS
  <2>2. overall \in BatchStatus
    BY <1>t, <2>1 DEF OverallStatus, BatchStatus, PollCalls
  <2>3. poller' = [poller EXCEPT ![p] =
          IF overall = @.seen THEN IdlePoller ELSE [@ EXCEPT !.pc = "write", !.overall = overall]]
    BY <1>2, <2>1 DEF PollOperations
  <2> QED BY <1>t, <1>i, <2>2, <2>3 DEF PollCalls
<1>3. ASSUME NEW p \in Pollers, PollWrite(p)
      PROVE poller' \in [Pollers -> PollCalls]
  BY <1>3, <1>t, <1>i DEF PollWrite, PollCalls
<1>4. CASE BatchRestart
  BY <1>4, <1>i DEF BatchRestart, PollCalls
<1> QED BY <1>t, <1>1, <1>2, <1>3, <1>4, PollerWriters

-----------------------------------------------------------------------------
(* Creation.                                                               *)

\* Only building an item makes a row.
LEMMA RowWriters ==
  ASSUME BatchInv, [BatchNext]_allVars
  PROVE  NoRowComes \/ \E b \in Batches : BuildItem(b)
<1> SUFFICES ASSUME ~ \E b \in Batches : BuildItem(b) PROVE NoRowComes
  OBVIOUS
<1>t. /\ row \in [Ops -> Rows] /\ handler \in [Handlers -> HandlerStates]
      /\ orby \in [Execs -> [op : Ops \cup {None}, status : ExecStatus]]
      /\ callback \in [Callbacks -> CallbackStates] /\ crashes \in Nat
  BY OrbyConstants DEF BatchInv, OrbyInv, IInv, TypeOK
<1> DEFINE Differs == \/ UNCHANGED row
                      \/ profile' # profile \/ handler' # handler \/ orby' # orby
                      \/ callback' # callback \/ crashes' # crashes
<1>1. ASSUME NEW op \in Ops, CreateIntent(op), Differs PROVE FALSE
  BY <1>1, <1>t DEF CreateIntent, StoreCreated, Rows
<1>2. ASSUME NEW b \in Batches, CleanUp(b) PROVE NoRowComes
  <2> DEFINE S == ItemOps(creator[b].items)
  <2>1. /\ row' = [op \in Ops |->
             IF op \in S /\ Exists(op) THEN [status |-> "deleted", completedAt |-> FALSE, txs |-> 0]
             ELSE row[op]]
        /\ UNCHANGED <<profile, handler, orby, subs, callback, crashes>>
    BY <1>2 DEF CleanUp
  <2> HIDE DEF S
  <2> QED BY <2>1, RowsDeleted DEF BatchInv
<1>3. ASSUME NEW h \in Handlers, HandlerSteps(h) PROVE Differs
  <2>1. CASE SubmitRefused(h) \/ SubmitRecord(h) \/ SubmitMonitor(h)
    BY <2>1, <1>t DEF SubmitRefused, SubmitRecord, SubmitMonitor, HandlerStates
  <2>2. CASE (\E e \in Execs : SubmitAnswerLost(h, e))
             \/ \E e \in Execs, answer \in Answers : SubmitSent(h, e, answer)
    BY <2>2 DEF SubmitAnswerLost, SubmitSent
  <2> QED BY <1>3, <2>1, <2>2 DEF HandlerSteps
<1>4. ASSUME NEW c \in Callbacks, CallbackSteps(c) PROVE Differs
  <2>1. callback[c].pc # "idle" /\ callback'[c].pc # callback[c].pc
    <3>1. CASE CallbackWrite(c)
      <4>1. callback[c].pc = "read"
        BY <3>1 DEF CallbackWrite
      <4>2. \/ callback' = [callback EXCEPT ![c].pc = "written"]
            \/ callback' = [callback EXCEPT ![c] = IdleCallback]
        BY <3>1 DEF CallbackWrite
      <4> QED BY <4>1, <4>2, <1>t DEF IdleCallback, CallbackStates
    <3>2. CASE CallbackTransactions(c)
      BY <3>2, <1>t DEF CallbackTransactions, IdleCallback
    <3> QED BY <1>4, <3>1, <3>2 DEF CallbackSteps
  <2> QED BY <2>1
<1>5. ASSUME OrbySteps PROVE Differs
  BY <1>4, <1>5 DEF OrbySteps, OrbyFinishes, CallbackRead
<1>6. ASSUME BatchDeleteProfile \/ BatchRestart PROVE Differs
  BY <1>6, <1>t DEF BatchDeleteProfile, DeleteProfile, BatchRestart, LoseMemory
<1>7. ASSUME UNCHANGED vars PROVE Differs
  BY <1>7 DEF vars
<1>8. ASSUME NEW b \in Batches,
             \/ \E atomic \in BOOLEAN, n \in 1..MaxOperations : CreateBatch(b, atomic, FALSE, n)
             \/ \E old \in Batches : RetryBatch(old, b)
             \/ BuildFails(b) \/ CleanUpFails(b) \/ StoreBatch(b) \/ StoreFails(b)
      PROVE Differs
  BY <1>7, <1>8 DEF CreateBatch, RetryBatch, BuildFails, CleanUpFails, StoreBatch, StoreFails
<1>9. ASSUME NEW x \in Handlers,
             \/ \E b \in Batches, list \in SignedLists : ExecuteCheck(x, b, list)
             \/ ExecuteUnknown(x) \/ ExecuteSubmit(x) \/ ExecuteResult(x) \/ ExecuteFinish(x)
             \/ \E op \in Ops : DirectSubmit(x, op)
             \/ DirectReply(x)
      PROVE UNCHANGED row
  BY <1>9 DEF ExecuteCheck, ExecuteUnknown, ExecuteSubmit, ExecuteResult, ExecuteFinish,
     DirectSubmit, DirectReply, SubmitCheck, SubmitReply, vars
<1>10. ASSUME NEW p \in Pollers,
              (\E b \in Batches : PollBatch(p, b)) \/ PollOperations(p) \/ PollWrite(p)
       PROVE UNCHANGED row
  BY <1>10 DEF PollBatch, PollOperations, PollWrite, vars
<1>11. ASSUME UNCHANGED allVars PROVE Differs
  BY <1>7, <1>11 DEF allVars
<1> HIDE DEF Differs
<1>12. UNCHANGED row => Differs
  BY DEF Differs
<1>13. ASSUME Differs, [Next]_vars PROVE NoRowComes
  BY <1>1, <1>13, OrbyRows DEF BatchInv, OrbyInv
<1>14. Differs \/ \E b \in Batches : CleanUp(b)
  BY <1>3, <1>5, <1>6, <1>8, <1>9, <1>10, <1>11, <1>12 DEF BatchNext
<1> QED BY <1>2, <1>13, <1>14, OrbyPart

\* The rows of another batch's items do not come back.
LEMMA GoneStaysGone ==
  ASSUME BatchInv, [BatchNext]_allVars, NEW b \in Batches, ~BuildItem(b)
  PROVE  \A op \in ItemOps(creator[b].items) : ~Exists(op) => ~Exists(op)'
<1>t. creator \in [Batches -> CreateCalls] /\ row \in [Ops -> Rows]
  BY BatchTypes DEF BatchInv, TypeOK
<1>1. \A op \in ItemOps(creator[b].items) :
        op \in Ops /\ \E i \in DOMAIN BatchOps[b] : i <= Len(creator[b].items) /\ op = BatchOps[b][i]
  <2>1. creator[b].items \in Items /\ CreatorOK(b)
    BY <1>t DEF BatchInv, CreateCalls
  <2>2. PICK items \in Items : items = creator[b].items
    BY <2>1
  <2>3. Len(items) <= Len(BatchOps[b]) /\ InOrder(b, items)
    BY <2>1, <2>2 DEF CreatorOK
  <2> QED BY <2>2, <2>3, ItemsTyped, ItemsOfBatch
<1>2. CASE NoRowComes
  BY <1>1, <1>2 DEF NoRowComes
<1>3. ASSUME NEW c \in Batches, BuildItem(c)
      PROVE \A op \in ItemOps(creator[b].items) : ~Exists(op) => ~Exists(op)'
  <2>1. CreatorOK(c) /\ Building(c) /\ creator[c].items \in Items /\ creator[c].n \in 0..MaxOperations
    BY <1>3, <1>t DEF BatchInv, BuildItem, CreateCalls
  <2>2. NextOp(c) \in Ops /\ Len(creator[c].items) + 1 \in DOMAIN BatchOps[c]
    BY <2>1, ItemAdded
  <2>3. row' = [row EXCEPT ![NextOp(c)].status = "created"]
    BY <1>3 DEF BuildItem, StoreCreated
  <2>4. \A op \in ItemOps(creator[b].items) : op # NextOp(c)
    BY <1>1, <1>3, <2>2, BatchOpsApart DEF NextOp
  <2>5. \A op \in ItemOps(creator[b].items) : row'[op] = row[op]
    BY <1>t, <1>1, <2>3, <2>4
  <2> QED BY <2>5 DEF Exists
<1> QED BY <1>2, <1>3, RowWriters

\* What the two ways of adding an item do to the call.
LEMMA ItemStep ==
  ASSUME BatchInv, NEW b \in Batches, Building(b),
         NEW status \in {"created", "failed"}, NEW pc, AddItem(b, status, pc)
  PROVE  /\ creator' = [creator EXCEPT ![b] = creator'[b]]
         /\ creator'[b].pc = pc /\ creator'[b].n = creator[b].n
         /\ creator'[b].atomic = creator[b].atomic
         /\ creator'[b].items \in Items
         /\ Len(creator'[b].items) = Len(creator[b].items) + 1
         /\ Len(creator'[b].items) <= creator[b].n /\ creator[b].n <= Len(BatchOps[b])
         /\ InOrder(b, creator'[b].items)
         /\ status = "created" /\ FailedItems(creator[b].items) = {} =>
              FailedItems(creator'[b].items) = {}
         /\ NextOp(b) \in Ops /\ Len(creator[b].items) + 1 \in DOMAIN BatchOps[b]
<1>t. creator \in [Batches -> CreateCalls]
  BY BatchTypes DEF BatchInv
<1>1. CreatorOK(b) /\ creator[b].items \in Items /\ creator[b].n \in 0..MaxOperations
  BY <1>t DEF BatchInv, CreateCalls
<1>2. PICK items : items = Append(creator[b].items, [op |-> NextOp(b), status |-> status])
  OBVIOUS
<1>3. /\ creator' = [creator EXCEPT ![b] = creator'[b]]
      /\ creator'[b] = [creator[b] EXCEPT !.pc = pc, !.items = items]
  BY <1>t, <1>2 DEF AddItem
<1>4. /\ creator'[b].items = items /\ creator'[b].pc = pc
      /\ creator'[b].n = creator[b].n /\ creator'[b].atomic = creator[b].atomic
  BY <1>t, <1>3 DEF CreateCalls
<1>5. /\ NextOp(b) \in Ops
      /\ Len(creator[b].items) + 1 \in DOMAIN BatchOps[b]
      /\ items \in Items /\ Len(items) = Len(creator[b].items) + 1
      /\ Len(items) <= creator[b].n /\ creator[b].n <= Len(BatchOps[b])
      /\ InOrder(b, items)
      /\ status = "created" /\ FailedItems(creator[b].items) = {} => FailedItems(items) = {}
  <2>1. NextOp(b) \in Ops /\ Len(creator[b].items) + 1 \in DOMAIN BatchOps[b]
    BY <1>1, <1>2, ItemAdded
  <2>2. items \in Items /\ Len(items) = Len(creator[b].items) + 1
    BY <1>1, <1>2, ItemAdded
  <2>3. Len(items) <= creator[b].n /\ creator[b].n <= Len(BatchOps[b])
    BY <1>1, <1>2, ItemAdded
  <2>4. InOrder(b, items)
    BY <1>1, <1>2, ItemAdded
  <2>5. status = "created" /\ FailedItems(creator[b].items) = {} => FailedItems(items) = {}
    BY <1>1, <1>2, ItemAdded
  <2> QED BY <2>1, <2>2, <2>3, <2>4, <2>5
<1> QED BY <1>3, <1>4, <1>5

\* The condition on a call holds on when only the rows and the record move.
LEMMA CreatorKept ==
  ASSUME NEW b, creator'[b] = creator[b], CreatorOK(b), Kept(b),
         \A op \in ItemOps(creator[b].items) : ~Exists(op) => ~Exists(op)'
  PROVE  CreatorOK(b)'
BY DEF CreatorOK, Kept

LEMMA CreatorStep ==
  ASSUME BatchInv, [BatchNext]_allVars, NEW b \in Batches
  PROVE  CreatorOK(b)' /\ Len(creator'[b].items) >= Len(creator[b].items)
<1> DEFINE Goal == CreatorOK(b)' /\ Len(creator'[b].items) >= Len(creator[b].items)
<1>t. creator \in [Batches -> CreateCalls] /\ batch \in [Batches -> BatchRecords]
  BY BatchTypes DEF BatchInv
<1>i. /\ CreatorOK(b) /\ creator[b].items \in Items /\ Len(creator[b].items) \in Nat
      /\ BatchOps[b] \in Seq(Ops) /\ Len(BatchOps[b]) \in Nat /\ creator[b].n \in Nat
  <2>1. CreatorOK(b)
    BY DEF BatchInv
  <2>2. creator[b].items \in Items /\ creator[b].n \in Nat
    BY <1>t DEF CreateCalls
  <2>3. Len(creator[b].items) \in Nat
    BY <2>2 DEF Items
  <2>4. BatchOps[b] \in Seq(Ops) /\ Len(BatchOps[b]) \in Nat
    BY BatchConstants
  <2> QED BY <2>1, <2>2, <2>3, <2>4
<1>1. ASSUME creator'[b] = creator[b], ~StoreBatch(b), ~BuildItem(b) PROVE Goal
  BY <1>1, <1>i, RecordsKept, GoneStaysGone, CreatorKept
<1>2. ASSUME NEW a \in BOOLEAN, NEW r \in BOOLEAN, NEW n \in 1..MaxOperations, CreateBatch(b, a, r, n)
      PROVE Goal
  <2>1. creator'[b] = [pc |-> "building", atomic |-> a, retry |-> r, n |-> n, items |-> <<>>]
    BY <1>2, <1>t DEF CreateBatch
  <2>2. creator[b].pc = "idle" /\ creator[b].items = <<>> /\ batch[b].status = "unused"
    BY <1>2, <1>i DEF CreateBatch, CreatorOK
  <2>3. UNCHANGED batch /\ n <= Len(BatchOps[b]) /\ FailedItems(<<>>) = {}
    BY <1>2 DEF CreateBatch, FailedItems
  <2> QED BY <1>i, <2>1, <2>2, <2>3 DEF CreatorOK
<1>3. ASSUME BuildItem(b) PROVE Goal
  <2>1. Building(b) /\ AddItem(b, "created", "building") /\ UNCHANGED batch
    BY <1>3 DEF BuildItem
  <2>2. batch[b].status = "unused" /\ (creator[b].atomic => FailedItems(creator[b].items) = {})
    BY <1>i, <2>1 DEF Building, CreatorOK
  <2>3. PICK k : k = creator'[b]
    OBVIOUS
  <2>4. /\ k.pc = "building" /\ k.n = creator[b].n /\ k.atomic = creator[b].atomic
        /\ Len(k.items) = Len(creator[b].items) + 1
        /\ Len(k.items) <= k.n /\ k.n <= Len(BatchOps[b])
        /\ InOrder(b, k.items)
        /\ FailedItems(creator[b].items) = {} => FailedItems(k.items) = {}
    BY <2>1, <2>3, ItemStep
  <2> QED BY <1>i, <2>1, <2>2, <2>3, <2>4 DEF CreatorOK, InOrder
<1>4. ASSUME BuildFails(b) PROVE Goal
  <2>1. PICK pc : /\ pc = IF creator[b].atomic THEN "cleanup" ELSE "building"
                  /\ Building(b) /\ AddItem(b, "failed", pc) /\ UNCHANGED batch
    BY <1>4 DEF BuildFails
  <2>2. batch[b].status = "unused"
    BY <1>i, <2>1 DEF Building, CreatorOK
  <2>3. PICK k : k = creator'[b]
    OBVIOUS
  <2>4. /\ k.pc = pc /\ k.n = creator[b].n /\ k.atomic = creator[b].atomic
        /\ Len(k.items) = Len(creator[b].items) + 1
        /\ Len(k.items) <= k.n /\ k.n <= Len(BatchOps[b])
        /\ InOrder(b, k.items)
    BY <2>1, <2>3, ItemStep
  <2>5. InOrder(b, creator[b].items)'
    BY <2>3, <2>4 DEF InOrder
  <2>6. /\ k.pc \notin {"idle", "done", "refused"} /\ batch'[b].status = "unused"
        /\ k.pc = "building" => ~k.atomic
    BY <2>1, <2>2, <2>4
  <2>7. creator[b].n \in Nat /\ Len(creator[b].items) \in Nat /\ Len(BatchOps[b]) \in Nat
    BY <1>i
  <2>8. Len(k.items) <= Len(BatchOps[b]) /\ Len(k.items) >= Len(creator[b].items)
    <3>1. /\ Len(k.items) = Len(creator[b].items) + 1 /\ Len(k.items) <= creator[b].n
          /\ creator[b].n <= Len(BatchOps[b])
      BY <2>4
    <3> QED BY <2>7, <3>1
  <2>9. CreatorOK(b)'
    BY <2>3, <2>4, <2>5, <2>6, <2>8 DEF CreatorOK
  <2> QED BY <2>3, <2>8, <2>9
<1>5. ASSUME CleanUp(b) PROVE Goal
  <2>1. /\ creator[b].pc = "cleanup" /\ UNCHANGED batch
        /\ creator'[b] = [creator[b] EXCEPT !.pc = "refused"]
    BY <1>5, <1>t DEF CleanUp
  <2>2. \A op \in ItemOps(creator[b].items) : ~Exists(op)'
    <3> DEFINE S == ItemOps(creator[b].items)
    <3>1. /\ row' = [op \in Ops |->
               IF op \in S /\ Exists(op) THEN [status |-> "deleted", completedAt |-> FALSE, txs |-> 0]
               ELSE row[op]]
          /\ UNCHANGED <<profile, handler, orby, subs, callback, crashes>>
      BY <1>5 DEF CleanUp
    <3>2. S \subseteq Ops
      BY <1>i, ItemsTyped
    <3> HIDE DEF S
    <3>3. \A op \in S \cap Ops : ~Exists(op)'
      BY <3>1, RowsDeleted DEF BatchInv
    <3> QED BY <3>2, <3>3 DEF S
  <2>3. creator'[b].pc = "refused" /\ creator'[b].items = creator[b].items
    BY <1>t, <2>1 DEF CreateCalls
  <2> QED BY <1>i, <2>1, <2>2, <2>3 DEF CreatorOK
<1>6. ASSUME StoreBatch(b) PROVE Goal
  <2>1. creator[b].pc = "building"
    BY <1>6 DEF StoreBatch, Built
  <2>2. PICK status \in {"partial", "created"} :
          batch' = [batch EXCEPT ![b] =
            [status |-> status, atomic |-> creator[b].atomic, items |-> creator[b].items]]
    BY <1>6 DEF StoreBatch
  <2>3. /\ batch'[b].status = status /\ batch'[b].items = creator[b].items
        /\ batch'[b].atomic = creator[b].atomic
    BY <1>t, <2>2
  <2>4. creator'[b] = [creator[b] EXCEPT !.pc = "done"]
    BY <1>6, <1>t DEF StoreBatch
  <2>5. /\ creator'[b].pc = "done" /\ creator'[b].items = creator[b].items
        /\ creator'[b].atomic = creator[b].atomic
    BY <1>t, <2>4 DEF CreateCalls
  <2> QED BY <1>i, <2>1, <2>3, <2>5 DEF CreatorOK
<1>f. ASSUME CleanUpFails(b) \/ StoreFails(b) PROVE Goal
  <2>1. /\ creator[b].pc \in {"cleanup", "building"} /\ UNCHANGED batch
        /\ creator' = [creator EXCEPT ![b].pc = "error"]
    BY <1>f DEF CleanUpFails, StoreFails, Built
  <2>2. creator'[b].pc = "error" /\ creator'[b].items = creator[b].items
    BY <1>t, <2>1 DEF CreateCalls
  <2> QED BY <1>i, <2>1, <2>2 DEF CreatorOK
<1>7. ASSUME BatchRestart PROVE Goal
  <2>1. UNCHANGED <<batch, row>>
    BY <1>7 DEF BatchRestart
  <2>2. creator'[b] = IF creator[b].pc \in {"building", "cleanup"}
                      THEN [creator[b] EXCEPT !.pc = "lost"] ELSE creator[b]
    BY <1>7 DEF BatchRestart
  <2>3. CASE creator[b].pc \in {"building", "cleanup"}
    <3>1. creator'[b].pc = "lost" /\ creator'[b].items = creator[b].items
      BY <1>t, <2>2, <2>3 DEF CreateCalls
    <3> QED BY <1>i, <2>1, <2>3, <3>1 DEF CreatorOK
  <2>4. CASE creator'[b] = creator[b]
    BY <1>i, <2>1, <2>4 DEF CreatorOK, Exists
  <2> QED BY <2>2, <2>3, <2>4
<1> HIDE DEF Goal
<1>8. ASSUME Starts(b) PROVE Goal
  BY <1>2, <1>8 DEF Starts
<1>9. ASSUME creator'[b] = creator[b] PROVE Goal
  BY <1>1, <1>3, <1>6, <1>9
<1>10. ASSUME NEW c \in Batches \ {b},
              \/ Starts(c) \/ BuildItem(c) \/ BuildFails(c) \/ CleanUp(c) \/ CleanUpFails(c)
              \/ StoreBatch(c) \/ StoreFails(c)
       PROVE Goal
  <2>1. creator'[b] = creator[b]
    BY <1>10, <1>t DEF Starts, CreateBatch, BuildItem, BuildFails, AddItem, CleanUp, CleanUpFails,
       StoreBatch, StoreFails
  <2> QED BY <2>1, <1>9
<1>11. Goal
  BY <1>3, <1>4, <1>5, <1>6, <1>f, <1>7, <1>8, <1>9, <1>10, CreatorWriters DEF BatchInv
<1> QED BY <1>11 DEF Goal

LEMMA NotBuiltStep ==
  ASSUME BatchInv, [BatchNext]_allVars
  PROVE  NotBuilt'
<1> SUFFICES ASSUME NEW b \in Batches, NEW i \in DOMAIN BatchOps[b], i > Len(creator'[b].items)
             PROVE  row'[BatchOps[b][i]].status = "unused"
  BY DEF NotBuilt
<1>t. creator \in [Batches -> CreateCalls] /\ row \in [Ops -> Rows]
  BY BatchTypes DEF BatchInv, TypeOK
<1>c. creator' \in [Batches -> CreateCalls]
  BY CreatorTyped
<1>l. Len(creator[b].items) \in Nat /\ Len(creator'[b].items) \in Nat /\ i \in Nat
  BY <1>t, <1>c, BatchConstants DEF CreateCalls, Items
<1>1. i > Len(creator[b].items)
  BY <1>l, CreatorStep
<1>2. row[BatchOps[b][i]].status = "unused" /\ BatchOps[b][i] \in Ops
  BY <1>1, BatchOpsTyped DEF BatchInv, NotBuilt
<1>3. CASE NoRowComes
  BY <1>2, <1>3 DEF NoRowComes
<1>4. ASSUME NEW c \in Batches, BuildItem(c) PROVE row'[BatchOps[b][i]].status = "unused"
  <2>1. Building(c) /\ AddItem(c, "created", "building")
    BY <1>4 DEF BuildItem
  <2>2. /\ NextOp(c) \in Ops /\ Len(creator[c].items) + 1 \in DOMAIN BatchOps[c]
        /\ Len(creator'[c].items) = Len(creator[c].items) + 1
    BY <2>1, ItemStep
  <2>3. BatchOps[b][i] # NextOp(c)
    BY <1>l, <2>2, BatchOpsApart DEF NextOp
  <2>4. row' = [row EXCEPT ![NextOp(c)].status = "created"]
    BY <1>4 DEF BuildItem, StoreCreated
  <2> QED BY <1>t, <1>2, <2>3, <2>4
<1> QED BY <1>3, <1>4, RowWriters

LEMMA RecordsStayStep ==
  ASSUME BatchInv, [BatchNext]_allVars
  PROVE  RecordsStay'
<1> SUFFICES ASSUME NEW b \in Batches, batch'[b].status = "deleted" PROVE ~profile'
  BY DEF RecordsStay
<1>t. batch \in [Batches -> BatchRecords]
  BY BatchTypes DEF BatchInv
<1>1. CASE StoreBatch(b)
  BY <1>1, <1>t, ProfileGoes DEF StoreBatch, BatchInv, RecordsStay
<1>2. CASE ~StoreBatch(b)
  BY <1>2, RecordsKept, ProfileGoes DEF Kept, BatchInv, RecordsStay
<1> QED BY <1>1, <1>2

-----------------------------------------------------------------------------
(* Execution.                                                              *)

\* What was signed and is past is an operation.
LEMMA SignedTyped ==
  ASSUME BatchInv, NEW x \in Handlers, executor[x].pc # "idle"
  PROVE  /\ executor[x].next \in Nat /\ Len(executor[x].list) \in Nat
         /\ 1 <= executor[x].next /\ executor[x].next <= Len(executor[x].list) + 1
         /\ \A i \in 1..Len(executor[x].list) : executor[x].list[i] \in Ops
<1>1. executor[x].list \in SignedLists /\ executor[x].next \in 1..(Len(executor[x].list) + 1)
  BY DEF BatchInv, ExecutorOK
<1>2. PICK list \in Seq(Ops) : list = executor[x].list
  BY <1>1, BatchConstants
<1>3. Len(list) \in Nat /\ \A i \in 1..Len(list) : list[i] \in Ops
  BY <1>2
<1> QED BY <1>1, <1>2, <1>3

\* The request of a submission under way keeps its operation.
LEMMA HandlerKept ==
  ASSUME BatchInv, [BatchNext]_allVars, NEW x \in Handlers,
         executor[x].pc = "submitting", executor'[x] = executor[x]
  PROVE  handler'[x].op = handler[x].op
<1>t. handler \in [Handlers -> HandlerStates] /\ executor \in [Handlers -> ExecuteCalls]
  BY BatchTypes DEF BatchInv, TypeOK
<1>1. ASSUME NEW y \in Handlers, HandlerSteps(y) PROVE handler'[x].op = handler[x].op
  BY <1>1, <1>t, RequestsKeep DEF BatchInv, OrbyInv
<1>2. ASSUME NEW y \in Handlers, NEW op, SubmitCheck(y, op), y # x PROVE handler'[x].op = handler[x].op
  BY <1>2, <1>t DEF SubmitCheck
<1>3. ASSUME NEW y \in Handlers, SubmitReply(y), y # x PROVE handler'[x].op = handler[x].op
  BY <1>3, <1>t DEF SubmitReply
<1>4. ASSUME NEW y \in Handlers, ExecuteSubmit(y) PROVE handler'[x].op = handler[x].op
  <2>1. y # x
    BY <1>4 DEF ExecuteSubmit, More
  <2> QED BY <1>2, <1>4, <2>1 DEF ExecuteSubmit
<1>5. ASSUME NEW y \in Handlers, ExecuteResult(y) PROVE handler'[x].op = handler[x].op
  <2>1. CASE y = x
    <3>1. executor'[x].next = executor[x].next + 1 /\ executor[x].next \in Nat
      BY <1>5, <1>t, <2>1 DEF ExecuteResult, ExecuteCalls
    <3> QED BY <3>1
  <2>2. CASE y # x
    BY <1>3, <1>5, <2>2 DEF ExecuteResult
  <2> QED BY <2>1, <2>2
<1>6. ASSUME NEW y \in Handlers, NEW op \in Ops, DirectSubmit(y, op) PROVE handler'[x].op = handler[x].op
  BY <1>2, <1>6 DEF DirectSubmit
<1>7. ASSUME NEW y \in Handlers, DirectReply(y) PROVE handler'[x].op = handler[x].op
  BY <1>3, <1>7 DEF DirectReply
<1>8. ~BatchRestart
  BY DEF BatchRestart, IdleExecutor
<1>9. ASSUME OrbySteps \/ BatchDeleteProfile PROVE UNCHANGED handler
  BY <1>9 DEF OrbySteps, OrbyFinishes, CallbackRead, CallbackSteps, CallbackWrite,
     CallbackTransactions, BatchDeleteProfile, DeleteProfile
<1>10. ASSUME NEW b \in Batches,
             \/ \E atomic \in BOOLEAN, n \in 1..MaxOperations : CreateBatch(b, atomic, FALSE, n)
             \/ \E old \in Batches : RetryBatch(old, b)
             \/ BuildItem(b) \/ BuildFails(b) \/ CleanUp(b) \/ CleanUpFails(b)
             \/ StoreBatch(b) \/ StoreFails(b)
      PROVE UNCHANGED handler
  BY <1>10 DEF CreateBatch, RetryBatch, BuildItem, BuildFails, CleanUp, CleanUpFails,
     StoreBatch, StoreFails, vars
<1>11. ASSUME NEW y \in Handlers,
             \/ \E b \in Batches, list \in SignedLists : ExecuteCheck(y, b, list)
             \/ ExecuteUnknown(y) \/ ExecuteFinish(y)
      PROVE UNCHANGED handler
  BY <1>11 DEF ExecuteCheck, ExecuteUnknown, ExecuteFinish, vars
<1>12. ASSUME NEW p \in Pollers,
              (\E b \in Batches : PollBatch(p, b)) \/ PollOperations(p) \/ PollWrite(p)
       PROVE UNCHANGED handler
  BY <1>12 DEF PollBatch, PollOperations, PollWrite, vars
<1>13. CASE UNCHANGED allVars
  BY <1>13 DEF allVars, vars
<1> QED BY <1>1, <1>4, <1>5, <1>6, <1>7, <1>8, <1>9, <1>10, <1>11, <1>12, <1>13 DEF BatchNext

LEMMA ExecutorKept ==
  ASSUME BatchInv, [BatchNext]_allVars, NEW x \in Handlers, executor'[x] = executor[x],
         executor[x].pc = "submitting" => handler'[x].op = handler[x].op
  PROVE  ExecutorOK(x)'
<1>1. CASE executor[x].pc = "idle"
  BY <1>1 DEF ExecutorOK
<1>2. CASE executor[x].pc # "idle"
  <2>1. PICK q : q = executor[x]
    OBVIOUS
  <2>2. q.batch \in Batches /\ batch[q.batch].status # "unused" /\ ExecutorOK(x)
    BY <1>2, <2>1 DEF BatchInv, ExecutorOK
  <2>3. Kept(q.batch)
    BY <2>2, RecordsKept, StoredNew
  <2>4. \A i \in 1..(q.next - 1) : Sent(q.list[i]) => Sent(q.list[i])'
    BY <1>2, <2>1, SignedTyped, OrbyInvKept DEF SentStays
  <2>5. PICK named : /\ named = NamedOps(batch[q.batch].items)
                     /\ named = NamedOps(batch'[q.batch].items)
    BY <2>3 DEF Kept
  <2>6. /\ batch'[q.batch].status # "unused" /\ batch'[q.batch].atomic = batch[q.batch].atomic
        /\ q.list \in SignedLists /\ q.next \in 1..(Len(q.list) + 1)
        /\ q.pc = "submitting" =>
             q.next <= Len(q.list) /\ q.list[q.next] \in named /\ handler'[x].op = q.list[q.next]
    BY <1>2, <2>1, <2>2, <2>3, <2>5 DEF ExecutorOK, Kept
  <2>7. q.failed = 0 =>
          q.pc # "stopped" /\ \A i \in 1..(q.next - 1) : q.list[i] \in named /\ Sent(q.list[i])'
    BY <1>2, <2>1, <2>2, <2>4, <2>5 DEF ExecutorOK
  <2>8. batch[q.batch].atomic /\ q.pc # "stopped" =>
          \A i \in 1..(q.next - 1) : q.list[i] \in named => i \in q.accepted /\ Sent(q.list[i])'
    BY <1>2, <2>1, <2>2, <2>4, <2>5 DEF ExecutorOK
  <2>9. executor'[x] = q
    BY <2>1
  <2> QED BY <2>2, <2>5, <2>6, <2>7, <2>8, <2>9, SMTT(30) DEF ExecutorOK, Sent
<1> QED BY <1>1, <1>2

LEMMA ExecutorStep ==
  ASSUME BatchInv, [BatchNext]_allVars, NEW x \in Handlers
  PROVE  ExecutorOK(x)'
<1>t. /\ executor \in [Handlers -> ExecuteCalls] /\ batch \in [Batches -> BatchRecords]
      /\ handler \in [Handlers -> HandlerStates]
  BY BatchTypes DEF BatchInv, TypeOK
<1>i. ExecutorOK(x)
  BY DEF BatchInv
<1>1. CASE executor'[x].pc = "idle"
  BY <1>1 DEF ExecutorOK
<1>2. ASSUME NEW b \in Batches, NEW list \in SignedLists, ExecuteCheck(x, b, list) PROVE ExecutorOK(x)'
  <2>1. PICK q : q = executor'[x]
    OBVIOUS
  <2>2. /\ q.pc = "loop" /\ q.batch = b /\ q.list = list /\ q.next = 1
        /\ batch'[b].status # "unused"
    BY <1>2, <1>t, <2>1 DEF ExecuteCheck, IdleExecutor
  <2>3. Len(list) \in Nat
    BY BatchConstants
  <2> QED BY <2>1, <2>2, <2>3 DEF ExecutorOK
<1>3. ASSUME ExecuteUnknown(x) PROVE ExecutorOK(x)'
  <2>1. PICK q : q = executor'[x]
    OBVIOUS
  <2>2. /\ q.pc = "loop" /\ q.batch = executor[x].batch /\ q.list = executor[x].list
        /\ q.next = executor[x].next + 1 /\ q.failed = executor[x].failed + 1
        /\ q.accepted = executor[x].accepted
        /\ executor[x].pc = "loop" /\ executor[x].next <= Len(executor[x].list)
        /\ executor[x].list[executor[x].next] \notin NamedOps(batch[executor[x].batch].items)
        /\ UNCHANGED <<batch, orby>>
    BY <1>3, <1>t, <2>1 DEF ExecuteUnknown, More, Signed, ExecuteCalls, vars
  <2>3. q.failed # 0
    BY <1>t, <2>2 DEF ExecuteCalls
  <2>4. /\ q.next \in 1..(Len(q.list) + 1)
        /\ \A i \in 1..(q.next - 1) : i \in 1..(executor[x].next - 1) \/ i = executor[x].next
    BY <2>2, SignedTyped
  <2> QED BY <1>i, <2>1, <2>2, <2>3, <2>4 DEF ExecutorOK, Sent
<1>4. ASSUME ExecuteSubmit(x) PROVE ExecutorOK(x)'
  <2>1. PICK q : q = executor'[x]
    OBVIOUS
  <2>2. /\ q.pc = "submitting" /\ q.batch = executor[x].batch /\ q.list = executor[x].list
        /\ q.next = executor[x].next /\ q.failed = executor[x].failed
        /\ q.accepted = executor[x].accepted
        /\ executor[x].pc = "loop" /\ executor[x].next <= Len(executor[x].list)
        /\ executor[x].list[executor[x].next] \in NamedOps(batch[executor[x].batch].items)
    BY <1>4, <1>t, <2>1 DEF ExecuteSubmit, More, Signed, ExecuteCalls
  <2>3. handler'[x].op = executor[x].list[executor[x].next] /\ UNCHANGED <<batch, orby>>
    BY <1>4, <1>t DEF ExecuteSubmit, SubmitCheck, Signed, IdleHandler
  <2> QED BY <1>i, <2>1, <2>2, <2>3 DEF ExecutorOK, Sent
<1>5. ASSUME ExecuteResult(x) PROVE ExecutorOK(x)'
  <2>1. PICK q : q = executor'[x]
    OBVIOUS
  <2>2. PICK ok \in BOOLEAN : ok = (handler[x].pc = "ok")
    OBVIOUS
  <2>3. /\ q.batch = executor[x].batch /\ q.list = executor[x].list
        /\ q.next = executor[x].next + 1
        /\ q.pc = IF ~ok /\ batch[executor[x].batch].atomic THEN "stopped" ELSE "loop"
        /\ q.failed = IF ok THEN executor[x].failed ELSE executor[x].failed + 1
        /\ q.accepted = IF ok THEN executor[x].accepted \cup {executor[x].next}
                        ELSE executor[x].accepted
        /\ executor[x].pc = "submitting" /\ UNCHANGED <<batch, orby>>
    BY <1>5, <1>t, <2>1, <2>2 DEF ExecuteResult, SubmitReply, ExecuteCalls
  <2>4. /\ executor[x].next <= Len(executor[x].list)
        /\ executor[x].list[executor[x].next] \in NamedOps(batch[executor[x].batch].items)
        /\ ok => Sent(executor[x].list[executor[x].next])
    BY <1>i, <2>2, <2>3 DEF ExecutorOK, BatchInv, OrbyInv, OkIsSent
  <2>5. ~ok => q.failed # 0
    BY <1>t, <2>3 DEF ExecuteCalls
  <2>6. /\ q.next \in 1..(Len(q.list) + 1)
        /\ \A i \in 1..(q.next - 1) : i \in 1..(executor[x].next - 1) \/ i = executor[x].next
    BY <2>3, <2>4, SignedTyped
  <2>7. PICK named : named = NamedOps(batch[q.batch].items)
    OBVIOUS
  <2>8. q.failed = 0 =>
          q.pc # "stopped" /\ \A i \in 1..(q.next - 1) : q.list[i] \in named /\ Sent(q.list[i])
    BY <1>i, <2>3, <2>4, <2>5, <2>6, <2>7 DEF ExecutorOK
  <2>9. batch[q.batch].atomic /\ q.pc # "stopped" =>
          \A i \in 1..(q.next - 1) : q.list[i] \in named => i \in q.accepted /\ Sent(q.list[i])
    BY <1>i, <2>3, <2>4, <2>6, <2>7 DEF ExecutorOK
  <2> QED BY <1>i, <2>1, <2>3, <2>6, <2>7, <2>8, <2>9 DEF ExecutorOK, Sent
<1>6. CASE ExecuteFinish(x) \/ BatchRestart
  BY <1>1, <1>6, <1>t DEF ExecuteFinish, BatchRestart, IdleExecutor
<1>7. CASE executor'[x] = executor[x]
  <2>1. executor[x].pc = "submitting" => handler'[x].op = handler[x].op
    BY <1>7, HandlerKept
  <2> QED BY <1>7, <2>1, ExecutorKept
<1>8. ASSUME NEW y \in Handlers \ {x},
             \/ \E b \in Batches, list \in SignedLists : ExecuteCheck(y, b, list)
             \/ ExecuteUnknown(y) \/ ExecuteSubmit(y) \/ ExecuteResult(y) \/ ExecuteFinish(y)
      PROVE executor'[x] = executor[x]
  BY <1>8, <1>t DEF ExecuteCheck, ExecuteUnknown, ExecuteSubmit, ExecuteResult, ExecuteFinish
<1> QED BY <1>2, <1>3, <1>4, <1>5, <1>6, <1>7, <1>8, ExecutorWriters

-----------------------------------------------------------------------------
(* Polling.                                                                *)

\* A poll that finds every item settled, and none failed, has found them done.
LEMMA PollFindsDone ==
  ASSUME OrbyInv, NEW items \in Items, NEW seen, OverallStatus(items, seen) # seen
  PROVE  /\ OverallStatus(items, seen) \in {"completed", "failed"}
         /\ OverallStatus(items, seen) = "completed" => \A op \in ItemOps(items) : Succeeded(op)
<1>1. OverallStatus(items, seen) \in {"completed", "failed"}
  BY DEF OverallStatus
<1>2. ASSUME OverallStatus(items, seen) = "completed", NEW i \in DOMAIN items
      PROVE Succeeded(items[i].op)
  <2>1. CurrentStatus(items[i]) \in Settled /\ CurrentStatus(items[i]) # "failed"
    BY <1>2 DEF OverallStatus
  <2>2. items[i] \in [op : Ops, status : {"created", "failed"}]
    BY SeqElement DEF Items
  <2>3. items[i].op \in Ops /\ row[items[i].op].status = "successful"
    BY <2>1, <2>2 DEF CurrentStatus, Settled
  <2> QED BY <2>3 DEF OrbyInv, IInv, ReportedIsReal, SentAs, Settled, Succeeded
<1> QED BY <1>1, <1>2 DEF ItemOps

\* What succeeded stays so.
LEMMA ItemsStayDone ==
  ASSUME BatchInv, [BatchNext]_allVars, NEW b \in Batches, Kept(b),
         \A op \in ItemOps(batch[b].items) : Succeeded(op)
  PROVE  \A op \in ItemOps(batch'[b].items) : Succeeded(op)'
<1>1. batch[b].items \in Items
  BY BatchTypes DEF BatchInv, BatchRecords
<1>2. ItemOps(batch[b].items) \subseteq Ops
  BY <1>1, ItemsTyped
<1> QED BY <1>2, OrbyInvKept DEF Kept, SentStays

LEMMA PollerStep ==
  ASSUME BatchInv, [BatchNext]_allVars, NEW p \in Pollers
  PROVE  PollerOK(p)'
<1>t. poller \in [Pollers -> PollCalls] /\ batch \in [Batches -> BatchRecords]
  BY BatchTypes DEF BatchInv
<1>i. PollerOK(p)
  BY DEF BatchInv
<1>1. CASE poller'[p].pc = "idle"
  BY <1>1 DEF PollerOK
<1>2. CASE poller'[p] = poller[p] /\ poller[p].pc # "idle"
  <2>1. poller[p].batch \in Batches /\ Kept(poller[p].batch)
    BY <1>i, <1>2, RecordsKept, StoredNew DEF PollerOK
  <2>2. PICK b \in Batches : b = poller[p].batch /\ Kept(b)
    BY <2>1
  <2>3. (\A op \in ItemOps(batch[b].items) : Succeeded(op)) =>
          \A op \in ItemOps(batch'[b].items) : Succeeded(op)'
    BY <2>2, ItemsStayDone
  <2> QED BY <1>i, <1>2, <2>2, <2>3 DEF PollerOK, Kept, Succeeded
<1>3. ASSUME NEW b \in Batches, PollBatch(p, b) PROVE PollerOK(p)'
  BY <1>3, <1>t DEF PollBatch, Stored, PollerOK
<1>4. ASSUME PollOperations(p), poller'[p].pc # "idle" PROVE PollerOK(p)'
  <2>1. PICK b \in Batches : b = poller[p].batch /\ batch[b].status # "unused"
    BY <1>i, <1>4 DEF PollOperations, PollerOK
  <2>2. PICK items \in Items : items = batch[b].items
    BY <1>t DEF BatchRecords
  <2>3. PICK overall : overall = OverallStatus(items, poller[p].seen)
    OBVIOUS
  <2>4. /\ overall # poller[p].seen
        /\ poller'[p] = [poller[p] EXCEPT !.pc = "write", !.overall = overall]
        /\ UNCHANGED <<batch, orby>>
    BY <1>4, <1>t, <2>1, <2>2, <2>3 DEF PollOperations, IdlePoller, vars
  <2>5. /\ overall \in {"completed", "failed"}
        /\ overall = "completed" => \A op \in ItemOps(items) : Succeeded(op)
    BY <2>3, <2>4, PollFindsDone DEF BatchInv
  <2>6. /\ poller'[p].batch = b /\ poller'[p].overall = overall
        /\ poller'[p].seen = poller[p].seen
    BY <1>t, <2>1, <2>4 DEF PollCalls
  <2>7. poller[p].seen \notin {"unused", "deleted"}
    BY <1>i, <1>4 DEF PollOperations, PollerOK
  <2> QED BY <2>1, <2>2, <2>4, <2>5, <2>6, <2>7 DEF PollerOK, Succeeded
<1>5. CASE PollWrite(p) \/ BatchRestart
  BY <1>1, <1>5, <1>t DEF PollWrite, BatchRestart, IdlePoller
<1>6. ASSUME NEW q \in Pollers \ {p},
             (\E b \in Batches : PollBatch(q, b)) \/ PollOperations(q) \/ PollWrite(q)
      PROVE poller'[p] = poller[p]
  BY <1>6, <1>t DEF PollBatch, PollOperations, PollWrite
<1> QED BY <1>1, <1>2, <1>3, <1>4, <1>5, <1>6, PollerWriters

LEMMA CompletedStep ==
  ASSUME BatchInv, [BatchNext]_allVars
  PROVE  CompletedOK'
<1> SUFFICES ASSUME NEW b \in Batches, batch'[b].status = "completed"
             PROVE  \A op \in ItemOps(batch'[b].items) : Succeeded(op)'
  BY DEF CompletedOK
<1>t. batch \in [Batches -> BatchRecords]
  BY BatchTypes DEF BatchInv
<1>1. CASE batch[b].status = "completed"
  BY <1>1, ItemsStayDone, RecordsKept, StoredNew DEF BatchInv, CompletedOK
<1>2. CASE batch[b].status # "completed"
  <2>1. ASSUME NEW c \in Batches, StoreBatch(c) PROVE FALSE
    BY <1>2, <1>t, <2>1 DEF StoreBatch
  <2>2. ASSUME NEW x \in Handlers, ExecuteFinish(x) PROVE FALSE
    <3>1. PICK c, status : /\ c = executor[x].batch
                           /\ status = ExecutionStatus(executor[x].submitted, executor[x].failed)
      OBVIOUS
    <3>2. status # "completed"
      BY <3>1 DEF ExecutionStatus
    <3>3. UNCHANGED batch \/ batch' = [batch EXCEPT ![c].status = status]
      BY <2>2, <3>1 DEF ExecuteFinish
    <3> QED BY <1>2, <1>t, <3>2, <3>3 DEF BatchRecords
  <2>3. ASSUME BatchDeleteProfile PROVE FALSE
    BY <1>2, <1>t, <2>3 DEF BatchDeleteProfile
  <2>4. PICK p \in Pollers : PollWrite(p)
    BY <1>2, <2>1, <2>2, <2>3, BatchWriters
  <2>5. poller[p].pc = "write" /\ poller[p].batch = b /\ poller[p].overall = "completed"
    <3>1. PICK c, overall : c = poller[p].batch /\ overall = poller[p].overall
      OBVIOUS
    <3>2. poller[p].pc = "write" /\ (UNCHANGED batch \/ batch' = [batch EXCEPT ![c].status = overall])
      BY <2>4, <3>1 DEF PollWrite
    <3> QED BY <1>2, <1>t, <3>1, <3>2 DEF BatchRecords
  <2>6. \A op \in ItemOps(batch[b].items) : Succeeded(op)
    BY <2>5 DEF BatchInv, PollerOK
  <2> QED BY <2>1, <2>6, ItemsStayDone, RecordsKept
<1> QED BY <1>1, <1>2

-----------------------------------------------------------------------------
(* The theorems.                                                           *)

LEMMA InitBatchInv == BatchInit => BatchInv
<1> SUFFICES ASSUME BatchInit PROVE BatchInv
  OBVIOUS
<1>1. OrbyInv
  BY InitIInv DEF BatchInit, OrbyInv, Init, NoProfileNoRows, Exists, OkIsSent, IdleHandler
<1>2. BatchTypeOK
  <2>1. <<>> \in Items
    BY DEF Items
  <2>2. batch \in [Batches -> BatchRecords]
    BY <2>1 DEF BatchInit, BatchRecords, BatchStatus
  <2>3. creator \in [Batches -> CreateCalls]
    BY <2>1 DEF BatchInit, FreshCreator, CreateCalls, MaxOperations
  <2>4. executor \in [Handlers -> ExecuteCalls] /\ poller \in [Pollers -> PollCalls]
    BY DEF BatchInit, IdleExecutor, IdlePoller, ExecuteCalls, PollCalls, BatchStatus
  <2> QED BY <1>1, <2>2, <2>3, <2>4, BatchTypes DEF OrbyInv, IInv
<1>3. ASSUME NEW b \in Batches PROVE CreatorOK(b)
  <2>1. creator[b] = FreshCreator /\ batch[b].status = "unused"
    BY DEF BatchInit
  <2>2. Len(BatchOps[b]) \in Nat
    BY BatchConstants
  <2> QED BY <2>1, <2>2 DEF CreatorOK, FreshCreator, InOrder
<1>4. NotBuilt
  BY BatchOpsTyped DEF BatchInit, Init, NotBuilt
<1>5. RecordsStay /\ CompletedOK
  BY DEF BatchInit, RecordsStay, CompletedOK
<1>6. \A x \in Handlers : ExecutorOK(x)
  BY DEF BatchInit, ExecutorOK, IdleExecutor
<1>7. \A p \in Pollers : PollerOK(p)
  BY DEF BatchInit, PollerOK, IdlePoller
<1> QED BY <1>1, <1>2, <1>3, <1>4, <1>5, <1>6, <1>7 DEF BatchInv

LEMMA BatchInvStep == BatchInv /\ [BatchNext]_allVars => BatchInv'
<1> SUFFICES ASSUME BatchInv, [BatchNext]_allVars PROVE BatchInv'
  OBVIOUS
<1>1. OrbyInv'
  BY OrbyInvKept
<1>2. BatchTypeOK'
  BY <1>1, BatchTyped, CreatorTyped, ExecutorTyped, PollerTyped
     DEF BatchTypeOK, BatchRecords, CreateCalls, ExecuteCalls, PollCalls, OrbyInv, IInv
<1>3. \A b \in Batches : CreatorOK(b)'
  BY CreatorStep
<1>4. NotBuilt' /\ RecordsStay' /\ CompletedOK'
  BY NotBuiltStep, RecordsStayStep, CompletedStep
<1>5. \A x \in Handlers : ExecutorOK(x)'
  BY ExecutorStep
<1>6. \A p \in Pollers : PollerOK(p)'
  BY PollerStep
<1> QED BY <1>1, <1>2, <1>3, <1>4, <1>5, <1>6 DEF BatchInv

LEMMA BatchInvariance == BatchSpec => []BatchInv
BY InitBatchInv, BatchInvStep, PTL DEF BatchSpec

\* The records, the calls of createBatchIntent, executeBatch and getBatchStatus
\* and everything of the operations they drive stay well formed.
THEOREM BatchTypeCorrect == BatchSpec => []BatchTypeOK
<1>1. BatchInv => BatchTypeOK
  BY DEF BatchInv
<1> QED BY BatchInvariance, <1>1, PTL

\* An atomic batch whose creation was refused leaves no operation behind, and
\* one whose creation returned none without its record, whatever becomes of the
\* profile, and of the other requests, meanwhile and afterwards.
THEOREM CreatedAsAWhole == BatchSpec => []AtomicCreation
<1>1. ASSUME BatchInv PROVE AtomicCreation
  <2> SUFFICES ASSUME NEW b \in Batches, creator[b].pc \in {"refused", "done"},
                      creator[b].atomic, ~Stored(b)
               PROVE  \A op \in ItemOps(creator[b].items) : ~Exists(op)
    BY DEF AtomicCreation, OperationsOnlyWithRecord
  <2>1. CreatorOK(b)
    BY <1>1 DEF BatchInv
  <2>2. CASE creator[b].pc = "refused"
    BY <2>1, <2>2 DEF CreatorOK
  <2>3. CASE creator[b].pc = "done"
    <3>1. batch[b].status = "deleted"
      BY <2>1, <2>3 DEF CreatorOK, Stored
    <3>2. \A op \in Ops : ~Exists(op)
      BY <1>1, <3>1 DEF BatchInv, RecordsStay, OrbyInv, NoProfileNoRows
    <3>3. creator[b].items \in Items
      BY <1>1, BatchTypes DEF BatchInv, CreateCalls
    <3> QED BY <3>2, <3>3, ItemsTyped
  <2> QED BY <2>2, <2>3
<1> QED BY BatchInvariance, <1>1, PTL

\* A batch is 'completed' only when Orby brought all of its operations to
\* success, although polls write what they computed from earlier reads.
THEOREM CompletedIsTrue == BatchSpec => []CompletedMeansSucceeded
<1>1. BatchInv => CompletedMeansSucceeded
  BY DEF BatchInv, CompletedOK, CompletedMeansSucceeded, Succeeded, SentAs
<1> QED BY BatchInvariance, <1>1, PTL

-----------------------------------------------------------------------------
(* What depends on the clients: the lists they sign.                       *)

\* A list for a batch is not empty, and names all of its operations or none.
WholeList(b, list) ==
  LET named == NamedOps(batch[b].items)
  IN /\ list # <<>>
     /\ (\E i \in DOMAIN list : list[i] \in named) =>
          \A op \in named : \E i \in DOMAIN list : list[i] = op

SignsWhole ==
  \A x \in Handlers, b \in Batches, list \in SignedLists :
    ExecuteCheck(x, b, list) => WholeList(b, list)

ListsWhole ==
  \A x \in Handlers : executor[x].pc # "idle" => WholeList(executor[x].batch, executor[x].list)

\* An execution keeps its batch and list, and the batch its operations.
LEMMA ListsKept ==
  ASSUME BatchInv, [BatchNext]_allVars, NEW x \in Handlers, executor'[x].pc # "idle"
  PROVE  /\ NamedOps(batch'[executor'[x].batch].items) = NamedOps(batch[executor'[x].batch].items)
         /\ batch'[executor'[x].batch].atomic = batch[executor'[x].batch].atomic
         /\ \/ /\ executor[x].pc # "idle" /\ executor'[x].batch = executor[x].batch
               /\ executor'[x].list = executor[x].list
            \/ \E b \in Batches, list \in SignedLists :
                 /\ ExecuteCheck(x, b, list)
                 /\ executor'[x].batch = b /\ executor'[x].list = list
<1>t. executor \in [Handlers -> ExecuteCalls]
  BY BatchTypes DEF BatchInv
<1>1. \/ /\ executor[x].pc # "idle" /\ executor'[x].batch = executor[x].batch
         /\ executor'[x].list = executor[x].list
      \/ \E b \in Batches, list \in SignedLists :
           /\ ExecuteCheck(x, b, list)
           /\ executor'[x].batch = b /\ executor'[x].list = list
  <2>1. ASSUME NEW b \in Batches, NEW list \in SignedLists, ExecuteCheck(x, b, list)
        PROVE executor'[x].batch = b /\ executor'[x].list = list
    BY <1>t, <2>1 DEF ExecuteCheck, IdleExecutor
  <2>2. CASE ExecuteUnknown(x) \/ ExecuteSubmit(x) \/ ExecuteResult(x)
    <3>1. executor[x].pc # "idle"
      BY <2>2 DEF ExecuteUnknown, ExecuteSubmit, ExecuteResult, More
    <3>2. executor'[x].batch = executor[x].batch /\ executor'[x].list = executor[x].list
      BY <2>2, <1>t DEF ExecuteUnknown, ExecuteSubmit, ExecuteResult, ExecuteCalls
    <3> QED BY <3>1, <3>2
  <2>3. ~ExecuteFinish(x) /\ ~BatchRestart
    BY <1>t DEF ExecuteFinish, BatchRestart, IdleExecutor
  <2>4. ASSUME NEW y \in Handlers \ {x},
               \/ \E b \in Batches, list \in SignedLists : ExecuteCheck(y, b, list)
               \/ ExecuteUnknown(y) \/ ExecuteSubmit(y) \/ ExecuteResult(y) \/ ExecuteFinish(y)
        PROVE executor'[x] = executor[x]
    BY <1>t, <2>4 DEF ExecuteCheck, ExecuteUnknown, ExecuteSubmit, ExecuteResult, ExecuteFinish
  <2> QED BY <2>1, <2>2, <2>3, <2>4, ExecutorWriters
<1>2. executor'[x].batch \in Batches /\ batch[executor'[x].batch].status # "unused"
  BY <1>1 DEF BatchInv, ExecutorOK, ExecuteCheck
<1>3. Kept(executor'[x].batch)
  <2>1. PICK b \in Batches : b = executor'[x].batch /\ batch[b].status # "unused"
    BY <1>2
  <2> QED BY <2>1, RecordsKept, StoredNew
<1> QED BY <1>1, <1>3 DEF Kept

LEMMA ListsWholeStep ==
  ASSUME BatchInv, [BatchNext]_allVars, ListsWhole, SignsWhole \/ UNCHANGED allVars
  PROVE  ListsWhole'
<1> SUFFICES ASSUME NEW x \in Handlers, executor'[x].pc # "idle"
             PROVE  WholeList(executor[x].batch, executor[x].list)'
  BY DEF ListsWhole
<1>1. WholeList(executor'[x].batch, executor'[x].list)
  <2>1. CASE /\ executor[x].pc # "idle" /\ executor'[x].batch = executor[x].batch
             /\ executor'[x].list = executor[x].list
    BY <2>1 DEF ListsWhole
  <2>2. ASSUME NEW b \in Batches, NEW list \in SignedLists, ExecuteCheck(x, b, list),
               executor'[x].batch = b, executor'[x].list = list
        PROVE WholeList(executor'[x].batch, executor'[x].list)
    <3>1. executor'[x] # executor[x]
      BY <2>2 DEF ExecuteCheck
    <3>2. SignsWhole
      BY <3>1 DEF allVars, batchVars
    <3> QED BY <2>2, <3>2 DEF SignsWhole
  <2> QED BY <2>1, <2>2, ListsKept
<1> QED BY <1>1, ListsKept DEF WholeList

\* An execution that counts no failure has sent the whole batch.
LEMMA NoFailureMeansSent ==
  ASSUME BatchInv, ListsWhole, NEW x \in Handlers, executor[x].failed = 0,
         \/ executor[x].pc = "stopped"
         \/ executor[x].pc = "loop" /\ executor[x].next > Len(executor[x].list)
  PROVE  \A op \in NamedOps(batch[executor[x].batch].items) : Sent(op)
<1>1. PICK q : q = executor[x]
  OBVIOUS
<1>2. PICK named : named = NamedOps(batch[q.batch].items)
  OBVIOUS
<1>3. /\ q.list \in SignedLists /\ q.next \in 1..(Len(q.list) + 1)
      /\ q.pc # "stopped"
      /\ \A i \in 1..(q.next - 1) : q.list[i] \in named /\ Sent(q.list[i])
  BY <1>1, <1>2 DEF BatchInv, ExecutorOK
<1>4. q.list \in Seq(Ops)
  BY <1>3, BatchConstants
<1>5. \A i \in DOMAIN q.list : i \in 1..(q.next - 1)
  BY <1>1, <1>3, <1>4
<1>6. /\ q.list # <<>>
      /\ (\E i \in DOMAIN q.list : q.list[i] \in named) =>
           \A op \in named : \E i \in DOMAIN q.list : q.list[i] = op
  BY <1>1, <1>2 DEF ListsWhole, WholeList
<1>7. 1 \in DOMAIN q.list
  BY <1>4, <1>6
<1> QED BY <1>1, <1>2, <1>3, <1>5, <1>6, <1>7

LEMMA SubmittedStep ==
  ASSUME BatchInv, [BatchNext]_allVars, ListsWhole, SubmittedMeansSent
  PROVE  SubmittedMeansSent'
<1> SUFFICES ASSUME NEW b \in Batches, batch'[b].status = "submitted",
                    NEW i \in DOMAIN batch'[b].items, batch'[b].items[i].status = "created"
             PROVE  \E e \in Execs : orby'[e].op = batch'[b].items[i].op
  BY DEF SubmittedMeansSent, SentAs
<1>t. batch \in [Batches -> BatchRecords]
  BY BatchTypes DEF BatchInv
<1>1. ~StoreBatch(b)
  <2> SUFFICES ASSUME StoreBatch(b) PROVE FALSE
    OBVIOUS
  <2>1. \E status \in {"partial", "created"} : \E atomic, items :
          batch' = [batch EXCEPT ![b] = [status |-> status, atomic |-> atomic, items |-> items]]
    BY DEF StoreBatch
  <2> QED BY <1>t, <2>1, StoredNew
<1>2. PICK items \in Items : items = batch[b].items /\ items = batch'[b].items
  BY <1>t, <1>1, RecordsKept DEF Kept, BatchRecords
<1>3. items[i].op \in NamedOps(items)
  BY <1>2 DEF NamedOps, FailedItems
<1>4. items[i].op \in Ops
  BY <1>3, ItemsTyped
<1>5. Sent(items[i].op)
  <2>1. CASE batch[b].status = "submitted"
    BY <1>2, <2>1 DEF SubmittedMeansSent, SentAs, Sent
  <2>2. ASSUME batch[b].status # "submitted", NEW x \in Handlers, ExecuteFinish(x) PROVE Sent(items[i].op)
    <3>1. PICK c, status : /\ c = executor[x].batch
                           /\ status = ExecutionStatus(executor[x].submitted, executor[x].failed)
      OBVIOUS
    <3>2. UNCHANGED batch \/ batch' = [batch EXCEPT ![c].status = status]
      BY <2>2, <3>1 DEF ExecuteFinish
    <3>3. c = b /\ status = "submitted"
      BY <1>t, <2>2, <3>2 DEF BatchRecords
    <3>4. executor[x].failed = 0
      BY <3>1, <3>3 DEF ExecutionStatus
    <3>5. \A op \in NamedOps(batch[executor[x].batch].items) : Sent(op)
      BY <2>2, <3>4, NoFailureMeansSent DEF ExecuteFinish
    <3> QED BY <1>2, <1>3, <3>1, <3>3, <3>5
  <2>3. ASSUME batch[b].status # "submitted", NEW p \in Pollers, PollWrite(p) PROVE FALSE
    <3>1. PICK c, overall : c = poller[p].batch /\ overall = poller[p].overall
      OBVIOUS
    <3>2. UNCHANGED batch \/ batch' = [batch EXCEPT ![c].status = overall]
      BY <2>3, <3>1 DEF PollWrite
    <3>3. overall \in {"completed", "failed"}
      BY <2>3, <3>1 DEF PollWrite, BatchInv, PollerOK
    <3> QED BY <1>t, <2>3, <3>2, <3>3 DEF BatchRecords
  <2>4. ASSUME batch[b].status # "submitted", BatchDeleteProfile PROVE FALSE
    BY <1>t, <2>4 DEF BatchDeleteProfile
  <2>5. ASSUME batch[b].status # "submitted", NEW c \in Batches, StoreBatch(c) PROVE FALSE
    BY <1>t, <1>1, <2>5 DEF StoreBatch
  <2> QED BY <2>1, <2>2, <2>3, <2>4, <2>5, BatchWriters
<1> QED BY <1>2, <1>4, <1>5, OrbyInvKept DEF SentStays, Sent

\* When every list that clients execute a batch with holds all of the batch's
\* operations (or none, and something), a 'submitted' batch is at Orby as a
\* whole, whatever polls, direct submissions and restarts come in between.
THEOREM SubmittedIsTrue == BatchSpec /\ [][SignsWhole]_allVars => []SubmittedMeansSent
<1>1. BatchInit => ListsWhole /\ SubmittedMeansSent
  BY DEF BatchInit, IdleExecutor, ListsWhole, SubmittedMeansSent
<1>2. /\ BatchInv /\ ListsWhole /\ SubmittedMeansSent
      /\ [BatchNext]_allVars /\ [SignsWhole]_allVars
      => ListsWhole' /\ SubmittedMeansSent'
  BY ListsWholeStep, SubmittedStep
<1> QED BY BatchInvariance, <1>1, <1>2, PTL DEF BatchSpec

\* An execution of an atomic batch submits nothing after a submission of its own
\* has failed, whoever sent the operation and whatever lists clients sign.
THEOREM StopsAtFirstFailure == BatchSpec => []AtomicStopsAtFirstFailure
<1>1. ASSUME BatchInv PROVE AtomicStopsAtFirstFailure
  <2> SUFFICES ASSUME NEW x \in Handlers, executor[x].pc = "submitting",
                      batch[executor[x].batch].atomic, NEW i \in KnownBefore(x)
               PROVE  i \in executor[x].accepted /\ Sent(executor[x].list[i])
    BY DEF AtomicStopsAtFirstFailure, SentAs, Sent
  <2> QED BY <1>1 DEF BatchInv, ExecutorOK, KnownBefore
<1> QED BY BatchInvariance, <1>1, PTL
=============================================================================
