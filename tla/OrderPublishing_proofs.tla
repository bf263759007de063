----------------------- MODULE OrderPublishing_proofs -----------------------
(***************************************************************************)
(* Theorems about OrderPublishing, for every number of runs, attempts and  *)
(* orders: typing first, then the stop mark, the orders started late, the  *)
(* order of the runs, and what Describe shows of them (PublishingRuns).    *)
(***************************************************************************)
EXTENDS OrderPublishing, TLAPS

(* The initial state is well typed. *)
LEMMA InitTypeOK == Init => TypeOK
BY ConstantsAssumption
   DEF Init, TypeOK, Runs, Attempts, Orders, Statuses, Stages, Marks, Outcomes,
       Activities, Closings, OrderStates, OrderRecords, NoOrder

(* A failed attempt leaves the activity well typed, retried or given up. *)
LEMMA RetryTypeOK ==
    ASSUME NEW r \in Runs, RetryOrGiveUp(r),
           activity \in [Runs -> Activities],
           attempt \in [Runs -> 0..MaxAttempts],
           outcome \in [Runs -> Outcomes]
    PROVE  /\ activity' \in [Runs -> Activities]
           /\ attempt' \in [Runs -> 0..MaxAttempts]
           /\ outcome' \in [Runs -> Outcomes]
<1> USE ConstantsAssumption DEF Activities, Outcomes
<1>1. CASE attempt[r] < MaxAttempts /\ attempt' = [attempt EXCEPT ![r] = attempt[r] + 1]
                /\ activity' = [activity EXCEPT ![r] = "scheduled"] /\ UNCHANGED outcome
  <2>1. attempt[r] + 1 \in 0..MaxAttempts
    BY <1>1
  <2> QED
    BY <1>1, <2>1
<1>2. CASE UNCHANGED attempt
  BY <1>2 DEF RetryOrGiveUp
<1> QED
  BY <1>1, <1>2 DEF RetryOrGiveUp

(* So does the task that stops publishing, whatever the reason. *)
LEMMA StopPublishingTypeOK ==
    ASSUME TypeOK, NEW r \in Runs, NEW reason \in Marks, StopPublishing(r, reason)
    PROVE  TypeOK'
BY DEF StopPublishing, TypeOK, Stages, Activities, closeVars, orderVars

(* What starts, pauses and ends runs keeps the state well typed. *)
LEMMA RunStepTypeOK ==
    ASSUME TypeOK, NEW r \in Runs, RunStep(r)
    PROVE  TypeOK'
<1> USE ConstantsAssumption DEF TypeOK, serverVars, publishVars, closeVars, orderVars
<1>1. CASE StartFresh(r)
  BY <1>1 DEF StartFresh, Statuses
<1>2. CASE Resume(r)
  BY <1>2 DEF Resume, Statuses
<1>3. CASE Pause(r)
  BY <1>3 DEF Pause
<1>4. CASE ExecutionTimeout(r)
  BY <1>4 DEF ExecutionTimeout, Statuses
<1>5. CASE FirstTask(r)
  <2>1. CASE StopPublishing(r, "paused")
    BY <2>1, StopPublishingTypeOK DEF Marks
  <2>2. CASE ~signalled[r]
    <3>1. 1 \in 0..MaxAttempts
      OBVIOUS
    <3> QED
      BY <1>5, <2>2, <3>1 DEF FirstTask, Stages, Activities
  <2> QED
    BY <1>5, <2>1, <2>2 DEF FirstTask
<1>6. CASE StopTask(r)
  <2>1. CASE StopPublishing(r, "timeout")
    BY <2>1, StopPublishingTypeOK DEF Marks
  <2>2. CASE StopPublishing(r, "paused")
    BY <2>2, StopPublishingTypeOK DEF Marks
  <2> QED
    BY <1>6, <2>1, <2>2 DEF StopTask
<1>7. CASE CloseTask(r)
  BY <1>7 DEF CloseTask, Stages, Closings
<1>8. CASE LastTask(r)
  BY <1>8 DEF LastTask, Statuses
<1>9. CASE WindowOver(r)
  BY <1>9 DEF WindowOver, Activities, Outcomes
<1>10. CASE HeartbeatTimeout(r)
  BY <1>10, RetryTypeOK DEF HeartbeatTimeout
<1>11. CASE StartAttempt(r)
  BY <1>11 DEF StartAttempt, Activities
<1> QED
  BY <1>1, <1>2, <1>3, <1>4, <1>5, <1>6, <1>7, <1>8, <1>9, <1>10, <1>11 DEF RunStep

(* So do the attempts of PublishOrders. *)
LEMMA AttemptStepTypeOK ==
    ASSUME TypeOK, NEW r \in Runs, NEW k \in Attempts, AttemptStep(r, k)
    PROVE  TypeOK'
<1> USE ConstantsAssumption DEF TypeOK, serverVars, publishVars, closeVars, orderVars
<1>1. CASE CheckCurrent(r, k)
  BY <1>1 DEF CheckCurrent
<1>2. CASE CheckNotCurrent(r, k)
  BY <1>2 DEF CheckNotCurrent
<1>3. CASE ReturnNil(r, k)
  BY <1>3 DEF ReturnNil, Activities, Outcomes
<1>4. CASE ReturnStopping(r, k)
  <2>1. /\ activity' \in [Runs -> Activities]
        /\ attempt' \in [Runs -> 0..MaxAttempts]
        /\ outcome' \in [Runs -> Outcomes]
    <3>1. CASE RetryOrGiveUp(r)
      BY <3>1, RetryTypeOK
    <3>2. CASE UNCHANGED publishVars
      BY <3>2
    <3> QED
      BY <1>4, <3>1, <3>2 DEF ReturnStopping
  <2>2. pc' \in [Runs -> [Attempts -> {"idle", "loop", "checked", "leaving", "gone"}]]
    BY <1>4 DEF ReturnStopping
  <2> QED
    BY <1>4, <2>1, <2>2 DEF ReturnStopping
<1>5. CASE StartOrder(r, k)
  <2>1. [run |-> r, attempt |-> k, born |-> clock, late |-> ~Open(r)] \in OrderRecords
    BY DEF OrderRecords, Runs, Attempts, Open
  <2> QED
    BY <1>5, <2>1 DEF StartOrder, Orders, OrderStates
<1>6. CASE StartOrderFails(r, k)
  BY <1>6 DEF StartOrderFails
<1>7. CASE AttemptDies(r, k)
  BY <1>7 DEF AttemptDies
<1> QED
  BY <1>1, <1>2, <1>3, <1>4, <1>5, <1>6, <1>7 DEF AttemptStep

(* So does CloseOrders. *)
LEMMA CloseStepTypeOK ==
    ASSUME TypeOK, NEW r \in Runs, CloseStep(r)
    PROVE  TypeOK'
<1> USE ConstantsAssumption DEF TypeOK, serverVars, publishVars, closeVars, orderVars
<1>1. CASE StartClosing(r)
  BY <1>1 DEF StartClosing, Closings
<1>2. CASE ListOpenOrders(r)
  BY <1>2 DEF ListOpenOrders
<1>3. ASSUME NEW o \in Orders, TerminateOrder(r, o)
      PROVE  TypeOK'
  BY <1>3 DEF TerminateOrder, OrderStates
<1>4. CASE CloseOrdersReturns(r)
  BY <1>4 DEF CloseOrdersReturns, EndAttempt, Closings
<1>5. CASE CloseOrdersFails(r)
  BY <1>5 DEF CloseOrdersFails, EndAttempt, Closings
<1>6. CASE CloseOrdersDies(r)
  BY <1>6 DEF CloseOrdersDies
<1>7. CASE CloseOrdersTimeout(r)
  BY <1>7 DEF CloseOrdersTimeout, Closings
<1> QED
  BY <1>1, <1>2, <1>3, <1>4, <1>5, <1>6, <1>7 DEF CloseStep

(* So every step does. *)
LEMMA NextTypeOK == TypeOK /\ [Next]_vars => TypeOK'
<1> SUFFICES ASSUME TypeOK, [Next]_vars PROVE TypeOK'
  OBVIOUS
<1>1. ASSUME NEW o \in Orders, OrderEnds(o)
      PROVE  TypeOK'
  BY <1>1 DEF OrderEnds, TypeOK, OrderStates, serverVars, publishVars, closeVars
<1>2. CASE Tick
  BY <1>2 DEF Tick, TypeOK, serverVars, publishVars, closeVars, orderVars
<1>3. CASE UNCHANGED vars
  BY <1>3 DEF TypeOK, vars, serverVars, publishVars, closeVars, orderVars
<1> QED
  BY <1>1, <1>2, <1>3, RunStepTypeOK, AttemptStepTypeOK, CloseStepTypeOK DEF Next

(* Every reachable state is well typed: no handler ever writes a status, a *)
(* stage, an attempt number or an order outside its range.                 *)
THEOREM TypeCorrect == Spec => []TypeOK
<1>1. Init => TypeOK
  BY InitTypeOK
<1>2. TypeOK /\ [Next]_vars => TypeOK'
  BY NextTypeOK
<1> QED
  BY <1>1, <1>2, PTL DEF Spec
-----------------------------------------------------------------------------
(* The stop mark.  What it says of a run rests on what the attempts may     *)
(* still report: an attempt that is leaving with nil has seen its run stop  *)
(* or its number overtaken, and neither is ever undone.                    *)

AttemptInv ==
    /\ \A r \in Runs :
          /\ outcome[r] # "nil"
          /\ activity[r] # "none" => stage[r] # "new"
          /\ activity[r] \in {"scheduled", "started"} => attempt[r] \in Attempts
    /\ \A r \in Runs, k \in Attempts :
          /\ pc[r][k] # "idle" => status[r] # "none" /\ stage[r] # "new" /\ k <= attempt[r]
          /\ pc[r][k] = "leaving" => ~Open(r) \/ k < attempt[r]

MarkInv == MarkedInTheSameTask /\ MarkTruthful /\ AttemptInv

(* Nothing has been marked and nothing is running at first. *)
LEMMA InitMarkInv == Init => MarkInv
BY DEF Init, MarkInv, MarkedInTheSameTask, MarkTruthful, AttemptInv

(* The workflow task that stops publishing: the mark, the stage and the    *)
(* activity move together, and the reason must be true of the run.         *)
LEMMA StopPublishingMarkInv ==
    ASSUME TypeOK, MarkInv, NEW r \in Runs, NEW reason \in {"timeout", "paused"},
           StopPublishing(r, reason),
           \A k \in Attempts : stage[r] = "new" => pc[r][k] = "idle",
           reason = "timeout" => outcome[r] \in {"deadline", "noRetry"},
           reason = "paused" => signalled[r]
    PROVE  MarkInv'
<1> USE DEF TypeOK, StopPublishing
<1>1. MarkedInTheSameTask'
  BY DEF MarkInv, MarkedInTheSameTask
<1>2. MarkTruthful'
  BY DEF MarkInv, MarkTruthful
<1>3. AttemptInv'
  BY DEF MarkInv, AttemptInv, Open, Running
<1> QED
  BY <1>1, <1>2, <1>3 DEF MarkInv

(* What a failed attempt leaves behind keeps the mark invariant. *)
LEMMA RetryMarkInv ==
    ASSUME TypeOK, MarkInv, NEW r \in Runs, RetryOrGiveUp(r), activity[r] = "started",
           UNCHANGED serverVars,
           \A q \in Runs, k \in Attempts :
              pc'[q][k] = pc[q][k] \/ (pc'[q][k] = "gone" /\ pc[q][k] # "idle")
    PROVE  MarkInv'
<1>1. MarkedInTheSameTask'
  BY DEF MarkInv, MarkedInTheSameTask, TypeOK, RetryOrGiveUp, serverVars
<1>2. MarkTruthful'
  BY DEF MarkInv, MarkTruthful, TypeOK, RetryOrGiveUp, serverVars
<1>3. AttemptInv'
  <2>1. /\ attempt' \in [Runs -> 0..MaxAttempts]
        /\ attempt'[r] = attempt[r] \/ (attempt'[r] = attempt[r] + 1 /\ attempt'[r] \in Attempts)
        /\ \A q \in Runs : q # r => attempt'[q] = attempt[q]
    <3>1. attempt' \in [Runs -> 0..MaxAttempts]
      BY RetryTypeOK DEF TypeOK
    <3>2. CASE attempt[r] < MaxAttempts /\ attempt' = [attempt EXCEPT ![r] = attempt[r] + 1]
      BY <3>1, <3>2, ConstantsAssumption DEF TypeOK, Attempts
    <3>3. CASE UNCHANGED attempt
      BY <3>1, <3>3
    <3> QED
      BY <3>2, <3>3 DEF RetryOrGiveUp
  <2>2. ASSUME NEW q \in Runs PROVE attempt[q] <= attempt'[q]
    <3>1. attempt[q] \in Nat
      BY ConstantsAssumption DEF TypeOK
    <3> QED
      BY <2>1, <3>1
  <2>3. \A q \in Runs :
           /\ outcome'[q] # "nil"
           /\ q # r => activity'[q] = activity[q]
    BY DEF MarkInv, AttemptInv, TypeOK, RetryOrGiveUp
  <2>4. attempt'[r] \in Attempts
    BY <2>1 DEF MarkInv, AttemptInv
  <2>5. ASSUME NEW q \in Runs
        PROVE  /\ activity'[q] # "none" => stage'[q] # "new"
               /\ activity'[q] \in {"scheduled", "started"} => attempt'[q] \in Attempts
    <3>1. CASE q = r
      BY <2>4, <3>1 DEF MarkInv, AttemptInv, serverVars
    <3>2. CASE q # r
      BY <2>1, <2>3, <3>2 DEF MarkInv, AttemptInv, serverVars
    <3> QED
      BY <3>1, <3>2
  <2>6. ASSUME NEW q \in Runs, NEW k \in Attempts
        PROVE  /\ pc'[q][k] # "idle" => status'[q] # "none" /\ stage'[q] # "new"
                                            /\ k <= attempt'[q]
               /\ pc'[q][k] = "leaving" => ~Open(q)' \/ k < attempt'[q]
    <3>1. attempt[q] <= attempt'[q] /\ attempt[q] \in Nat /\ attempt'[q] \in Nat /\ k \in Nat
      BY <2>1, <2>2, ConstantsAssumption DEF Attempts, TypeOK
    <3>2. Open(q)' <=> Open(q)
      BY DEF Open, Running, serverVars
    <3>3. pc'[q][k] = pc[q][k] \/ (pc'[q][k] = "gone" /\ pc[q][k] # "idle")
      OBVIOUS
    <3> QED
      BY <3>1, <3>2, <3>3 DEF MarkInv, AttemptInv, serverVars
  <2> QED
    BY <2>3, <2>5, <2>6, Zenon DEF AttemptInv
<1> QED
  BY <1>1, <1>2, <1>3 DEF MarkInv

(* A run that starts, is paused or moves on keeps its mark true; a task    *)
(* that stops it finds the reason it writes.                               *)
LEMMA RunStepMarkInv ==
    ASSUME TypeOK, MarkInv, NEW r \in Runs, RunStep(r)
    PROVE  MarkInv'
<1> USE DEF TypeOK, serverVars, publishVars
<1>1. CASE StartFresh(r)
  BY <1>1 DEF StartFresh, Fresh, MarkInv, MarkedInTheSameTask, MarkTruthful, AttemptInv,
              Open, Running
<1>2. CASE Resume(r)
  BY <1>2 DEF Resume, Fresh, MarkInv, MarkedInTheSameTask, MarkTruthful, AttemptInv,
              Open, Running
<1>3. CASE Pause(r)
  BY <1>3 DEF Pause, MarkInv, MarkedInTheSameTask, MarkTruthful, AttemptInv, Open, Running
<1>4. CASE ExecutionTimeout(r)
  BY <1>4 DEF ExecutionTimeout, MarkInv, MarkedInTheSameTask, MarkTruthful, AttemptInv,
              Open, Running
<1>5. CASE FirstTask(r)
  <2>1. \A k \in Attempts : pc[r][k] = "idle"
    BY <1>5 DEF FirstTask, MarkInv, AttemptInv
  <2>2. CASE signalled[r] /\ StopPublishing(r, "paused")
    BY <2>1, <2>2, StopPublishingMarkInv
  <2>3. CASE ~signalled[r]
    <3>1. MarkedInTheSameTask' /\ MarkTruthful'
      <4>1. mark[r] = "none"
        BY <1>5 DEF FirstTask, MarkInv, MarkedInTheSameTask
      <4>2. /\ stage' = [stage EXCEPT ![r] = "publishing"]
            /\ activity' = [activity EXCEPT ![r] = "scheduled"]
            /\ UNCHANGED <<mark, outcome, signalled>>
        BY <1>5, <2>3 DEF FirstTask
      <4>3. MarkedInTheSameTask'
        BY <4>1, <4>2 DEF MarkInv, MarkedInTheSameTask
      <4>4. MarkTruthful'
        BY <4>2 DEF MarkInv, MarkTruthful
      <4> QED
        BY <4>3, <4>4
    <3>2. 1 \in Attempts
      BY ConstantsAssumption DEF Attempts
    <3>3. AttemptInv'
      <4>1. /\ stage' = [stage EXCEPT ![r] = "publishing"]
            /\ activity' = [activity EXCEPT ![r] = "scheduled"]
            /\ attempt' = [attempt EXCEPT ![r] = 1]
            /\ UNCHANGED <<status, mark, outcome, pc>>
        BY <1>5, <2>3 DEF FirstTask
      <4>2. \A q \in Runs, k \in Attempts : pc[q][k] # "idle" => attempt'[q] = attempt[q]
        BY <2>1, <4>1
      <4> QED
        BY <2>1, <3>2, <4>1, <4>2 DEF MarkInv, AttemptInv, Open, Running
    <3> QED
      BY <3>1, <3>3 DEF MarkInv
  <2> QED
    BY <1>5, <2>2, <2>3 DEF FirstTask
<1>6. CASE StopTask(r)
  <2>1. CASE outcome[r] # "none" /\ StopPublishing(r, "timeout")
    <3>1. outcome[r] \in {"deadline", "noRetry"}
      BY <2>1 DEF MarkInv, AttemptInv, Outcomes
    <3> QED
      BY <1>6, <2>1, <3>1, StopPublishingMarkInv DEF StopTask
  <2>2. CASE signalled[r] /\ StopPublishing(r, "paused")
    BY <1>6, <2>2, StopPublishingMarkInv DEF StopTask
  <2> QED
    BY <1>6, <2>1, <2>2 DEF StopTask
<1>7. CASE CloseTask(r)
  BY <1>7 DEF CloseTask, MarkInv, MarkedInTheSameTask, MarkTruthful, AttemptInv, Open, Running
<1>8. CASE LastTask(r)
  BY <1>8 DEF LastTask, MarkInv, MarkedInTheSameTask, MarkTruthful, AttemptInv, Open, Running
<1>9. CASE WindowOver(r)
  BY <1>9 DEF WindowOver, Pending, MarkInv, MarkedInTheSameTask, MarkTruthful, AttemptInv,
              Open, Running
<1>10. CASE HeartbeatTimeout(r)
  BY <1>10, RetryMarkInv DEF HeartbeatTimeout
<1>11. CASE StartAttempt(r)
  <2>1. attempt[r] \in Attempts /\ stage[r] # "new"
    BY <1>11 DEF StartAttempt, MarkInv, AttemptInv
  <2>2. \A q \in Runs, k \in Attempts :
           pc'[q][k] = pc[q][k] \/ (q = r /\ k = attempt[r] /\ pc'[q][k] = "loop")
    BY <1>11, <2>1 DEF StartAttempt
  <2>3. attempt[r] <= attempt[r]
    BY <2>1, ConstantsAssumption DEF Attempts
  <2> QED
    BY <1>11, <2>1, <2>2, <2>3 DEF StartAttempt, MarkInv, MarkedInTheSameTask, MarkTruthful, AttemptInv,
               Open, Running
<1> QED
  BY <1>1, <1>2, <1>3, <1>4, <1>5, <1>6, <1>7, <1>8, <1>9, <1>10, <1>11 DEF RunStep

(* An attempt whose check fails has seen its run stop, or a later attempt. *)
LEMMA NotCurrentIsOvertaken ==
    ASSUME TypeOK, MarkInv, NEW r \in Runs, NEW k \in Attempts,
           pc[r][k] = "loop", ~IsCurrent(r, k)
    PROVE  ~Open(r) \/ k < attempt[r]
<1>1. k <= attempt[r] /\ k \in Nat /\ attempt[r] \in Nat
  BY ConstantsAssumption DEF TypeOK, MarkInv, AttemptInv, Attempts
<1>2. Open(r) => attempt[r] # k
  BY DEF IsCurrent
<1> QED
  BY <1>1, <1>2

(* A nil result comes from an attempt the server no longer counts on, so   *)
(* it never becomes the outcome.                                           *)
LEMMA AttemptStepMarkInv ==
    ASSUME TypeOK, MarkInv, NEW r \in Runs, NEW k \in Attempts, AttemptStep(r, k)
    PROVE  MarkInv'
<1> USE DEF TypeOK, serverVars, publishVars, MarkInv, MarkedInTheSameTask, MarkTruthful,
            AttemptInv, Open, Running
<1>1. CASE CheckCurrent(r, k)
  BY <1>1 DEF CheckCurrent
<1>2. CASE CheckNotCurrent(r, k)
  <2>1. ~Open(r) \/ k < attempt[r]
    BY <1>2, NotCurrentIsOvertaken DEF CheckNotCurrent
  <2> QED
    BY <1>2, <2>1 DEF CheckNotCurrent
<1>3. CASE ReturnNil(r, k)
  <2>1. ~Accepted(r, k)
    BY <1>3, ConstantsAssumption DEF ReturnNil, Accepted, Attempts
  <2> QED
    BY <1>3, <2>1 DEF ReturnNil
<1>4. CASE ReturnStopping(r, k)
  <2>1. CASE Accepted(r, k) /\ RetryOrGiveUp(r)
    BY <1>4, <2>1, RetryMarkInv DEF ReturnStopping, Accepted
  <2>2. CASE UNCHANGED publishVars
    BY <1>4, <2>2 DEF ReturnStopping
  <2> QED
    BY <1>4, <2>1, <2>2 DEF ReturnStopping
<1>5. CASE StartOrder(r, k)
  BY <1>5 DEF StartOrder
<1>6. CASE StartOrderFails(r, k)
  BY <1>6 DEF StartOrderFails
<1>7. CASE AttemptDies(r, k)
  BY <1>7 DEF AttemptDies
<1> QED
  BY <1>1, <1>2, <1>3, <1>4, <1>5, <1>6, <1>7 DEF AttemptStep

(* Nothing else touches what the mark invariant is about. *)
LEMMA OtherStepMarkInv ==
    ASSUME MarkInv, UNCHANGED <<serverVars, publishVars, pc>>
    PROVE  MarkInv'
BY DEF MarkInv, MarkedInTheSameTask, MarkTruthful, AttemptInv, Open, Running,
       serverVars, publishVars

(* CloseOrders touches neither the runs nor their PublishOrders. *)
LEMMA CloseStepLeavesRuns ==
    ASSUME NEW r \in Runs, CloseStep(r)
    PROVE  UNCHANGED <<serverVars, publishVars, pc>>
BY DEF CloseStep, StartClosing, ListOpenOrders, TerminateOrder, CloseOrdersReturns,
       CloseOrdersFails, CloseOrdersDies, CloseOrdersTimeout, EndAttempt

(* So every step keeps the mark invariant. *)
LEMMA NextMarkInv == TypeOK /\ MarkInv /\ [Next]_vars => MarkInv'
<1> SUFFICES ASSUME TypeOK, MarkInv, [Next]_vars PROVE MarkInv'
  OBVIOUS
<1>1. ASSUME NEW r \in Runs, CloseStep(r)
      PROVE  MarkInv'
  BY <1>1, CloseStepLeavesRuns, OtherStepMarkInv
<1>2. ASSUME NEW o \in Orders, OrderEnds(o)
      PROVE  MarkInv'
  BY <1>2, OtherStepMarkInv DEF OrderEnds
<1>3. CASE Tick
  BY <1>3, OtherStepMarkInv DEF Tick
<1>4. CASE UNCHANGED vars
  BY <1>4, OtherStepMarkInv DEF vars
<1> QED
  BY <1>1, <1>2, <1>3, <1>4, RunStepMarkInv, AttemptStepMarkInv DEF Next

(* The mark is set with the stage and with the end of PublishOrders, and    *)
(* its reason is true: the invariant the two theorems below are read from. *)
THEOREM MarkInvariant == Spec => []MarkInv
<1>1. Init => MarkInv
  BY InitMarkInv
<1>2. TypeOK /\ MarkInv /\ [Next]_vars => MarkInv'
  BY NextMarkInv
<1> QED
  BY <1>1, <1>2, TypeCorrect, PTL DEF Spec

(* The mark tells why publishing stopped: "timeout" only if the window ran *)
(* out, "paused" only after a pause; no early nil of an attempt passes for *)
(* the end of the window.                                                  *)
THEOREM MarkIsTruthful == Spec => []MarkTruthful
<1>1. MarkInv => MarkTruthful
  BY DEF MarkInv
<1> QED
  BY <1>1, MarkInvariant, PTL

(* The mark, the end of the workflow function's publishing and the end of  *)
(* its PublishOrders are one task: no Describe sees one without the other. *)
THEOREM MarkAtomic == Spec => []MarkedInTheSameTask
<1>1. MarkInv => MarkedInTheSameTask
  BY DEF MarkInv
<1> QED
  BY <1>1, MarkInvariant, PTL
-----------------------------------------------------------------------------
(* Late orders.  The attempt that started one is back in its loop, past its *)
(* only chance: its run is not open, never will be again, and nothing but a *)
(* check of an open run lets an attempt start an order.                    *)

LateInv ==
    /\ \A o \in Orders :
          /\ Exists(o) <=> o <= started
          /\ Exists(o) => order[o].run \in Runs /\ order[o].attempt \in Attempts
          /\ Exists(o) /\ order[o].late =>
                /\ ~Open(order[o].run)
                /\ status[order[o].run] # "none"
                /\ pc[order[o].run][order[o].attempt] # "checked"
    /\ \A r \in Runs, k \in Attempts : pc[r][k] # "idle" => status[r] # "none"
    /\ AtMostOneLateOrder

(* There are no orders at first. *)
LEMMA InitLateInv == Init => LateInv
BY ConstantsAssumption DEF Init, LateInv, AtMostOneLateOrder, Exists, NoOrder, Orders

(* What a step other than an order start has to respect.                   *)
LEMMA QuietStepLateInv ==
    ASSUME LateInv, UNCHANGED <<order, started>>,
           \A o \in Orders : Exists(o)' <=> Exists(o),
           \A r \in Runs :
              status[r] # "none" => status'[r] # "none" /\ (~Open(r) => ~Open(r)'),
           \A r \in Runs, k \in Attempts :
              /\ pc'[r][k] = "checked" => pc[r][k] = "checked" \/ Open(r)
              /\ pc'[r][k] # "idle" => pc[r][k] # "idle" \/ status[r] # "none"
    PROVE  LateInv'
<1>1. ASSUME NEW o \in Orders
      PROVE  /\ Exists(o)' <=> o <= started'
             /\ Exists(o)' => order'[o].run \in Runs /\ order'[o].attempt \in Attempts
             /\ Exists(o)' /\ order'[o].late =>
                   /\ ~Open(order[o].run)'
                   /\ status'[order'[o].run] # "none"
                   /\ pc'[order'[o].run][order'[o].attempt] # "checked"
  <2>1. order' = order /\ started' = started /\ (Exists(o)' <=> Exists(o))
    OBVIOUS
  <2>2. CASE ~Exists(o)
    BY <2>1, <2>2 DEF LateInv
  <2>3. CASE Exists(o)
    <3>1. order[o].run \in Runs /\ order[o].attempt \in Attempts /\ o <= started
      BY <2>3 DEF LateInv
    <3> QED
      BY <2>1, <2>3, <3>1 DEF LateInv, Open, Running
  <2> QED
    BY <2>2, <2>3
<1>2. ASSUME NEW r \in Runs, NEW k \in Attempts
      PROVE  pc'[r][k] # "idle" => status'[r] # "none"
  BY DEF LateInv
<1>3. AtMostOneLateOrder'
  BY DEF LateInv, AtMostOneLateOrder, Exists
<1> QED
  BY <1>1, <1>2, <1>3 DEF LateInv

(* A start that is late is the first of its attempt: were there another,   *)
(* the attempt would not be past a check.                                  *)
LEMMA StartOrderLateInv ==
    ASSUME TypeOK, LateInv, NEW r \in Runs, NEW k \in Attempts, StartOrder(r, k)
    PROVE  LateInv'
<1> DEFINE new == started + 1
<1> DEFINE rec == [run |-> r, attempt |-> k, born |-> clock, late |-> ~Open(r)]
<1>0. rec.run = r /\ rec.attempt = k /\ (rec.late <=> ~Open(r))
  OBVIOUS
<1> HIDE DEF rec
<1>1. /\ new \in Orders
      /\ started \in Nat
      /\ \A o \in Orders : o \in Nat
  BY ConstantsAssumption DEF TypeOK, StartOrder, Orders
<1>2. /\ started' = new
      /\ orderState' = [orderState EXCEPT ![new] = "open"]
      /\ order' = [order EXCEPT ![new] = rec]
      /\ pc[r][k] = "checked"
      /\ pc' = [pc EXCEPT ![r][k] = "loop"]
      /\ UNCHANGED <<status, mark>>
  BY DEF StartOrder, serverVars, rec
<1>3. /\ \A o \in Orders : o = new => Exists(o)'
      /\ order'[new] = rec
      /\ \A o \in Orders : o # new => (Exists(o)' <=> Exists(o)) /\ order'[o] = order[o]
  <2>1. order \in [Orders -> OrderRecords] /\ orderState \in [Orders -> OrderStates]
    BY DEF TypeOK
  <2>2. orderState'[new] = "open"
    BY <1>1, <1>2, <2>1
  <2>3. order'[new] = rec
    BY <1>1, <1>2, <2>1
  <2>4. \A o \in Orders : o # new => orderState'[o] = orderState[o] /\ order'[o] = order[o]
    BY <1>2, <2>1
  <2> QED
    BY <2>2, <2>3, <2>4 DEF Exists
<1>4. \A q \in Runs, j \in Attempts :
         IF q = r /\ j = k THEN pc'[q][j] = "loop" ELSE pc'[q][j] = pc[q][j]
  BY <1>2 DEF TypeOK
<1>5. \A q \in Runs : (Open(q)' <=> Open(q)) /\ status'[q] = status[q]
  BY <1>2 DEF Open, Running
<1>6. status[r] # "none"
  BY <1>2 DEF LateInv
<1>7. ASSUME NEW o \in Orders
      PROVE  /\ Exists(o)' <=> o <= started'
             /\ Exists(o)' => order'[o].run \in Runs /\ order'[o].attempt \in Attempts
             /\ Exists(o)' /\ order'[o].late =>
                   /\ ~Open(order[o].run)'
                   /\ status'[order'[o].run] # "none"
                   /\ pc'[order'[o].run][order'[o].attempt] # "checked"
  <2>1. CASE o = new
    <3>1. /\ order'[o].run = r
          /\ order'[o].attempt = k
          /\ order'[o].late <=> ~Open(r)
      BY <1>0, <1>3, <2>1
    <3>2. Open(order[o].run)' <=> Open(r)
      BY <1>2, <3>1 DEF Open, Running
    <3>3. o <= started'
      BY <1>1, <1>2, <2>1
    <3> QED
      BY <1>1, <1>2, <1>3, <1>4, <1>5, <1>6, <2>1, <3>1, <3>2, <3>3
  <2>2. CASE o # new
    <3>1. o <= new <=> o <= started
      BY <1>1, <2>2
    <3>2. order'[o] = order[o] /\ (Exists(o)' <=> Exists(o))
      BY <1>3, <2>2
    <3>3. Exists(o) => order[o].run \in Runs /\ order[o].attempt \in Attempts
      BY DEF LateInv
    <3>4. Exists(o) => (Open(order[o].run)' <=> Open(order[o].run))
      BY <1>2, <3>2 DEF Open, Running
    <3> QED
      BY <1>2, <1>4, <1>5, <3>1, <3>2, <3>3, <3>4 DEF LateInv
  <2> QED
    BY <2>1, <2>2
<1>8. ASSUME NEW q \in Runs, NEW j \in Attempts
      PROVE  pc'[q][j] # "idle" => status'[q] # "none"
  BY <1>4, <1>5, <1>6 DEF LateInv
<1>9. ASSUME NEW o \in Orders, o # new, Exists(o), order[o].late
      PROVE  ~(order[o].run = r /\ order[o].attempt = k)
  BY <1>2, <1>9 DEF LateInv
<1>10. AtMostOneLateOrder'
  <2> SUFFICES ASSUME NEW o \in Orders, NEW p \in Orders, Exists(o)', Exists(p)',
                      order'[o].late, order'[p].late,
                      order'[o].run = order'[p].run,
                      order'[o].attempt = order'[p].attempt
               PROVE  o = p
    BY DEF AtMostOneLateOrder
  <2>1. CASE o # new /\ p # new
    BY <1>3, <2>1 DEF LateInv, AtMostOneLateOrder
  <2>2. CASE o = new /\ p # new
    BY <1>0, <1>3, <1>9, <2>2
  <2>3. CASE o # new /\ p = new
    BY <1>0, <1>3, <1>9, <2>3
  <2> QED
    BY <2>1, <2>2, <2>3
<1> QED
  BY <1>7, <1>8, <1>10 DEF LateInv

(* A run that is not open never opens again, and no attempt of it is       *)
(* checked by what the run does.                                           *)
LEMMA RunStepLateInv ==
    ASSUME TypeOK, LateInv, MarkInv, NEW r \in Runs, RunStep(r)
    PROVE  LateInv'
<1>1. UNCHANGED <<order, started, orderState>>
  BY DEF RunStep, StartFresh, Resume, Pause, ExecutionTimeout, FirstTask, StopTask, CloseTask,
         LastTask, WindowOver, HeartbeatTimeout, StartAttempt, StopPublishing, orderVars
<1>2. ASSUME NEW q \in Runs
      PROVE  status[q] # "none" => status'[q] # "none" /\ (~Open(q) => ~Open(q)')
  <2>1. CASE StartFresh(r)
    BY <2>1 DEF StartFresh, Fresh, TypeOK, Open, Running
  <2>2. CASE Resume(r)
    BY <2>2 DEF Resume, Fresh, TypeOK, Open, Running
  <2>3. CASE ExecutionTimeout(r)
    BY <2>3 DEF ExecutionTimeout, TypeOK, Open, Running
  <2>4. CASE LastTask(r)
    BY <2>4 DEF LastTask, TypeOK, Open, Running
  <2>5. CASE FirstTask(r) \/ StopTask(r)
    BY <2>5 DEF FirstTask, StopTask, StopPublishing, TypeOK, Open, Running
  <2>6. CASE UNCHANGED <<status, mark>>
    BY <2>6 DEF Open, Running
  <2> QED
    BY <2>1, <2>2, <2>3, <2>4, <2>5, <2>6
       DEF RunStep, Pause, CloseTask, WindowOver, HeartbeatTimeout, StartAttempt, serverVars
<1>3. ASSUME NEW q \in Runs, NEW k \in Attempts
      PROVE  /\ pc'[q][k] = "checked" => pc[q][k] = "checked" \/ Open(q)
             /\ pc'[q][k] # "idle" => pc[q][k] # "idle" \/ status[q] # "none"
  <2>1. CASE StartAttempt(r)
    <3>1. attempt[r] \in Attempts /\ status[r] # "none"
      BY <2>1 DEF StartAttempt, Running, MarkInv, AttemptInv
    <3> QED
      BY <2>1, <3>1 DEF StartAttempt, TypeOK
  <2>2. CASE UNCHANGED pc
    BY <2>2
  <2> QED
    BY <2>1, <2>2
       DEF RunStep, StartFresh, Resume, Pause, ExecutionTimeout, FirstTask, StopTask, CloseTask,
           LastTask, WindowOver, HeartbeatTimeout, StopPublishing
<1> QED
  BY <1>1, <1>2, <1>3, QuietStepLateInv DEF Exists

(* Of an attempt's steps only a check of an open run leads to a start. *)
LEMMA AttemptStepLateInv ==
    ASSUME TypeOK, LateInv, NEW r \in Runs, NEW k \in Attempts, AttemptStep(r, k)
    PROVE  LateInv'
<1>1. CASE StartOrder(r, k)
  BY <1>1, StartOrderLateInv
<1>2. CASE ~StartOrder(r, k)
  <2>1. UNCHANGED <<order, started, orderState, status, mark>>
    BY <1>2 DEF AttemptStep, CheckCurrent, CheckNotCurrent, ReturnNil, ReturnStopping,
                StartOrderFails, AttemptDies, orderVars, serverVars
  <2>2. ASSUME NEW q \in Runs, NEW j \in Attempts
        PROVE  /\ pc'[q][j] = "checked" => pc[q][j] = "checked" \/ Open(q)
               /\ pc'[q][j] # "idle" => pc[q][j] # "idle" \/ status[q] # "none"
    BY <1>2 DEF AttemptStep, CheckCurrent, CheckNotCurrent, ReturnNil, ReturnStopping,
                StartOrderFails, AttemptDies, IsCurrent, TypeOK
  <2> QED
    BY <2>1, <2>2, QuietStepLateInv DEF Exists, Open, Running
<1> QED
  BY <1>1, <1>2

(* A terminated order still exists, and is as late as it was. *)
LEMMA CloseStepLateInv ==
    ASSUME TypeOK, LateInv, NEW r \in Runs, CloseStep(r)
    PROVE  LateInv'
<1>1. UNCHANGED <<status, mark, pc>>
  BY CloseStepLeavesRuns DEF serverVars
<1>2. UNCHANGED <<order, started>>
  BY DEF CloseStep, StartClosing, ListOpenOrders, TerminateOrder, CloseOrdersReturns,
         CloseOrdersFails, CloseOrdersDies, CloseOrdersTimeout, EndAttempt, orderVars
<1>3. ASSUME NEW o \in Orders PROVE Exists(o)' <=> Exists(o)
  <2>1. CASE UNCHANGED orderState
    BY <2>1 DEF Exists
  <2>2. ASSUME NEW p \in Orders, TerminateOrder(r, p)
        PROVE  Exists(o)' <=> Exists(o)
    BY <2>2 DEF TerminateOrder, Exists, TypeOK
  <2> QED
    BY <2>1, <2>2 DEF CloseStep, StartClosing, ListOpenOrders, CloseOrdersReturns,
         CloseOrdersFails, CloseOrdersDies, CloseOrdersTimeout, EndAttempt, orderVars
<1> QED
  BY <1>1, <1>2, <1>3, QuietStepLateInv DEF Open, Running

(* So every step keeps the invariant of late orders. *)
LEMMA NextLateInv == TypeOK /\ MarkInv /\ LateInv /\ [Next]_vars => LateInv'
<1> SUFFICES ASSUME TypeOK, MarkInv, LateInv, [Next]_vars PROVE LateInv'
  OBVIOUS
<1>1. ASSUME NEW o \in Orders, OrderEnds(o)
      PROVE  LateInv'
  <2>1. \A p \in Orders : Exists(p)' <=> Exists(p)
    BY <1>1 DEF OrderEnds, Exists, TypeOK
  <2> QED
    BY <1>1, <2>1, QuietStepLateInv DEF OrderEnds, Open, Running, serverVars
<1>2. CASE Tick
  BY <1>2, QuietStepLateInv DEF Tick, Exists, Open, Running, serverVars, orderVars
<1>3. CASE UNCHANGED vars
  BY <1>3, QuietStepLateInv DEF vars, Exists, Open, Running, serverVars, orderVars
<1> QED
  BY <1>1, <1>2, <1>3, RunStepLateInv, AttemptStepLateInv, CloseStepLateInv DEF Next

(* Once its run has stopped publishing or ended, an attempt starts at most *)
(* one more order, whatever it was doing, however often it was superseded  *)
(* and however long it froze.                                              *)
THEOREM LateOrdersBounded == Spec => []AtMostOneLateOrder
<1>1. Init => LateInv
  BY InitLateInv
<1>2. TypeOK /\ MarkInv /\ LateInv /\ [Next]_vars => LateInv'
  BY NextLateInv
<1>3. LateInv => AtMostOneLateOrder
  BY DEF LateInv
<1> QED
  BY <1>1, <1>2, <1>3, TypeCorrect, MarkInvariant, PTL DEF Spec
-----------------------------------------------------------------------------
(* Runs are started in order, and only the latest one can be Running. *)
RunInv ==
    /\ \A r \in Runs : status[r] = "none" => stage[r] = "new" /\ ~signalled[r]
    /\ \A q, r \in Runs : q < r /\ status[r] # "none" => status[q] # "none" /\ ~Running(q)

(* No run has started at first. *)
LEMMA InitRunInv == Init => RunInv
BY DEF Init, RunInv

(* Neither attempts nor CloseOrders touch the runs themselves. *)
LEMMA AttemptStepLeavesRuns ==
    ASSUME NEW r \in Runs, NEW k \in Attempts, AttemptStep(r, k)
    PROVE  UNCHANGED <<clock, serverVars, closeVars>>
BY DEF AttemptStep, CheckCurrent, CheckNotCurrent, ReturnNil, ReturnStopping, StartOrder,
       StartOrderFails, AttemptDies

(* The server's starts, ends and workflow tasks: a new run takes the place *)
(* of the live one, and only a live run moves.                             *)
LEMMA RunStepRunInv ==
    ASSUME TypeOK, RunInv, NEW r \in Runs, RunStep(r)
    PROVE  RunInv'
<1> USE DEF TypeOK, RunInv, Running, serverVars, Runs
<1>1. CASE StartFresh(r)
  BY <1>1, ConstantsAssumption DEF StartFresh, Fresh
<1>2. CASE Resume(r)
  <2>1. /\ status[r] = "none"
        /\ \A q \in Runs : q < r => status[q] # "none"
        /\ UNCHANGED <<stage, signalled>>
    BY <1>2 DEF Resume, Fresh
  <2>2. PICK q \in Runs :
           /\ status[q] = "running"
           /\ status' = [status EXCEPT ![q] = "killed", ![r] = "running"]
    BY <1>2 DEF Resume
  <2>3. \A p \in Runs : p \in Nat
    BY ConstantsAssumption
  <2>4. ASSUME NEW p \in Runs
        PROVE  status'[p] = IF p = r THEN "running" ELSE IF p = q THEN "killed" ELSE status[p]
    BY <2>2
  <2>5. ASSUME NEW p \in Runs PROVE status[p] # "none" => p <= q
    BY <2>2, <2>3
  <2>6. q < r
    BY <2>1, <2>2, <2>3
  <2>7. ASSUME NEW p \in Runs, status'[p] = "none"
        PROVE  stage'[p] = "new" /\ ~signalled'[p]
    BY <2>1, <2>4, <2>7
  <2>8. ASSUME NEW p \in Runs, NEW s \in Runs, p < s, status'[s] # "none"
        PROVE  status'[p] # "none" /\ status'[p] # "running"
    <3>1. p # r
      BY <2>1, <2>3, <2>4, <2>5, <2>6, <2>8
    <3>2. status[p] # "none"
      BY <2>1, <2>2, <2>4, <2>8
    <3>3. p = q \/ status[p] # "running"
      BY <2>2, <2>3, <2>5, <3>2
    <3> QED
      BY <2>4, <3>1, <3>2, <3>3
  <2> QED
    BY <2>7, <2>8
<1>3. CASE Pause(r) \/ FirstTask(r) \/ StopTask(r) \/ CloseTask(r)
  <2>1. status' = status /\ status[r] # "none"
    BY <1>3 DEF Pause, FirstTask, StopTask, CloseTask, StopPublishing
  <2>2. \A q \in Runs : q # r => stage'[q] = stage[q] /\ signalled'[q] = signalled[q]
    BY <1>3 DEF Pause, FirstTask, StopTask, CloseTask, StopPublishing
  <2> QED
    BY <2>1, <2>2
<1>4. CASE ExecutionTimeout(r)
  BY <1>4 DEF ExecutionTimeout
<1>5. CASE LastTask(r)
  BY <1>5 DEF LastTask
<1>6. CASE UNCHANGED serverVars
  BY <1>6
<1> QED
  BY <1>1, <1>2, <1>3, <1>4, <1>5, <1>6
     DEF RunStep, WindowOver, HeartbeatTimeout, StartAttempt

(* So every step keeps the order of the runs. *)
LEMMA NextRunInv == TypeOK /\ RunInv /\ [Next]_vars => RunInv'
<1> SUFFICES ASSUME TypeOK, RunInv, [Next]_vars PROVE RunInv'
  OBVIOUS
<1>1. CASE UNCHANGED serverVars
  BY <1>1 DEF RunInv, Running, serverVars
<1>2. ASSUME NEW r \in Runs, CloseStep(r)
      PROVE  UNCHANGED serverVars
  BY <1>2, CloseStepLeavesRuns
<1>3. ASSUME NEW r \in Runs, NEW k \in Attempts, AttemptStep(r, k)
      PROVE  UNCHANGED serverVars
  BY <1>3, AttemptStepLeavesRuns
<1> QED
  BY <1>1, <1>2, <1>3, RunStepRunInv DEF Next, OrderEnds, Tick, vars

(* Runs follow each other: at most one is Running, and it is the latest. *)
THEOREM RunsInOrder == Spec => []RunInv
<1> QED
  BY InitRunInv, NextRunInv, TypeCorrect, PTL DEF Spec

-----------------------------------------------------------------------------
(* What Describe shows of the runs is a behaviour of PublishingRuns.        *)

(* A step that touches neither status, mark nor signals shows nothing. *)
LEMMA QuietStepShown ==
    ASSUME UNCHANGED <<status, mark, signalled>>
    PROVE  UNCHANGED Shown!runsVars
BY DEF Shown!runsVars, phase, Running

(* What the abstract guards say of the runs. *)
LEMMA PhaseOf ==
    ASSUME NEW r \in Runs
    PROVE  /\ Shown!Started(r) <=> status[r] # "none"
           /\ Shown!Live(r) <=> Running(r)
           /\ phase[r] = "open" <=> Open(r)
BY DEF phase, Shown!Started, Shown!Live, Open, Running

(* The next run to start is also the next one that Describe can show. *)
LEMMA FreshShown ==
    ASSUME NEW r \in Runs, Fresh(r)
    PROVE  Shown!Fresh(r)
BY PhaseOf DEF Fresh, Shown!Fresh, Shown!Runs, Runs

(* A run that has not started has nothing to show when it does. *)
LEMMA UnstartedUnmarked ==
    ASSUME RunInv, MarkInv, NEW r \in Runs, status[r] = "none"
    PROVE  mark[r] = "none"
BY DEF RunInv, MarkInv, MarkedInTheSameTask

(* A start, a signal, a stop or an end of a run is the abstract one, and    *)
(* everything else that happens to a run does not show.                    *)
LEMMA RunStepShown ==
    ASSUME TypeOK, RunInv, MarkInv, NEW r \in Runs, RunStep(r)
    PROVE  [Shown!RunsNext]_(Shown!runsVars)
<1>0. Shown!Runs = Runs
  BY DEF Shown!Runs, Runs
<1>1. /\ status \in [Runs -> Statuses] /\ mark \in [Runs -> Marks]
      /\ signalled \in [Runs -> BOOLEAN]
  BY DEF TypeOK
<1>2. CASE StartFresh(r)
  <2>1. /\ Fresh(r) /\ \A q \in Runs : ~Running(q)
        /\ status' = [status EXCEPT ![r] = "running"]
        /\ UNCHANGED <<mark, signalled>>
        /\ mark[r] = "none"
    BY <1>2, UnstartedUnmarked DEF StartFresh, Fresh
  <2>2. phase' = [phase EXCEPT ![r] = "open"]
    BY <1>1, <2>1 DEF phase, Running
  <2>3. Shown!Fresh(r) /\ \A q \in Runs : ~Shown!Live(q)
    BY <2>1, FreshShown, PhaseOf
  <2>4. Shown!StartFresh(r)
    BY <1>0, <2>1, <2>2, <2>3 DEF Shown!StartFresh
  <2> QED
    BY <1>0, <2>4 DEF Shown!RunsNext
<1>3. CASE Resume(r)
  <2>1. /\ Fresh(r) /\ UNCHANGED <<mark, signalled>> /\ mark[r] = "none"
    BY <1>3, UnstartedUnmarked DEF Resume, Fresh
  <2>2. PICK q \in Runs :
           /\ Running(q)
           /\ status' = [status EXCEPT ![q] = "killed", ![r] = "running"]
    BY <1>3 DEF Resume
  <2>3. phase' = [phase EXCEPT ![q] = "over", ![r] = "open"]
    BY <1>1, <2>1, <2>2 DEF phase, Running
  <2>4. Shown!Fresh(r) /\ Shown!Live(q)
    BY <2>1, <2>2, FreshShown, PhaseOf
  <2>5. Shown!Replace(r)
    BY <1>0, <2>1, <2>3, <2>4 DEF Shown!Replace
  <2> QED
    BY <1>0, <2>5 DEF Shown!RunsNext
<1>4. CASE Pause(r)
  <2>1. /\ Running(r) /\ signalled' = [signalled EXCEPT ![r] = TRUE]
        /\ UNCHANGED <<status, mark>>
    BY <1>4 DEF Pause
  <2>2. {q \in Runs : signalled'[q]} = {q \in Runs : signalled[q]} \union {r}
    BY <1>1, <2>1
  <2>3. UNCHANGED phase
    BY <2>1 DEF phase, Running
  <2>4. Shown!Signal(r)
    BY <2>1, <2>2, <2>3, PhaseOf DEF Shown!Signal
  <2> QED
    BY <1>0, <2>4 DEF Shown!RunsNext
<1>5. CASE ExecutionTimeout(r) \/ LastTask(r)
  <2>1. PICK ended \in {"killed", "completed", "failed"} :
           status' = [status EXCEPT ![r] = ended]
    BY <1>5 DEF ExecutionTimeout, LastTask
  <2>2. Running(r) /\ UNCHANGED <<mark, signalled>>
    BY <1>5 DEF ExecutionTimeout, LastTask
  <2>3. phase' = [phase EXCEPT ![r] = "over"]
    BY <1>1, <2>1, <2>2 DEF phase, Running
  <2>4. Shown!End(r)
    BY <2>2, <2>3, PhaseOf DEF Shown!End
  <2> QED
    BY <1>0, <2>4 DEF Shown!RunsNext
<1>6. ASSUME NEW reason \in {"timeout", "paused"}, StopPublishing(r, reason),
             Running(r), stage[r] \in {"new", "publishing"}
      PROVE  Shown!RunsNext
  <2>1. /\ mark[r] = "none" /\ mark' = [mark EXCEPT ![r] = reason]
        /\ UNCHANGED <<status, signalled>>
    BY <1>6 DEF StopPublishing, MarkInv, MarkedInTheSameTask
  <2>2. phase' = [phase EXCEPT ![r] = "closing"] /\ phase[r] = "open"
    BY <1>1, <1>6, <2>1 DEF phase, Running
  <2>3. Shown!Stop(r)
    BY <2>1, <2>2 DEF Shown!Stop
  <2> QED
    BY <1>0, <2>3 DEF Shown!RunsNext
<1>7. CASE FirstTask(r) \/ StopTask(r)
  <2>1. \/ StopPublishing(r, "timeout") \/ StopPublishing(r, "paused")
        \/ UNCHANGED <<status, mark, signalled>>
    BY <1>7 DEF FirstTask, StopTask
  <2>2. Running(r) /\ stage[r] \in {"new", "publishing"}
    BY <1>7 DEF FirstTask, StopTask
  <2> QED
    BY <1>6, <2>1, <2>2, QuietStepShown
<1>8. CASE CloseTask(r) \/ WindowOver(r) \/ HeartbeatTimeout(r) \/ StartAttempt(r)
  BY <1>8, QuietStepShown DEF CloseTask, WindowOver, HeartbeatTimeout, StartAttempt, serverVars
<1> QED
  BY <1>2, <1>3, <1>4, <1>5, <1>7, <1>8 DEF RunStep

(* The runs, their marks and their signals, seen with one Describe at a     *)
(* time, are those of PublishingRuns: attempts, orders and CloseOrders     *)
(* stay out of sight.                                                      *)
THEOREM RunsAsShown == Spec => ShownRuns /\ Shown!RunsSpec
<1>1. Init => Shown!RunsInit
  BY DEF Init, Shown!RunsInit, Shown!Runs, Runs, phase
<1>2. TypeOK /\ RunInv /\ MarkInv /\ [Next]_vars => [Shown!RunsNext]_(Shown!runsVars)
  <2> SUFFICES ASSUME TypeOK, RunInv, MarkInv, [Next]_vars
               PROVE  [Shown!RunsNext]_(Shown!runsVars)
    OBVIOUS
  <2>1. CASE UNCHANGED serverVars
    BY <2>1, QuietStepShown DEF serverVars
  <2>2. ASSUME NEW r \in Runs, CloseStep(r)
        PROVE  UNCHANGED serverVars
    BY <2>2, CloseStepLeavesRuns
  <2>3. ASSUME NEW r \in Runs, NEW k \in Attempts, AttemptStep(r, k)
        PROVE  UNCHANGED serverVars
    BY <2>3, AttemptStepLeavesRuns
  <2> QED
    BY <2>1, <2>2, <2>3, RunStepShown DEF Next, OrderEnds, Tick, vars
<1>3. [Shown!RunsNext]_(Shown!runsVars)
      => [UNCHANGED <<status, mark, signalled>> \/ Shown!RunsNext]_(Shown!runsVars)
  OBVIOUS
<1> QED
  BY <1>1, <1>2, <1>3, TypeCorrect, RunsInOrder, MarkInvariant, PTL
     DEF Spec, ShownRuns, Shown!RunsSpec
=============================================================================
