-------------------------- MODULE PizzaOrders_proofs --------------------------
(***************************************************************************)
(* The safety of pinned orders and of their recovery, for any deployed     *)
(* builds, any number of requests, runs and faults.                        *)
(***************************************************************************)
EXTENDS PizzaOrders, FiniteSetTheorems, TLAPS

Statuses == {"none", "running", "completed", "failed", "terminated"}
Stages   == {"new", "describe", "history", "reset", "answered"}
Busy     == {"describe", "history", "reset"}

RequestRecords == [at : Stages, good : {0} \union Builds, base : {0} \union Runs,
                   point : Nat, made : {0} \union Runs]

(* The parts of PizzaTypeOK that the other invariants rest on. *)
RoutingTyped ==
    /\ served \subseteq Builds
    /\ current \in {0} \union Builds
    /\ ramp \in {0} \union Builds

OrderTyped ==
    /\ latest \in Runs
    /\ status \in [Runs -> Statuses]
    /\ build \in [Runs -> {0} \union Builds]
    /\ override \in [Runs -> {0} \union Builds]
    /\ history \in [Runs -> Seq(Steps)]
    /\ request \in [Requests -> RequestRecords]

TypeInv == RoutingTyped /\ OrderTyped

(* A run's history is what its build's pipeline begins with. *)
Follows(h, p) == Len(h) <= Len(p) /\ \A i \in 1..Len(h) : h[i] = p[i]

(* A run without a first task is empty, and so are the runs to come. *)
HistoryInv ==
    /\ \A r \in Runs : IF build[r] = 0 THEN history[r] = <<>>
                       ELSE Follows(history[r], Pipeline[build[r]])
    /\ \A r \in Runs : r > latest => build[r] = 0 /\ status[r] = "none"

(* Every reset goes back to the first task of a run that has completed it. *)
PointInv ==
    \A q \in Requests :
        /\ request[q].at \in {"history", "reset"} => request[q].base \in 1..latest
        /\ request[q].at = "reset" => request[q].point = 1 /\ history[request[q].base] # <<>>

(* The run that a request has made is pinned to the build it found. *)
GoodInv ==
    /\ \A r \in Runs : override[r] # 0 => build[r] \in {0, override[r]}
    /\ \A q \in Requests :
          /\ request[q].at \in Busy => request[q].good # 0
          /\ request[q].made # 0 => /\ request[q].at = "answered"
                                    /\ request[q].made <= latest
                                    /\ request[q].good # 0
                                    /\ override[request[q].made] = request[q].good

-----------------------------------------------------------------------------
(* The shapes of a step.                                                   *)

Quiet == UNCHANGED <<runVars, request>>

(* The status of an open run changes, or none does. *)
EndsRun(r) ==
    /\ UNCHANGED <<latest, build, override, history, request>>
    /\ \E s \in Statuses :
          /\ status' = [status EXCEPT ![r] = s]
          /\ s = status[r] \/ Open(r)

(* A request goes on, or is answered, without a reset. *)
Asks(q) ==
    /\ UNCHANGED runVars
    /\ request[q].at # "answered"
    /\ \E rec \in RequestRecords :
          /\ request' = [request EXCEPT ![q] = rec]
          /\ rec.made = request[q].made
          /\ rec.at \in {"history", "reset"}
             => rec.base = latest \/ (rec.base = request[q].base /\ request[q].at = "history")
          /\ rec.at = "reset" => rec.point = 1 /\ history[rec.base] # <<>>
          /\ rec.at \in Busy \union {"answered"}
          /\ \/ rec.good = request[q].good /\ (rec.at \in Busy => request[q].at \in Busy)
             \/ rec.at \in Busy /\ rec.good # 0 /\ request[q].at = "new"

(* A pipeline has four or five steps, and Done is the last. *)
LEMMA PipelineFacts ==
    ASSUME NEW b \in Builds
    PROVE  /\ Pipeline[b] \in Seq(Steps)
           /\ Len(Pipeline[b]) \in {4, 5}
           /\ Pipeline[b][Len(Pipeline[b])] = "Done"
<1>1. CASE b = 1
  <2>1. Pipeline[b] = <<"New", "Cook", "Out", "Done">>
    BY <1>1 DEF Pipeline
  <2> QED
    BY <2>1 DEF Steps
<1>2. CASE b = 2
  <2>1. Pipeline[b] = <<"New", "Cook", "QC", "Out", "Done">>
    BY <1>2 DEF Pipeline
  <2> QED
    BY <2>1 DEF Steps
<1>3. CASE b = 3
  <2>1. Pipeline[b] = <<"New", "Cook", "QC", "Drone", "Done">>
    BY <1>3 DEF Pipeline
  <2> QED
    BY <2>1 DEF Steps
<1> QED
  BY <1>1, <1>2, <1>3, PizzaAssumption

(* What a step can be: quiet, a step or the end of a run, or a request's. *)
LEMMA StepShapes ==
    ASSUME TypeInv, [PizzaNext]_pizzaVars
    PROVE  \/ Quiet
           \/ \E r \in Runs : NextStep(r) \/ EndsRun(r)
           \/ \E q \in Requests : Asks(q) \/ (request[q].at = "reset" /\ ResetWorkflow(q))
<1> USE DEF TypeInv, RoutingTyped, OrderTyped
<1>1. ASSUME NEW b \in Builds, Promote(b) \/ Ramp(b) \/ Sunset(b)
      PROVE  Quiet
  BY <1>1 DEF Promote, Ramp, Sunset, Quiet
<1>2. CASE Ramp(0) \/ ListOpenOrders \/ CloseOrdersReturns
  BY <1>2 DEF Ramp, ListOpenOrders, CloseOrdersReturns, Quiet
<1>3. CASE UNCHANGED pizzaVars
  BY <1>3 DEF pizzaVars, Quiet, runVars
<1>4. ASSUME NEW r \in Runs, Complete(r)
      PROVE  EndsRun(r)
  BY <1>4 DEF Complete, EndsRun, Statuses
<1>5. ASSUME NEW r \in Runs, DroneWindowOver(r)
      PROVE  EndsRun(r)
  BY <1>5 DEF DroneWindowOver, EndsRun, Statuses
<1>6. ASSUME NEW r \in Runs, TerminateOrder(r)
      PROVE  EndsRun(r)
  <2>1. CASE Open(r)
    BY <1>6, <2>1 DEF TerminateOrder, EndsRun, Statuses
  <2>2. CASE ~Open(r)
    BY <1>6, <2>2 DEF TerminateOrder, EndsRun
  <2> QED
    BY <2>1, <2>2
<1>7. ASSUME NEW q \in Requests, Answered(q), UNCHANGED runVars, request[q].at # "answered"
      PROVE  Asks(q)
  <2> DEFINE rec == [request[q] EXCEPT !.at = "answered"]
  <2>1. request' = [request EXCEPT ![q] = rec]
    BY <1>7 DEF Answered
  <2>2. /\ rec \in RequestRecords /\ rec.made = request[q].made /\ rec.at = "answered"
        /\ rec.good = request[q].good
    BY DEF RequestRecords, Stages
  <2> QED
    BY <1>7, <2>1, <2>2 DEF Asks, Busy
<1>8. ASSUME NEW q \in Requests, CurrentBuild(q)
      PROVE  Asks(q)
  <2>1. CASE Answered(q)
    BY <1>7, <1>8, <2>1 DEF CurrentBuild
  <2>2. CASE ~Answered(q)
    <3> DEFINE rec == [request[q] EXCEPT !.at = "describe", !.good = current]
    <3>1. request' = [request EXCEPT ![q] = rec] /\ current # 0
      BY <1>8, <2>2 DEF CurrentBuild
    <3>2. /\ rec \in RequestRecords /\ rec.made = request[q].made /\ rec.at = "describe"
          /\ rec.good = current
      BY DEF RequestRecords, Stages
    <3> QED
      BY <1>8, <3>1, <3>2 DEF CurrentBuild, Asks, Busy
  <2> QED
    BY <2>1, <2>2
<1>9. ASSUME NEW q \in Requests, DescribeOrder(q)
      PROVE  Asks(q)
  <2> DEFINE rec == [request[q] EXCEPT !.at = "history", !.base = latest]
  <2>1. request' = [request EXCEPT ![q] = rec]
    BY <1>9 DEF DescribeOrder
  <2>2. /\ rec \in RequestRecords /\ rec.made = request[q].made /\ rec.at = "history"
        /\ rec.good = request[q].good /\ rec.base = latest
    BY DEF RequestRecords, Stages
  <2> QED
    BY <1>9, <2>1, <2>2 DEF DescribeOrder, Asks, Busy
<1>10. ASSUME NEW q \in Requests, ReadHistory(q)
       PROVE  Asks(q)
  <2>1. CASE Answered(q)
    BY <1>7, <1>10, <2>1 DEF ReadHistory
  <2>2. CASE ~Answered(q)
    <3> DEFINE rec == [request[q] EXCEPT !.at = "reset", !.point = 1]
    <3>1. request' = [request EXCEPT ![q] = rec] /\ history[request[q].base] # <<>>
      BY <1>10, <2>2 DEF ReadHistory, ResetPoint
    <3>2. /\ rec \in RequestRecords /\ rec.made = request[q].made /\ rec.at = "reset"
          /\ rec.good = request[q].good /\ rec.point = 1 /\ rec.base = request[q].base
      BY DEF RequestRecords, Stages
    <3> QED
      BY <1>10, <3>1, <3>2 DEF ReadHistory, Asks, Busy
  <2> QED
    BY <2>1, <2>2
<1>11. ASSUME NEW q \in Requests, RecoverFails(q)
       PROVE  Asks(q) \/ (request[q].at = "reset" /\ ResetWorkflow(q))
  BY <1>7, <1>11 DEF RecoverFails
<1>12. ASSUME NEW q \in Requests, ResetWithMove(q)
       PROVE  request[q].at = "reset" /\ ResetWorkflow(q)
  BY <1>12 DEF ResetWithMove
<1> QED
  BY <1>1, <1>2, <1>3, <1>4, <1>5, <1>6, <1>8, <1>9, <1>10, <1>11, <1>12
     DEF PizzaNext, OrderStep

(* A step of a run appends the next step of the build's pipeline. *)
LEMMA NextStepFacts ==
    ASSUME TypeInv, NEW r \in Runs, NextStep(r)
    PROVE  \E b \in Builds \intersect Targets(r) :
              /\ Len(history[r]) < Len(Pipeline[b])
              /\ build' = [build EXCEPT ![r] = b]
              /\ history' = [history EXCEPT ![r] =
                                Append(history[r], Pipeline[b][Len(history[r]) + 1])]
              /\ UNCHANGED <<latest, status, override, request>>
              /\ Open(r) /\ ~Failing(r)
<1>1. PICK b \in Targets(r) \intersect served :
            /\ Len(history[r]) < Len(Pipeline[b])
            /\ build' = [build EXCEPT ![r] = b]
            /\ history' = [history EXCEPT ![r] = Append(@, Pipeline[b][Len(@) + 1])]
  BY DEF NextStep
<1> QED
  BY <1>1 DEF NextStep, TypeInv, RoutingTyped, OrderTyped

(* A reset adds an empty run, and sets nothing else but the status. *)
LEMMA ResetFacts ==
    ASSUME TypeInv, PointInv, NEW q \in Requests, request[q].at = "reset", ResetWorkflow(q)
    PROVE  /\ latest + 1 \in Runs /\ latest' = latest + 1 /\ build' = build
           /\ status' = [r \in Runs |-> IF r = latest + 1 THEN "running"
                                        ELSE IF Open(r) THEN "terminated" ELSE status[r]]
           /\ history' = [history EXCEPT ![latest + 1] = <<>>]
           /\ override' = [override EXCEPT ![latest + 1] = request[q].good]
           /\ \E rec \in RequestRecords :
                 /\ request' = [request EXCEPT ![q] = rec]
                 /\ rec.at = "answered" /\ rec.made = latest + 1 /\ rec.good = request[q].good
<1>1. latest + 1 \in Runs /\ latest' = latest + 1 /\ build' = build
  BY DEF ResetWorkflow
<1>2. request[q].base \in Runs /\ request[q].point = 1
  BY PizzaAssumption DEF PointInv, TypeInv, RoutingTyped, OrderTyped, Runs
<1>3. SubSeq(history[request[q].base], 1, request[q].point - 1) = <<>>
  BY <1>2 DEF TypeInv, RoutingTyped, OrderTyped
<1> DEFINE rec == [request[q] EXCEPT !.at = "answered", !.made = latest + 1]
<1>4. request' = [request EXCEPT ![q] = rec]
  BY DEF ResetWorkflow
<1>5. /\ rec \in RequestRecords /\ rec.at = "answered" /\ rec.made = latest + 1
      /\ rec.good = request[q].good
  BY <1>1 DEF TypeInv, RoutingTyped, OrderTyped, RequestRecords, Stages
<1> QED
  BY <1>1, <1>3, <1>4, <1>5 DEF ResetWorkflow, PostReset
-----------------------------------------------------------------------------
(* Types.                                                                  *)

(* The types hold at first. *)
LEMMA TypeInvInit == PizzaInit => TypeInv
<1> SUFFICES ASSUME PizzaInit
             PROVE  TypeInv
  OBVIOUS
<1> USE PizzaAssumption DEF PizzaInit, Runs, Statuses, Stages
<1>1. /\ served \subseteq Builds /\ current \in {0} \union Builds /\ ramp \in {0} \union Builds
      /\ latest \in Runs
  OBVIOUS
<1>2. status \in [Runs -> Statuses] /\ history \in [Runs -> Seq(Steps)]
  OBVIOUS
<1>3. build \in [Runs -> {0} \union Builds] /\ override \in [Runs -> {0} \union Builds]
  OBVIOUS
<1>4. request \in [Requests -> RequestRecords]
  BY DEF NoRequest, RequestRecords
<1> QED
  BY <1>1, <1>2, <1>3, <1>4 DEF TypeInv, RoutingTyped, OrderTyped

(* Every step keeps the types. *)
LEMMA TypeInvStep ==
    ASSUME TypeInv, PointInv, [PizzaNext]_pizzaVars
    PROVE  TypeInv'
<1>1. RoutingTyped'
  <2> USE DEF TypeInv, RoutingTyped, routingVars
  <2>1. ASSUME NEW b \in Builds, (b \in served /\ (Promote(b) \/ Ramp(b))) \/ Sunset(b)
        PROVE  RoutingTyped'
    BY <2>1 DEF Promote, Ramp, Sunset
  <2>2. CASE Ramp(0)
    BY <2>2 DEF Ramp
  <2>3. CASE UNCHANGED routingVars
    BY <2>3
  <2>4. ASSUME NEW r \in Runs, OrderStep(r) \/ TerminateOrder(r)
        PROVE  UNCHANGED routingVars
    BY <2>4 DEF OrderStep, NextStep, Complete, DroneWindowOver, TerminateOrder
  <2>5. ASSUME NEW q \in Requests, \/ CurrentBuild(q) \/ DescribeOrder(q) \/ ReadHistory(q)
                                   \/ ResetWithMove(q) \/ RecoverFails(q)
        PROVE  UNCHANGED routingVars
    BY <2>5 DEF CurrentBuild, DescribeOrder, ReadHistory, ResetWithMove, RecoverFails,
                ResetWorkflow
  <2>6. CASE ListOpenOrders \/ CloseOrdersReturns
    BY <2>3, <2>6 DEF ListOpenOrders, CloseOrdersReturns
  <2>7. CASE UNCHANGED pizzaVars
    BY <2>3, <2>7 DEF pizzaVars
  <2> QED
    BY <2>1, <2>2, <2>3, <2>4, <2>5, <2>6, <2>7 DEF PizzaNext
<1>2. OrderTyped'
  <2> USE DEF TypeInv, RoutingTyped, OrderTyped
  <2>1. CASE Quiet
    BY <2>1 DEF Quiet, runVars
  <2>2. ASSUME NEW r \in Runs, NextStep(r)
        PROVE  OrderTyped'
    <3>1. PICK b \in Builds \intersect Targets(r) :
              /\ Len(history[r]) < Len(Pipeline[b])
              /\ build' = [build EXCEPT ![r] = b]
              /\ history' = [history EXCEPT ![r] =
                                Append(history[r], Pipeline[b][Len(history[r]) + 1])]
              /\ UNCHANGED <<latest, status, override, request>>
      BY <2>2, NextStepFacts
    <3>2. Pipeline[b][Len(history[r]) + 1] \in Steps
      BY <3>1, PipelineFacts
    <3>3. Append(history[r], Pipeline[b][Len(history[r]) + 1]) \in Seq(Steps)
      BY <3>2
    <3> QED
      BY <3>1, <3>3
  <2>3. ASSUME NEW r \in Runs, EndsRun(r)
        PROVE  OrderTyped'
    BY <2>3 DEF EndsRun
  <2>4. ASSUME NEW q \in Requests, Asks(q)
        PROVE  OrderTyped'
    BY <2>4 DEF Asks, runVars
  <2>5. ASSUME NEW q \in Requests, request[q].at = "reset", ResetWorkflow(q)
        PROVE  OrderTyped'
    <3>1. request[q].good \in {0} \union Builds
      BY DEF RequestRecords
    <3>2. status' \in [Runs -> Statuses]
      BY <2>5, ResetFacts DEF Statuses
    <3>3. history' \in [Runs -> Seq(Steps)]
      <4>1. history' = [history EXCEPT ![latest + 1] = <<>>]
        BY <2>5, ResetFacts
      <4>2. <<>> \in Seq(Steps)
        OBVIOUS
      <4> QED
        BY <4>1, <4>2
    <3> QED
      BY <2>5, <3>1, <3>2, <3>3, ResetFacts
  <2> QED
    BY <2>1, <2>2, <2>3, <2>4, <2>5, StepShapes
<1> QED
  BY <1>1, <1>2 DEF TypeInv, RoutingTyped, OrderTyped

(* No request has looked for a reset point at first. *)
LEMMA PointInvInit == PizzaInit => PointInv
  BY DEF PizzaInit, PointInv, NoRequest

(* The first task is the only reset point a request finds. *)
LEMMA PointInvStep ==
    ASSUME TypeInv, PointInv, [PizzaNext]_pizzaVars
    PROVE  PointInv'
<1> USE PizzaAssumption DEF TypeInv, RoutingTyped, OrderTyped, PointInv, Runs
<1>1. CASE Quiet
  BY <1>1 DEF Quiet, runVars
<1>2. ASSUME NEW r \in Runs, NextStep(r)
      PROVE  PointInv'
  <2>1. PICK b \in Builds \intersect Targets(r) :
            /\ history' = [history EXCEPT ![r] =
                              Append(history[r], Pipeline[b][Len(history[r]) + 1])]
            /\ UNCHANGED <<latest, request>>
    BY <1>2, NextStepFacts
  <2>2. \A s \in Runs : history[s] # <<>> => history'[s] # <<>>
    BY <2>1
  <2>3. \A q \in Requests : request[q].at = "reset" => request[q].base \in Runs
    OBVIOUS
  <2> QED
    BY <2>1, <2>2, <2>3
<1>3. ASSUME NEW r \in Runs, EndsRun(r)
      PROVE  PointInv'
  BY <1>3 DEF EndsRun
<1>4. ASSUME NEW q \in Requests, Asks(q)
      PROVE  PointInv'
  <2>1. UNCHANGED <<latest, history>>
    BY <1>4 DEF Asks, runVars
  <2>2. PICK rec \in RequestRecords :
            /\ request' = [request EXCEPT ![q] = rec]
            /\ rec.at \in {"history", "reset"}
               => rec.base = latest \/ (rec.base = request[q].base /\ request[q].at = "history")
            /\ rec.at = "reset" => rec.point = 1 /\ history[rec.base] # <<>>
    BY <1>4 DEF Asks
  <2>3. rec.at \in {"history", "reset"} => rec.base \in 1..latest
    <3>1. latest \in 1..latest
      OBVIOUS
    <3>2. request[q].at = "history" => request[q].base \in 1..latest
      OBVIOUS
    <3> QED
      BY <2>2, <3>1, <3>2, Zenon
  <2>4. ASSUME NEW p \in Requests
        PROVE  /\ request'[p].at \in {"history", "reset"} => request'[p].base \in 1..latest
               /\ request'[p].at = "reset" => /\ request'[p].point = 1
                                              /\ history[request'[p].base] # <<>>
    <3>1. CASE p = q
      BY <2>2, <2>3, <3>1
    <3>2. CASE p # q
      BY <2>2, <3>2
    <3> QED
      BY <3>1, <3>2
  <2> QED
    BY <2>1, <2>4
<1>5. ASSUME NEW q \in Requests, request[q].at = "reset", ResetWorkflow(q)
      PROVE  PointInv'
  <2>1. /\ latest' = latest + 1 /\ latest + 1 \in Runs
        /\ history' = [history EXCEPT ![latest + 1] = <<>>]
    BY <1>5, ResetFacts
  <2>2. PICK rec \in RequestRecords : request' = [request EXCEPT ![q] = rec]
                                      /\ rec.at = "answered"
    BY <1>5, ResetFacts
  <2> QED
    BY <2>1, <2>2
<1> QED
  BY <1>1, <1>2, <1>3, <1>4, <1>5, StepShapes
-----------------------------------------------------------------------------
(* Histories.                                                              *)

(* A history that follows a pipeline does so after its next step. *)
LEMMA FollowsAppend ==
    ASSUME NEW h \in Seq(Steps), NEW p \in Seq(Steps), Follows(h, p), Len(h) < Len(p)
    PROVE  Follows(Append(h, p[Len(h) + 1]), p)
<1> DEFINE g == Append(h, p[Len(h) + 1])
<1>1. p[Len(h) + 1] \in Steps
  OBVIOUS
<1>2. Len(g) = Len(h) + 1 /\ g[Len(h) + 1] = p[Len(h) + 1]
      /\ \A i \in 1..Len(h) : g[i] = h[i]
  BY <1>1
<1> QED
  BY <1>2 DEF Follows

(* No run has a history at first. *)
LEMMA HistoryInvInit == PizzaInit => HistoryInv
  BY DEF PizzaInit, HistoryInv

(* Every step keeps the histories to the pipelines of their builds. *)
LEMMA HistoryInvStep ==
    ASSUME TypeInv, PointInv, HistoryInv, [PizzaNext]_pizzaVars
    PROVE  HistoryInv'
<1> USE PizzaAssumption DEF TypeInv, RoutingTyped, OrderTyped, Runs
<1>1. CASE Quiet
  BY <1>1 DEF Quiet, runVars, HistoryInv
<1>2. ASSUME NEW r \in Runs, NextStep(r)
      PROVE  HistoryInv'
  <2>1. PICK b \in Builds \intersect Targets(r) :
            /\ Len(history[r]) < Len(Pipeline[b])
            /\ build' = [build EXCEPT ![r] = b]
            /\ history' = [history EXCEPT ![r] =
                              Append(history[r], Pipeline[b][Len(history[r]) + 1])]
            /\ UNCHANGED <<latest, status, override, request>>
            /\ Open(r)
    BY <1>2, NextStepFacts
  <2>2. Follows(history[r], Pipeline[b])
    <3>1. CASE build[r] = 0
      <4>1. history[r] = <<>>
        BY <3>1 DEF HistoryInv
      <4>2. Len(history[r]) = 0
        BY <4>1
      <4>3. Len(Pipeline[b]) \in Nat
        BY <2>1, PipelineFacts
      <4> QED
        BY <4>2, <4>3 DEF Follows
    <3>2. CASE build[r] # 0
      <4>1. b = build[r]
        BY <2>1, <3>2 DEF Targets
      <4> QED
        BY <3>2, <4>1 DEF HistoryInv
    <3> QED
      BY <3>1, <3>2
  <2>3. Follows(history'[r], Pipeline[b])
    BY <2>1, <2>2, PipelineFacts, FollowsAppend
  <2>4. b # 0
    BY <2>1
  <2>5. r <= latest
    BY <2>1 DEF Open, HistoryInv
  <2>6. ASSUME NEW s \in Runs
        PROVE  /\ IF build'[s] = 0 THEN history'[s] = <<>>
                  ELSE Follows(history'[s], Pipeline[build'[s]])
               /\ s > latest => build'[s] = 0 /\ status[s] = "none"
    <3>1. CASE s = r
      BY <2>1, <2>3, <2>4, <2>5, <3>1
    <3>2. CASE s # r
      <4>1. build'[s] = build[s] /\ history'[s] = history[s]
        BY <2>1, <3>2
      <4> QED
        BY <4>1 DEF HistoryInv
    <3> QED
      BY <3>1, <3>2
  <2> QED
    BY <2>1, <2>6 DEF HistoryInv
<1>3. ASSUME NEW r \in Runs, EndsRun(r)
      PROVE  HistoryInv'
  <2>1. UNCHANGED <<latest, build, history>>
    BY <1>3 DEF EndsRun
  <2>2. \A s \in Runs : s > latest => status'[s] = "none"
    BY <1>3 DEF EndsRun, Open, HistoryInv
  <2> QED
    BY <2>1, <2>2 DEF HistoryInv
<1>4. ASSUME NEW q \in Requests, Asks(q)
      PROVE  HistoryInv'
  BY <1>4 DEF Asks, runVars, HistoryInv
<1>5. ASSUME NEW q \in Requests, request[q].at = "reset", ResetWorkflow(q)
      PROVE  HistoryInv'
  <2>1. /\ latest' = latest + 1 /\ build' = build /\ latest + 1 \in Runs
        /\ history' = [history EXCEPT ![latest + 1] = <<>>]
    BY <1>5, ResetFacts
  <2>2. build[latest + 1] = 0
    BY <2>1 DEF HistoryInv
  <2>3. ASSUME NEW r \in Runs, r > latest + 1
        PROVE  build[r] = 0 /\ status'[r] = "none"
    <3>1. build[r] = 0 /\ status[r] = "none" /\ r # latest + 1
      BY <2>3 DEF HistoryInv
    <3>2. status' = [s \in Runs |-> IF s = latest + 1 THEN "running"
                                    ELSE IF Open(s) THEN "terminated" ELSE status[s]]
      BY <1>5, ResetFacts
    <3> QED
      BY <3>1, <3>2 DEF Open
  <2>4. ASSUME NEW s \in Runs
        PROVE  IF build[s] = 0 THEN history'[s] = <<>>
               ELSE Follows(history'[s], Pipeline[build[s]])
    <3>1. CASE s = latest + 1
      BY <2>1, <2>2, <3>1
    <3>2. CASE s # latest + 1
      <4>1. history'[s] = history[s]
        BY <2>1, <3>2
      <4> QED
        BY <4>1 DEF HistoryInv
    <3> QED
      BY <3>1, <3>2
  <2> QED
    BY <2>1, <2>3, <2>4 DEF HistoryInv
<1> QED
  BY <1>1, <1>2, <1>3, <1>4, <1>5, StepShapes
-----------------------------------------------------------------------------
(* The build that a recovered run is pinned to.                            *)

(* No run has an override at first. *)
LEMMA GoodInvInit == PizzaInit => GoodInv
  BY DEF PizzaInit, GoodInv, NoRequest, Busy

(* Every step keeps recovered runs on the build of their request. *)
LEMMA GoodInvStep ==
    ASSUME TypeInv, PointInv, HistoryInv, GoodInv, [PizzaNext]_pizzaVars
    PROVE  GoodInv'
<1> USE PizzaAssumption DEF TypeInv, RoutingTyped, OrderTyped, Runs
<1>1. CASE Quiet
  BY <1>1 DEF Quiet, runVars, GoodInv
<1>2. ASSUME NEW r \in Runs, NextStep(r)
      PROVE  GoodInv'
  <2>1. PICK b \in Builds \intersect Targets(r) :
            /\ build' = [build EXCEPT ![r] = b]
            /\ UNCHANGED <<latest, status, override, request>>
    BY <1>2, NextStepFacts
  <2>2. override[r] # 0 => b = override[r]
    BY <2>1 DEF Targets, GoodInv
  <2>3. \A s \in Runs : override[s] # 0 => build'[s] \in {0, override[s]}
    BY <2>1, <2>2 DEF GoodInv
  <2> QED
    BY <2>1, <2>3 DEF GoodInv
<1>3. ASSUME NEW r \in Runs, EndsRun(r)
      PROVE  GoodInv'
  BY <1>3 DEF EndsRun, GoodInv
<1>4. ASSUME NEW q \in Requests, Asks(q)
      PROVE  GoodInv'
  <2>1. UNCHANGED <<latest, build, override>> /\ request[q].at # "answered"
    BY <1>4 DEF Asks, runVars
  <2>2. PICK rec \in RequestRecords :
            /\ request' = [request EXCEPT ![q] = rec]
            /\ rec.made = request[q].made
            /\ \/ rec.good = request[q].good /\ (rec.at \in Busy => request[q].at \in Busy)
               \/ rec.at \in Busy /\ rec.good # 0
    BY <1>4 DEF Asks
  <2>3. rec.made = 0
    BY <2>1, <2>2 DEF GoodInv
  <2>4. rec.at \in Busy => rec.good # 0
    BY <2>2 DEF GoodInv
  <2>5. ASSUME NEW p \in Requests
        PROVE  /\ request'[p].at \in Busy => request'[p].good # 0
               /\ request'[p].made # 0 => /\ request'[p].at = "answered"
                                          /\ request'[p].made <= latest
                                          /\ request'[p].good # 0
                                          /\ override[request'[p].made] = request'[p].good
    <3>1. CASE p = q
      BY <2>2, <2>3, <2>4, <3>1
    <3>2. CASE p # q
      <4>1. request'[p] = request[p]
        BY <2>2, <3>2
      <4> QED
        BY <4>1 DEF GoodInv
    <3> QED
      BY <3>1, <3>2
  <2> QED
    BY <2>1, <2>5 DEF GoodInv
<1>5. ASSUME NEW q \in Requests, request[q].at = "reset", ResetWorkflow(q)
      PROVE  GoodInv'
  <2>1. /\ latest' = latest + 1 /\ build' = build /\ latest + 1 \in Runs
        /\ override' = [override EXCEPT ![latest + 1] = request[q].good]
    BY <1>5, ResetFacts
  <2>2. PICK rec \in RequestRecords :
            /\ request' = [request EXCEPT ![q] = rec]
            /\ rec.at = "answered" /\ rec.made = latest + 1 /\ rec.good = request[q].good
    BY <1>5, ResetFacts
  <2>3. request[q].good # 0 /\ build[latest + 1] = 0
    <3>1. request[q].good # 0
      BY <1>5 DEF GoodInv, Busy
    <3>2. build[latest + 1] = 0
      BY <2>1 DEF HistoryInv
    <3> QED
      BY <3>1, <3>2
  <2>4. ASSUME NEW s \in Runs, override'[s] # 0
        PROVE  build'[s] \in {0, override'[s]}
    <3>1. CASE s = latest + 1
      BY <2>1, <2>3, <3>1
    <3>2. CASE s # latest + 1
      <4>1. override'[s] = override[s] /\ build'[s] = build[s]
        BY <2>1, <3>2
      <4> QED
        BY <2>4, <4>1 DEF GoodInv
    <3> QED
      BY <3>1, <3>2
  <2>5. ASSUME NEW p \in Requests
        PROVE  /\ request'[p].at \in Busy => request'[p].good # 0
               /\ request'[p].made # 0 => /\ request'[p].at = "answered"
                                          /\ request'[p].made <= latest + 1
                                          /\ request'[p].good # 0
                                          /\ override'[request'[p].made] = request'[p].good
    <3>1. CASE p = q
      BY <2>1, <2>2, <2>3, <3>1
    <3>2. CASE p # q
      <4>1. request'[p] = request[p] /\ request[p].made \in {0} \union Runs
        BY <2>2, <3>2 DEF RequestRecords
      <4>2. request[p].made # 0 => /\ request[p].made <= latest
                                   /\ override'[request[p].made] = override[request[p].made]
        <5>1. request[p].made # 0 => request[p].made <= latest
          BY DEF GoodInv
        <5> QED
          BY <2>1, <4>1, <5>1
      <4> QED
        BY <4>1, <4>2 DEF GoodInv
    <3> QED
      BY <3>1, <3>2
  <2> QED
    BY <2>1, <2>4, <2>5 DEF GoodInv
<1> QED
  BY <1>1, <1>2, <1>3, <1>4, <1>5, StepShapes
-----------------------------------------------------------------------------
OrderInv == TypeInv /\ PointInv /\ HistoryInv /\ GoodInv

(* The invariants of an order, together. *)
LEMMA OrderInvHolds == PizzaSpec => []OrderInv
<1>1. PizzaInit => OrderInv
  BY TypeInvInit, PointInvInit, HistoryInvInit, GoodInvInit DEF OrderInv
<1>2. OrderInv /\ [PizzaNext]_pizzaVars => OrderInv'
  BY TypeInvStep, PointInvStep, HistoryInvStep, GoodInvStep DEF OrderInv
<1> QED
  BY <1>1, <1>2, PTL DEF PizzaSpec

(* The order, its recoveries and CloseOrders keep their types; a reset is  *)
(* only ever sent for a task that its base run has completed.              *)
THEOREM PizzaTypeCorrect == PizzaSpec => []PizzaTypeOK
<1> DEFINE CloseTyped == /\ closing \in {"idle", "terminating", "done"}
                         /\ toClose \subseteq Runs
                         /\ faults \in 0..MaxFaults
<1>1. PizzaInit => CloseTyped
  BY PizzaAssumption DEF PizzaInit
<1>2. ASSUME CloseTyped, [PizzaNext]_pizzaVars
      PROVE  CloseTyped'
  <2>1. CASE UNCHANGED closeVars /\ (UNCHANGED faults \/ Fault)
    BY <1>2, <2>1, PizzaAssumption DEF closeVars, Fault
  <2>2. ASSUME NEW b \in {0} \union Builds, Promote(b) \/ Ramp(b) \/ Sunset(b)
        PROVE  UNCHANGED closeVars /\ UNCHANGED faults
    BY <2>2 DEF Promote, Ramp, Sunset
  <2>3. ASSUME NEW r \in Runs, OrderStep(r)
        PROVE  UNCHANGED closeVars /\ UNCHANGED faults
    BY <2>3 DEF OrderStep, NextStep, Complete, DroneWindowOver
  <2>4. ASSUME NEW r \in Runs, TerminateOrder(r)
        PROVE  CloseTyped'
    BY <1>2, <2>4 DEF TerminateOrder
  <2>5. ASSUME NEW q \in Requests, CurrentBuild(q) \/ DescribeOrder(q) \/ ReadHistory(q)
        PROVE  UNCHANGED closeVars /\ UNCHANGED faults
    BY <2>5 DEF CurrentBuild, DescribeOrder, ReadHistory
  <2>6. ASSUME NEW q \in Requests, ResetWithMove(q) \/ RecoverFails(q)
        PROVE  UNCHANGED closeVars /\ (UNCHANGED faults \/ Fault)
    BY <2>6 DEF ResetWithMove, RecoverFails, ResetWorkflow
  <2>7. CASE ListOpenOrders \/ CloseOrdersReturns
    BY <1>2, <2>7, PizzaAssumption DEF ListOpenOrders, CloseOrdersReturns, Fault
  <2>8. CASE UNCHANGED pizzaVars
    BY <2>8, <2>1 DEF pizzaVars, closeVars
  <2> QED
    BY <1>2, <2>1, <2>2, <2>3, <2>4, <2>5, <2>6, <2>7, <2>8 DEF PizzaNext
<1>3. OrderInv /\ CloseTyped => PizzaTypeOK
  <2> SUFFICES ASSUME OrderInv, CloseTyped
               PROVE  PizzaTypeOK
    OBVIOUS
  <2>1. \A q \in Requests : request[q].at = "reset"
                             => request[q].point \in 1..Len(history[request[q].base])
    <3> SUFFICES ASSUME NEW q \in Requests, request[q].at = "reset"
                 PROVE  request[q].point \in 1..Len(history[request[q].base])
      OBVIOUS
    <3>1. /\ request[q].base \in Runs /\ request[q].point = 1
          /\ history[request[q].base] # <<>>
      BY PizzaAssumption DEF OrderInv, PointInv, TypeInv, OrderTyped, Runs
    <3>2. history[request[q].base] \in Seq(Steps)
      BY <3>1 DEF OrderInv, TypeInv, OrderTyped
    <3>3. Len(history[request[q].base]) \in Nat \ {0}
      BY <3>1, <3>2
    <3> QED
      BY <3>1, <3>3
  <2> QED
    BY <2>1 DEF PizzaTypeOK, OrderInv, TypeInv, RoutingTyped, OrderTyped, Statuses, Stages,
                RequestRecords
<1> QED
  <2>1. PizzaSpec => []CloseTyped
    BY <1>1, <1>2, PTL DEF PizzaSpec
  <2> QED
    BY <1>3, <2>1, OrderInvHolds, PTL

(* What follows a pipeline is a prefix of it. *)
LEMMA FollowsIsPrefix ==
    ASSUME NEW h \in Seq(Steps), NEW p \in Seq(Steps), Follows(h, p)
    PROVE  IsPrefix(h, p)
<1>1. Len(h) \in Nat /\ Len(h) <= Len(p)
  BY DEF Follows
<1>2. \A i \in 1..Len(h) : h[i] = p[i]
  BY DEF Follows
<1>3. SubSeq(h, 1, Len(h)) = [i \in 1..Len(h) |-> h[i]]
  BY <1>1
<1>4. SubSeq(p, 1, Len(h)) = [i \in 1..Len(h) |-> p[i]]
  BY <1>1
<1>5. SubSeq(h, 1, Len(h)) = SubSeq(p, 1, Len(h))
  BY <1>2, <1>3, <1>4
<1> QED
  BY <1>1, <1>5 DEF IsPrefix

(* The history of a run is always one that the code of its build writes,   *)
(* whatever builds are promoted and whenever runs are reset.               *)
THEOREM OrdersReplay == PizzaSpec => []Replayable
<1>1. OrderInv => Replayable
  <2> SUFFICES ASSUME OrderInv, NEW r \in Runs, build[r] # 0
               PROVE  IsPrefix(history[r], Pipeline[build[r]])
    BY DEF Replayable
  <2>1. /\ history[r] \in Seq(Steps) /\ Pipeline[build[r]] \in Seq(Steps)
        /\ Follows(history[r], Pipeline[build[r]])
    BY PipelineFacts DEF HistoryInv, OrderInv, TypeInv, OrderTyped
  <2> QED
    BY <2>1, FollowsIsPrefix
<1> QED
  BY <1>1, OrderInvHolds, PTL

(* A recovered run is on the build that was Current when its recovery read *)
(* it, and on no other: an override outlives every change of the routing.  *)
THEOREM RecoveredOnGood == PizzaSpec => []RecoveredRunsOnGood
<1>1. OrderInv => RecoveredRunsOnGood
  <2> SUFFICES ASSUME OrderInv, NEW q \in Requests, request[q].made # 0
               PROVE  build[request[q].made] \in {0, request[q].good}
    BY DEF RecoveredRunsOnGood
  <2>1. request[q].made \in Runs
    BY DEF OrderInv, TypeInv, OrderTyped, RequestRecords
  <2>2. override[request[q].made] = request[q].good /\ request[q].good # 0
    BY DEF OrderInv, GoodInv
  <2> QED
    BY <2>1, <2>2 DEF OrderInv, GoodInv
<1> QED
  BY <1>1, OrderInvHolds, PTL

-----------------------------------------------------------------------------
(* The stepper.                                                            *)

(* A run that is pinned has begun its pipeline. *)
BegunInv == \A r \in Runs : build[r] # 0 => history[r] # <<>>

(* A run is pinned by its first step and reset to a run that is not. *)
LEMMA BegunInvStep ==
    ASSUME OrderInv, BegunInv, [PizzaNext]_pizzaVars
    PROVE  BegunInv'
<1> USE PizzaAssumption DEF OrderInv, TypeInv, RoutingTyped, OrderTyped
<1>1. CASE UNCHANGED <<build, history>>
  BY <1>1 DEF BegunInv
<1>2. ASSUME NEW s \in Runs, NextStep(s)
      PROVE  BegunInv'
  <2>1. PICK b \in Builds :
           /\ build' = [build EXCEPT ![s] = b]
           /\ history' = [history EXCEPT ![s] = Append(@, Pipeline[b][Len(@) + 1])]
    BY <1>2 DEF NextStep, Targets
  <2>2. history'[s] # <<>>
    BY <2>1
  <2>3. \A r \in Runs : r # s => build'[r] = build[r] /\ history'[r] = history[r]
    BY <2>1
  <2> QED
    BY <2>2, <2>3 DEF BegunInv
<1>3. ASSUME NEW q \in Requests, request[q].at = "reset", ResetWorkflow(q)
      PROVE  BegunInv'
  <2>1. /\ history' = [history EXCEPT ![latest + 1] = <<>>]
        /\ latest + 1 \in Runs /\ build' = build
    BY <1>3, ResetFacts DEF ResetWorkflow
  <2>2. build[latest + 1] = 0
    BY <2>1 DEF HistoryInv, Runs
  <2> QED
    BY <2>1, <2>2 DEF BegunInv
<1> QED
  BY <1>1, <1>2, <1>3, StepShapes DEF Quiet, EndsRun, Asks, runVars

(* Pinned runs have begun, always. *)
LEMMA BegunInvHolds == PizzaSpec => []BegunInv
<1>1. PizzaInit => BegunInv
  BY DEF PizzaInit, BegunInv
<1>2. OrderInv /\ BegunInv /\ [PizzaNext]_pizzaVars => BegunInv'
  BY BegunInvStep
<1> QED
  BY <1>1, <1>2, OrderInvHolds, PTL DEF PizzaSpec

(* Only the last step of a pipeline is "Done". *)
LEMMA DoneIsLast ==
    ASSUME NEW b \in Builds, NEW i \in 1..Len(Pipeline[b]), Pipeline[b][i] = "Done"
    PROVE  i = Len(Pipeline[b])
<1>1. CASE b = 1
  <2>1. Pipeline[b] = <<"New", "Cook", "Out", "Done">>
    BY <1>1 DEF Pipeline
  <2> QED
    BY <2>1
<1>2. CASE b = 2
  <2>1. Pipeline[b] = <<"New", "Cook", "QC", "Out", "Done">>
    BY <1>2 DEF Pipeline
  <2> QED
    BY <2>1
<1>3. CASE b = 3
  <2>1. Pipeline[b] = <<"New", "Cook", "QC", "Drone", "Done">>
    BY <1>3 DEF Pipeline
  <2> QED
    BY <2>1
<1> QED
  BY <1>1, <1>2, <1>3, PizzaAssumption

(* A pinned run has some of its pipeline, and all of it when it is done. *)
LEMMA StepperFacts ==
    ASSUME OrderInv, BegunInv, NEW r \in Runs, build[r] # 0
    PROVE  /\ Len(history[r]) \in 1..Len(Pipeline[build[r]])
           /\ Done(r) <=> Len(history[r]) = Len(Pipeline[build[r]])
<1> DEFINE h == history[r]
           p == Pipeline[build[r]]
<1>1. /\ build[r] \in Builds /\ h \in Seq(Steps) /\ h # <<>>
      /\ Follows(h, p)
  BY DEF OrderInv, TypeInv, OrderTyped, HistoryInv, BegunInv
<1>2. p \in Seq(Steps) /\ Len(p) \in {4, 5} /\ p[Len(p)] = "Done"
  BY <1>1, PipelineFacts
<1>3. Len(h) \in 1..Len(p)
  BY <1>1, <1>2 DEF Follows
<1>4. Done(r) <=> h[Len(h)] = "Done"
  BY <1>1 DEF Done, Last
<1>5. h[Len(h)] = p[Len(h)]
  BY <1>1, <1>3 DEF Follows
<1> QED
  BY <1>1, <1>2, <1>3, <1>4, <1>5, DoneIsLast

(* The k-th of n steps is under way: fewer than n are done, and the bar is  *)
(* not full.                                                               *)
PartOfTrack(k, n) ==
    /\ Cardinality(0..(k - 2)) = k - 1
    /\ 0..(k - 2) # 0..(n - 1)
    /\ ((k - 1) * 100) \div (n - 1) # 100

(* A bar that is not at its last node is not full. *)
LEMMA TrackIsLonger ==
    ASSUME NEW n \in {4, 5}, NEW k \in 1..n, k # n
    PROVE  PartOfTrack(k, n)
<1>1. k \in {1, 2, 3, 4} /\ k < n
  OBVIOUS
<1>2. Cardinality(0..(k - 2)) = k - 1
  <2>1. k - 2 \in Int /\ 0 \in Int
    BY <1>1
  <2>2. Cardinality(0..(k - 2)) = IF 0 > k - 2 THEN 0 ELSE (k - 2) - 0 + 1
    BY <2>1, FS_Interval
  <2> QED
    BY <1>1, <2>2
<1>3. n - 1 \in 0..(n - 1) /\ n - 1 \notin 0..(k - 2)
  BY <1>1
<1>4. ((k - 1) * 100) \div (n - 1) # 100
  <2>1. CASE n = 4
    BY <1>1, <2>1
  <2>2. CASE n = 5
    BY <1>1, <2>2
  <2> QED
    BY <2>1, <2>2
<1> QED
  BY <1>2, <1>3, <1>4 DEF PartOfTrack

(* The bar is full exactly when the order is delivered, and the steps that *)
(* show as done are those that are, for every history of every pipeline.   *)
THEOREM StepperIsTruthful == PizzaSpec => []StepperTruthful
<1>1. ASSUME OrderInv, BegunInv, NEW r \in Runs, build[r] # 0
      PROVE  LET nodes == 0..(Len(Pipeline[build[r]]) - 1)
                 green == {i \in nodes : NodeClass(r, i) = "done"}
             IN  /\ FillPct(r) = 100 <=> green = nodes
                 /\ green # nodes => Cardinality(green) = CurrentStep(r)
  <2> DEFINE n     == Len(Pipeline[build[r]])
             k     == Len(history[r])
             nodes == 0..(n - 1)
             green == {i \in nodes : NodeClass(r, i) = "done"}
  <2>1. n \in {4, 5} /\ k \in 1..n /\ (Done(r) <=> k = n)
    BY <1>1, StepperFacts, PipelineFacts DEF OrderInv, TypeInv, OrderTyped
  <2>2. CASE k = n
    <3>1. green = nodes
      BY <2>1, <2>2 DEF NodeClass
    <3>2. FillPct(r) = 100
      <4>1. FillPct(r) = ((n - 1) * 100) \div (n - 1)
        BY <2>1, <2>2 DEF FillPct
      <4>2. CASE n = 4
        BY <4>1, <4>2
      <4>3. CASE n = 5
        BY <4>1, <4>3
      <4> QED
        BY <2>1, <4>2, <4>3
    <3> QED
      BY <3>1, <3>2
  <2>3. CASE k # n
    <3>1. \A i \in nodes : NodeClass(r, i) = "done" <=> i < k - 1
      BY <2>1, <2>3 DEF NodeClass, CurrentStep
    <3>2. green = 0..(k - 2)
      BY <2>1, <2>3, <3>1
    <3>3. /\ Cardinality(green) = k - 1
          /\ green # nodes
          /\ ((k - 1) * 100) \div (n - 1) # 100
      <4>1. PartOfTrack(k, n)
        <5> HIDE DEF n, k
        <5> QED
          BY <2>1, <2>3, TrackIsLonger
      <4>2. green = 0..(k - 2) /\ nodes = 0..(n - 1)
        BY <3>2
      <4> HIDE DEF green, nodes, n, k
      <4> QED
        BY <4>1, <4>2 DEF PartOfTrack
    <3>4. FillPct(r) # 100
      BY <2>1, <2>3, <3>3 DEF FillPct, CurrentStep
    <3> QED
      BY <3>3, <3>4 DEF CurrentStep
  <2> QED
    BY <2>2, <2>3
<1>2. OrderInv /\ BegunInv => StepperTruthful
  BY <1>1 DEF StepperTruthful
<1> QED
  BY <1>2, OrderInvHolds, BegunInvHolds, PTL
=============================================================================
