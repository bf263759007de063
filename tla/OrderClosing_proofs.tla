------------------------- MODULE OrderClosing_proofs -------------------------
(***************************************************************************)
(* Theorems about OrderPublishing, continued: which orders CloseOrders     *)
(* closes and which it spares.  What it never touches takes no more than   *)
(* the order of the runs and the clock; that it overlooks nothing takes    *)
(* order starts that are prompt (PromptStarts).                            *)
(***************************************************************************)
EXTENDS OrderPublishing_proofs

(* The facts of late orders that the sections below build on. *)
LEMMA LateInvariant == Spec => []LateInv
BY InitLateInv, NextLateInv, TypeCorrect, MarkInvariant, PTL DEF Spec
-----------------------------------------------------------------------------
(* CloseOrders.  Its bound is the time at which the run schedules it, when  *)
(* no newer run exists: an order of a newer run is never older than it.    *)

(* The times of a run, and where its CloseOrders can stand. *)
RunTimes ==
    \A r \in Runs :
        /\ stopAt[r] <= clock
        /\ stage[r] = "closing" => stopAt[r] + CloseDelay <= bound[r] /\ bound[r] <= clock
        /\ closing[r] # "none" => stage[r] = "closing"
        /\ closer[r] # "idle" => closing[r] \in {"started", "timedout"}
        /\ closer[r] # "terminating" => toClose[r] = {}

(* Every order was started by now, by a run that was. *)
OrderTimes ==
    \A o \in Orders :
        Exists(o) => order[o].born <= clock /\ status[order[o].run] # "none"

NewerAfterBound ==
    \A r \in Runs, o \in Orders :
        stage[r] = "closing" /\ Exists(o) /\ r < order[o].run => bound[r] <= order[o].born

ListedBeforeBound ==
    \A r \in Runs : \A o \in toClose[r] : Exists(o) /\ order[o].born < bound[r]

ClosingInv == RunTimes /\ OrderTimes /\ NewerAfterBound /\ ListedBeforeBound

(* Nothing is closing and there are no orders at first. *)
LEMMA InitClosingInv == Init => ClosingInv
BY ConstantsAssumption
   DEF Init, ClosingInv, RunTimes, OrderTimes, NewerAfterBound, ListedBeforeBound, Exists

(* What starts, pauses and ends runs leaves time, orders and the closing   *)
(* attempts alone, and what has started stays so.                          *)
LEMMA RunStepLeavesOrders ==
    ASSUME TypeOK, NEW r \in Runs, RunStep(r)
    PROVE  /\ UNCHANGED <<clock, closer, toClose, orderVars>>
           /\ \A q \in Runs : status[q] # "none" => status'[q] # "none"
<1>1. UNCHANGED <<clock, closer, toClose, orderVars>>
  BY DEF RunStep, StartFresh, Resume, Pause, ExecutionTimeout, FirstTask, StopTask, CloseTask,
         LastTask, WindowOver, HeartbeatTimeout, StartAttempt, StopPublishing, closeVars
<1>2. ASSUME NEW q \in Runs, status[q] # "none" PROVE status'[q] # "none"
  <2>1. CASE StartFresh(r)
    BY <1>2, <2>1 DEF StartFresh, TypeOK
  <2>2. CASE Resume(r)
    BY <1>2, <2>2 DEF Resume, TypeOK
  <2>3. CASE ExecutionTimeout(r) \/ LastTask(r)
    BY <1>2, <2>3 DEF ExecutionTimeout, LastTask, TypeOK
  <2>4. CASE UNCHANGED status
    BY <1>2, <2>4
  <2> QED
    BY <2>1, <2>2, <2>3, <2>4
       DEF RunStep, Pause, FirstTask, StopTask, CloseTask, WindowOver, HeartbeatTimeout,
           StartAttempt, StopPublishing, serverVars
<1> QED
  BY <1>1, <1>2

(* Of these only CloseTask takes a run to its closing stage. *)
LEMMA RunStepStages ==
    ASSUME TypeOK, NEW r \in Runs, RunStep(r), ~CloseTask(r)
    PROVE  /\ UNCHANGED <<bound, closing>>
           /\ \A q \in Runs : stage'[q] = "closing" <=> stage[q] = "closing"
           /\ \A q \in Runs : stopAt'[q] = stopAt[q] \/ (stopAt'[q] = clock /\ stage[q] # "closing")
<1>0. stage \in [Runs -> Stages] /\ stopAt \in [Runs -> Nat]
  BY DEF TypeOK
<1>1. CASE FirstTask(r) \/ StopTask(r)
  <2>1. /\ stage[r] # "closing" /\ UNCHANGED <<bound, closing>>
        /\ stage' = [stage EXCEPT ![r] = "publishing"] \/ stage' = [stage EXCEPT ![r] = "waiting"]
        /\ UNCHANGED stopAt \/ stopAt' = [stopAt EXCEPT ![r] = clock]
    BY <1>1 DEF FirstTask, StopTask, StopPublishing, closeVars
  <2>2. \A q \in Runs : stage'[q] = "closing" <=> stage[q] = "closing"
    BY <1>0, <2>1
  <2>3. ASSUME NEW q \in Runs
        PROVE  stopAt'[q] = stopAt[q] \/ (stopAt'[q] = clock /\ stage[q] # "closing")
    BY <1>0, <2>1
  <2> QED
    BY <2>1, <2>2, <2>3
<1>2. CASE UNCHANGED <<stage, stopAt, bound, closing>>
  <2>1. ASSUME NEW q \in Runs
        PROVE  /\ stage'[q] = "closing" <=> stage[q] = "closing"
               /\ stopAt'[q] = stopAt[q]
    BY <1>2
  <2> QED
    BY <1>2, <2>1
<1> QED
  BY <1>1, <1>2 DEF serverVars, closeVars, RunStep, StartFresh, Resume, Pause, ExecutionTimeout, LastTask, WindowOver,
                    HeartbeatTimeout, StartAttempt

(* The bound that CloseTask takes is no later than any newer run's orders: *)
(* there are none yet.                                                     *)
LEMMA RunStepClosingInv ==
    ASSUME TypeOK, RunInv, LateInv, ClosingInv, NEW r \in Runs, RunStep(r)
    PROVE  ClosingInv'
<1> USE DEF ClosingInv
<1>1. /\ UNCHANGED <<clock, closer, toClose, order, orderState>>
      /\ \A q \in Runs : status[q] # "none" => status'[q] # "none"
  BY RunStepLeavesOrders DEF orderVars
<1>2. \A o \in Orders : Exists(o) => order[o].run \in Runs
  BY DEF LateInv
<1>3. OrderTimes'
  BY <1>1, <1>2 DEF OrderTimes, Exists
<1>4. CASE CloseTask(r)
  <2>1. /\ stage[r] = "waiting" /\ status[r] = "running" /\ stopAt[r] + CloseDelay <= clock
        /\ stage' = [stage EXCEPT ![r] = "closing"]
        /\ bound' = [bound EXCEPT ![r] = clock]
        /\ closing' = [closing EXCEPT ![r] = "scheduled"]
        /\ UNCHANGED stopAt
    BY <1>4, ConstantsAssumption DEF CloseTask, TypeOK, Running
  <2>2. RunTimes'
    BY <1>1, <2>1 DEF RunTimes, TypeOK
  <2>3. NewerAfterBound'
    <3> SUFFICES ASSUME NEW q \in Runs, NEW o \in Orders,
                        stage'[q] = "closing", Exists(o)', q < order'[o].run
                 PROVE  bound'[q] <= order'[o].born
      BY DEF NewerAfterBound
    <3>1. Exists(o) /\ order'[o] = order[o] /\ order[o].run \in Runs
      BY <1>1, <1>2 DEF Exists
    <3>2. status[order[o].run] # "none"
      BY <3>1 DEF OrderTimes
    <3>3. ~(order[o].run > r)
      BY <2>1, <3>1, <3>2 DEF RunInv, Running, Runs
    <3>4. q # r
      BY <3>1, <3>3
    <3> QED
      BY <2>1, <3>1, <3>4 DEF NewerAfterBound, TypeOK
  <2>4. ListedBeforeBound'
    <3>1. toClose[r] = {}
      BY <2>1 DEF RunTimes
    <3>2. \A q \in Runs : q # r => bound'[q] = bound[q]
      BY <2>1 DEF TypeOK
    <3> QED
      BY <1>1, <3>1, <3>2 DEF ListedBeforeBound, Exists
  <2> QED
    BY <1>3, <2>2, <2>3, <2>4
<1>5. CASE ~CloseTask(r)
  <2>1. /\ UNCHANGED <<bound, closing>>
        /\ \A q \in Runs : stage'[q] = "closing" <=> stage[q] = "closing"
        /\ \A q \in Runs : stopAt'[q] = stopAt[q] \/ (stopAt'[q] = clock /\ stage[q] # "closing")
    BY <1>5, RunStepStages
  <2>2. RunTimes'
    <3> SUFFICES ASSUME NEW q \in Runs
                 PROVE  /\ stopAt'[q] <= clock'
                        /\ stage'[q] = "closing" =>
                              stopAt'[q] + CloseDelay <= bound'[q] /\ bound'[q] <= clock'
                        /\ closing'[q] # "none" => stage'[q] = "closing"
                        /\ closer'[q] # "idle" => closing'[q] \in {"started", "timedout"}
                        /\ closer'[q] # "terminating" => toClose'[q] = {}
      BY DEF RunTimes
    <3>1. clock \in Nat /\ clock <= clock
      BY DEF TypeOK
    <3> QED
      BY <1>1, <2>1, <3>1 DEF RunTimes
  <2>3. NewerAfterBound' /\ ListedBeforeBound'
    BY <1>1, <2>1 DEF NewerAfterBound, ListedBeforeBound, Exists
  <2> QED
    BY <1>3, <2>2, <2>3
<1> QED
  BY <1>4, <1>5
(* An order start adds one order, of this run and of this time. *)
LEMMA StartOrderAdds ==
    ASSUME TypeOK, LateInv, NEW r \in Runs, NEW k \in Attempts, StartOrder(r, k)
    PROVE  /\ started + 1 \in Orders /\ ~Exists(started + 1)
           /\ order'[started + 1].run = r /\ order'[started + 1].born = clock
           /\ orderState'[started + 1] = "open"
           /\ \A o \in Orders : o # started + 1 =>
                  order'[o] = order[o] /\ orderState'[o] = orderState[o]
           /\ status[r] # "none"
<1>1. started + 1 \in Orders /\ started \in Nat
  BY ConstantsAssumption DEF TypeOK, StartOrder, Orders
<1>2. ~Exists(started + 1)
  BY <1>1 DEF LateInv
<1>3. /\ orderState' = [orderState EXCEPT ![started + 1] = "open"]
      /\ order' = [order EXCEPT ![started + 1] =
                      [run |-> r, attempt |-> k, born |-> clock, late |-> ~Open(r)]]
      /\ pc[r][k] = "checked"
  BY DEF StartOrder
<1>4. order \in [Orders -> OrderRecords] /\ orderState \in [Orders -> OrderStates]
  BY DEF TypeOK
<1>5. order'[started + 1] = [run |-> r, attempt |-> k, born |-> clock, late |-> ~Open(r)]
  BY <1>1, <1>3, <1>4
<1>6. order'[started + 1].run = r /\ order'[started + 1].born = clock
  BY <1>5
<1>7. status[r] # "none"
  BY <1>3 DEF LateInv
<1> QED
  BY <1>1, <1>2, <1>3, <1>4, <1>6, <1>7

(* An order is started now, hence not before the bound of any run.         *)
LEMMA AttemptStepClosingInv ==
    ASSUME TypeOK, LateInv, ClosingInv, NEW r \in Runs, NEW k \in Attempts, AttemptStep(r, k)
    PROVE  ClosingInv'
<1> USE DEF ClosingInv
<1>1. UNCHANGED <<clock, status, stage, stopAt, bound, closing, closer, toClose>>
  BY AttemptStepLeavesRuns DEF serverVars, closeVars
<1>2. RunTimes'
  BY <1>1 DEF RunTimes
<1>3. CASE StartOrder(r, k)
  <2>1. /\ started + 1 \in Orders /\ ~Exists(started + 1)
        /\ order'[started + 1].run = r /\ order'[started + 1].born = clock
        /\ \A o \in Orders : o # started + 1 =>
               order'[o] = order[o] /\ orderState'[o] = orderState[o]
        /\ status[r] # "none"
    BY <1>3, StartOrderAdds
  <2>2. clock \in Nat
    BY DEF TypeOK
  <2>3. OrderTimes'
    BY <1>1, <2>1, <2>2 DEF OrderTimes, Exists
  <2>4. NewerAfterBound'
    BY <1>1, <2>1 DEF NewerAfterBound, RunTimes, Exists
  <2>5. ListedBeforeBound'
    BY <1>1, <2>1 DEF ListedBeforeBound, Exists, TypeOK
  <2> QED
    BY <1>2, <2>3, <2>4, <2>5
<1>4. CASE ~StartOrder(r, k)
  <2>1. UNCHANGED <<order, orderState>>
    BY <1>4 DEF AttemptStep, CheckCurrent, CheckNotCurrent, ReturnNil, ReturnStopping,
                StartOrderFails, AttemptDies, orderVars
  <2> QED
    BY <1>1, <1>2, <2>1 DEF OrderTimes, NewerAfterBound, ListedBeforeBound, Exists
<1> QED
  BY <1>3, <1>4

(* CloseOrders changes no start time and lists what its bound allows. *)
LEMMA CloseStepClosingInv ==
    ASSUME TypeOK, ClosingInv, NEW r \in Runs, CloseStep(r)
    PROVE  ClosingInv'
<1> USE DEF ClosingInv
<1>1. UNCHANGED <<clock, status, stage, stopAt, bound, order>>
  BY DEF CloseStep, StartClosing, ListOpenOrders, TerminateOrder, CloseOrdersReturns,
         CloseOrdersFails, CloseOrdersDies, CloseOrdersTimeout, EndAttempt, serverVars, orderVars
<1>2. \A o \in Orders : Exists(o)' <=> Exists(o)
  <2>1. CASE UNCHANGED orderState
    BY <2>1 DEF Exists
  <2>2. ASSUME NEW p \in Orders, TerminateOrder(r, p)
        PROVE  \A o \in Orders : Exists(o)' <=> Exists(o)
    BY <2>2 DEF TerminateOrder, Exists, TypeOK
  <2> QED
    BY <2>1, <2>2 DEF CloseStep, StartClosing, ListOpenOrders, CloseOrdersReturns,
         CloseOrdersFails, CloseOrdersDies, CloseOrdersTimeout, EndAttempt, orderVars
<1>3. OrderTimes' /\ NewerAfterBound'
  BY <1>1, <1>2 DEF OrderTimes, NewerAfterBound
<1>4. stage[r] = "closing"
  <2>1. closer[r] # "idle" \/ closing[r] # "none"
    BY DEF CloseStep, StartClosing, ListOpenOrders, TerminateOrder, CloseOrdersReturns,
           CloseOrdersFails, CloseOrdersDies, CloseOrdersTimeout
  <2> QED
    BY <2>1 DEF RunTimes
<1>5. ASSUME NEW q \in Runs, q # r
      PROVE  closing'[q] = closing[q] /\ closer'[q] = closer[q] /\ toClose'[q] = toClose[q]
  BY <1>5 DEF TypeOK, CloseStep, StartClosing, ListOpenOrders, TerminateOrder, EndAttempt,
              CloseOrdersReturns, CloseOrdersFails, CloseOrdersDies, CloseOrdersTimeout
<1>6. /\ closer'[r] # "idle" => closing'[r] \in {"started", "timedout"}
      /\ closer'[r] # "terminating" => toClose'[r] = {}
      /\ \A o \in toClose'[r] : o \in toClose[r] \/ (Exists(o) /\ order[o].born < bound[r])
  <2> USE DEF RunTimes
  <2>1. /\ toClose \in [Runs -> SUBSET Orders]
        /\ closer \in [Runs -> {"idle", "listing", "terminating"}]
        /\ closing \in [Runs -> Closings]
    BY DEF TypeOK
  <2>2. CASE ListOpenOrders(r)
    <3>1. /\ closer'[r] = "terminating" /\ closing'[r] = closing[r] /\ closer[r] # "idle"
          /\ toClose'[r] = {o \in Orders : orderState[o] = "open" /\ order[o].born < bound[r]}
      BY <2>1, <2>2 DEF ListOpenOrders
    <3> QED
      BY <3>1 DEF Exists
  <2>3. ASSUME NEW o \in Orders, TerminateOrder(r, o)
        PROVE  /\ closer'[r] = "terminating" /\ closing'[r] = closing[r] /\ closer[r] # "idle"
               /\ toClose'[r] \subseteq toClose[r]
    BY <2>1, <2>3 DEF TerminateOrder
  <2>4. CASE CloseOrdersReturns(r) \/ CloseOrdersFails(r) \/ CloseOrdersDies(r)
    <3>1. toClose'[r] = {} /\ closer'[r] = "idle"
      BY <2>1, <2>4 DEF CloseOrdersReturns, CloseOrdersFails, CloseOrdersDies, EndAttempt
    <3> QED
      BY <3>1
  <2>5. CASE StartClosing(r)
    <3>1. toClose'[r] = toClose[r] /\ toClose[r] = {} /\ closing'[r] = "started"
      BY <2>1, <2>5 DEF StartClosing
    <3> QED
      BY <3>1
  <2>6. CASE CloseOrdersTimeout(r)
    <3>1. toClose' = toClose /\ closer' = closer /\ closing'[r] = "timedout"
      BY <2>1, <2>6 DEF CloseOrdersTimeout
    <3> QED
      BY <3>1
  <2> QED
    BY <2>2, <2>3, <2>4, <2>5, <2>6 DEF CloseStep
<1>7. RunTimes'
  BY <1>1, <1>4, <1>5, <1>6 DEF RunTimes
<1>8. ListedBeforeBound'
  <2> SUFFICES ASSUME NEW q \in Runs, NEW o \in toClose'[q]
               PROVE  Exists(o)' /\ order'[o].born < bound'[q]
    BY DEF ListedBeforeBound
  <2>1. o \in Orders
    BY NextTypeOK DEF TypeOK, Next
  <2>2. CASE q = r
    BY <1>1, <1>2, <1>6, <2>1, <2>2 DEF ListedBeforeBound
  <2>3. CASE q # r
    BY <1>1, <1>2, <1>5, <2>1, <2>3 DEF ListedBeforeBound
  <2> QED
    BY <2>2, <2>3
<1> QED
  BY <1>3, <1>7, <1>8

(* So every step keeps the invariant of closing. *)
LEMMA NextClosingInv ==
    TypeOK /\ RunInv /\ LateInv /\ ClosingInv /\ [Next]_vars => ClosingInv'
<1> SUFFICES ASSUME TypeOK, RunInv, LateInv, ClosingInv, [Next]_vars PROVE ClosingInv'
  OBVIOUS
<1> USE DEF ClosingInv
<1>1. ASSUME NEW o \in Orders, OrderEnds(o)
      PROVE  ClosingInv'
  <2>1. /\ \A p \in Orders : Exists(p)' <=> Exists(p)
        /\ UNCHANGED <<clock, status, stage, stopAt, bound, closing, closer, toClose, order>>
    BY <1>1 DEF OrderEnds, Exists, TypeOK, serverVars, closeVars
  <2>2. \A r \in Runs : toClose[r] \subseteq Orders
    BY DEF TypeOK
  <2> QED
    BY <2>1, <2>2 DEF RunTimes, OrderTimes, NewerAfterBound, ListedBeforeBound
<1>2. CASE Tick
  <2>1. /\ clock' = clock + 1
        /\ UNCHANGED <<status, stage, stopAt, bound, closing, closer, toClose, order, orderState>>
    BY <1>2 DEF Tick, serverVars, closeVars, orderVars
  <2>2. \A t \in Nat : t <= clock => t <= clock'
    BY <2>1 DEF TypeOK
  <2>3. \A o \in Orders : order[o].born \in Nat
    BY DEF TypeOK, OrderRecords
  <2>4. RunTimes'
    BY <2>1, <2>2 DEF RunTimes, TypeOK
  <2> QED
    BY <2>1, <2>2, <2>3, <2>4 DEF OrderTimes, NewerAfterBound, ListedBeforeBound, Exists
<1>3. CASE UNCHANGED vars
  BY <1>3 DEF vars, serverVars, closeVars, orderVars,
              RunTimes, OrderTimes, NewerAfterBound, ListedBeforeBound, Exists
<1> QED
  BY <1>1, <1>2, <1>3, RunStepClosingInv, AttemptStepClosingInv, CloseStepClosingInv DEF Next

(* The invariant of closing, which needs no assumption on order starts. *)
THEOREM ClosingInvariant == Spec => []ClosingInv
<1> QED
  BY InitClosingInv, NextClosingInv, TypeCorrect, RunsInOrder, LateInvariant, PTL DEF Spec

(* A listed order is older than the bound, so no newer run started it. *)
LEMMA ListedNotNewer == TypeOK /\ LateInv /\ ClosingInv => NeverClosesNewer
<1> SUFFICES ASSUME TypeOK, LateInv, ClosingInv, NEW r \in Runs, NEW o \in toClose[r],
                    ~(order[o].run <= r)
             PROVE  FALSE
  BY DEF NeverClosesNewer
<1>1. o \in Orders /\ Exists(o) /\ order[o].born < bound[r]
  BY DEF TypeOK, ClosingInv, ListedBeforeBound
<1>2. order[o].run \in Runs /\ r < order[o].run /\ order[o].born \in Nat /\ bound[r] \in Nat
  <2>1. order[o].run \in Runs
    BY <1>1 DEF LateInv
  <2>2. order[o] \in OrderRecords /\ bound[r] \in Nat
    BY <1>1 DEF TypeOK
  <2>3. r < order[o].run
    BY <2>1, ConstantsAssumption DEF Runs
  <2> QED
    BY <2>1, <2>2, <2>3 DEF OrderRecords
<1>3. stage[r] = "closing"
  BY DEF ClosingInv, RunTimes, TypeOK
<1> QED
  BY <1>1, <1>2, <1>3 DEF ClosingInv, NewerAfterBound

(* CloseOrders never has an order of a newer run in hand, even if its      *)
(* attempt outlives its run and runs beside the publishing of the next.    *)
THEOREM NewerNeverClosed == Spec => []NeverClosesNewer
BY ListedNotNewer, TypeCorrect, LateInvariant, ClosingInvariant, PTL

(* An order is only terminated for its own run or for a newer one, after    *)
(* that run has waited out closeDelay.                                     *)
THEOREM ResumesKeepOrders == Spec => ResumeKeepsOrders
<1>1. ASSUME TypeOK, MarkInv, LateInv, ClosingInv, [Next]_vars,
             NEW o \in Orders, orderState[o] = "open", orderState'[o] = "terminated"
      PROVE  \E r \in Runs : /\ order[o].run <= r
                             /\ mark[r] # "none"
                             /\ clock >= stopAt[r] + CloseDelay
                             /\ stage[r] = "closing"
  <2>1. CASE UNCHANGED orderState
    BY <1>1, <2>1
  <2>2. ASSUME NEW r \in Runs, NEW p \in Orders, TerminateOrder(r, p)
        PROVE  \E q \in Runs : /\ order[o].run <= q
                               /\ mark[q] # "none"
                               /\ clock >= stopAt[q] + CloseDelay
                               /\ stage[q] = "closing"
    <3>1. p = o /\ o \in toClose[r] /\ closer[r] = "terminating"
      BY <1>1, <2>2 DEF TerminateOrder, TypeOK
    <3>2. stage[r] = "closing" /\ stopAt[r] + CloseDelay <= bound[r] /\ bound[r] <= clock
      BY <1>1, <3>1 DEF ClosingInv, RunTimes, TypeOK
    <3>3. clock >= stopAt[r] + CloseDelay
      BY <1>1, <3>2, ConstantsAssumption DEF TypeOK
    <3>4. mark[r] # "none"
      BY <1>1, <3>2 DEF MarkInv, MarkedInTheSameTask
    <3>5. order[o].run <= r
      BY <1>1, <3>1, ListedNotNewer DEF NeverClosesNewer
    <3> QED
      BY <3>2, <3>3, <3>4, <3>5
  <2>3. ASSUME NEW p \in Orders, OrderEnds(p)
        PROVE  orderState'[o] # "terminated"
    BY <1>1, <2>3 DEF OrderEnds, TypeOK
  <2>4. ASSUME NEW r \in Runs, NEW k \in Attempts, AttemptStep(r, k)
        PROVE  orderState'[o] # "terminated"
    <3>1. CASE StartOrder(r, k)
      BY <1>1, <3>1 DEF StartOrder, TypeOK
    <3>2. CASE ~StartOrder(r, k)
      BY <1>1, <2>4, <3>2 DEF AttemptStep, CheckCurrent, CheckNotCurrent, ReturnNil,
                              ReturnStopping, StartOrderFails, AttemptDies, orderVars
    <3> QED
      BY <3>1, <3>2
  <2>5. ASSUME NEW r \in Runs, CloseStep(r), \A p \in Orders : ~TerminateOrder(r, p)
        PROVE  UNCHANGED orderState
    BY <2>5 DEF CloseStep, StartClosing, ListOpenOrders, CloseOrdersReturns, EndAttempt,
                CloseOrdersFails, CloseOrdersDies, CloseOrdersTimeout, orderVars
  <2>6. ASSUME NEW r \in Runs, RunStep(r)
        PROVE  UNCHANGED orderState
    BY <1>1, <2>6, RunStepLeavesOrders DEF orderVars
  <2> QED
    BY <1>1, <2>1, <2>2, <2>3, <2>4, <2>5, <2>6 DEF Next, Tick, vars, orderVars
<1>2. TypeOK /\ MarkInv /\ LateInv /\ ClosingInv /\ [Next]_vars
      => [\A o \in Orders :
             orderState[o] = "open" /\ orderState'[o] = "terminated"
             => \E r \in Runs :
                   /\ order[o].run <= r
                   /\ mark[r] # "none"
                   /\ clock >= stopAt[r] + CloseDelay
                   /\ stage[r] = "closing"]_vars
  BY <1>1
<1> QED
  BY <1>2, TypeCorrect, MarkInvariant, LateInvariant, ClosingInvariant, PTL
     DEF Spec, ResumeKeepsOrders
-----------------------------------------------------------------------------
(* Prompt starts.  Time does not pass between the check of an attempt and   *)
(* its order start, so the orders of a run are all started by the time it  *)
(* stops publishing, which is closeDelay before the bound.                 *)

Stopped(r) == stage[r] \in {"waiting", "closing"}

(* An attempt past its check when a newer run, or its own, has stopped: it *)
(* has been so since then, and no time has passed.                         *)
ChecksBeforeStop ==
    \A q, r \in Runs, k \in Attempts :
        Stopped(r) /\ q <= r /\ pc[q][k] = "checked" => clock = stopAt[r]

OrdersBeforeStop ==
    \A r \in Runs, o \in Orders :
        Stopped(r) /\ Exists(o) /\ order[o].run <= r => order[o].born <= stopAt[r]

(* Of the orders of its own and of older runs, CloseOrders has all that    *)
(* are open in hand while it terminates, and none is open when it is done. *)
NoneOverlooked ==
    \A r \in Runs, o \in Orders :
        orderState[o] = "open" /\ order[o].run <= r =>
            /\ closer[r] = "terminating" => o \in toClose[r]
            /\ closing[r] # "succeeded"

PromptInv ==
    /\ ChecksBeforeStop
    /\ OrdersBeforeStop
    /\ NoneOverlooked
    /\ \A r \in Runs : status[r] = "completed" => closing[r] = "succeeded"

(* Nothing has stopped at first. *)
LEMMA InitPromptInv == Init => PromptInv
BY DEF Init, PromptInv, ChecksBeforeStop, OrdersBeforeStop, NoneOverlooked, Stopped

(* A run that closes has stopped a while ago. *)
LEMMA BoundAfterStop ==
    ASSUME TypeOK, ClosingInv, NEW r \in Runs,
           stage[r] = "closing" \/ closer[r] # "idle" \/ closing[r] # "none"
    PROVE  Stopped(r) /\ stopAt[r] < bound[r] /\ stopAt[r] < clock
<1>1. stage[r] = "closing"
  BY DEF ClosingInv, RunTimes
<1>2. stopAt[r] + CloseDelay <= bound[r] /\ bound[r] <= clock
  BY <1>1 DEF ClosingInv, RunTimes
<1> QED
  BY <1>1, <1>2, ConstantsAssumption DEF TypeOK, Stopped

(* A run stops now or did so before. *)
LEMMA RunStepStops ==
    ASSUME TypeOK, NEW r \in Runs, RunStep(r), NEW q \in Runs, Stopped(q)'
    PROVE  stopAt'[q] = clock \/ (Stopped(q) /\ stopAt'[q] = stopAt[q])
<1>0. stage \in [Runs -> Stages] /\ stopAt \in [Runs -> Nat]
  BY DEF TypeOK
<1>1. CASE FirstTask(r) \/ StopTask(r)
  <2>1. \/ stage' = [stage EXCEPT ![r] = "publishing"] /\ UNCHANGED stopAt
        \/ stage' = [stage EXCEPT ![r] = "waiting"] /\ stopAt' = [stopAt EXCEPT ![r] = clock]
    BY <1>1 DEF FirstTask, StopTask, StopPublishing
  <2> QED
    BY <1>0, <2>1 DEF Stopped
<1>2. CASE CloseTask(r)
  <2>1. stage' = [stage EXCEPT ![r] = "closing"] /\ stage[r] = "waiting" /\ UNCHANGED stopAt
    BY <1>2 DEF CloseTask
  <2> QED
    BY <1>0, <2>1 DEF Stopped
<1>3. CASE UNCHANGED <<stage, stopAt>>
  BY <1>3 DEF Stopped
<1> QED
  BY <1>1, <1>2, <1>3 DEF serverVars, RunStep, StartFresh, Resume, Pause, ExecutionTimeout,
                          LastTask, WindowOver, HeartbeatTimeout, StartAttempt
(* A run that stops now has no order and no check that is later than now. *)
LEMMA RunStepPromptInv ==
    ASSUME TypeOK, MarkInv, ClosingInv, PromptInv, NEW r \in Runs, RunStep(r)
    PROVE  PromptInv'
<1>1. UNCHANGED <<clock, closer, toClose, order, orderState>>
  BY RunStepLeavesOrders DEF orderVars
<1>2. ASSUME NEW q \in Runs, NEW k \in Attempts, pc'[q][k] = "checked"
      PROVE  pc[q][k] = "checked"
  <2>1. CASE StartAttempt(r)
    <3>1. attempt[r] \in Attempts
      BY <2>1 DEF StartAttempt, MarkInv, AttemptInv
    <3> QED
      BY <1>2, <2>1, <3>1 DEF StartAttempt, TypeOK
  <2>2. CASE UNCHANGED pc
    BY <1>2, <2>2
  <2> QED
    BY <2>1, <2>2
       DEF RunStep, StartFresh, Resume, Pause, ExecutionTimeout, FirstTask, StopTask, CloseTask,
           LastTask, WindowOver, HeartbeatTimeout, StopPublishing
<1>3. ChecksBeforeStop'
  <2> SUFFICES ASSUME NEW p \in Runs, NEW q \in Runs, NEW k \in Attempts,
                      Stopped(q)', p <= q, pc'[p][k] = "checked"
               PROVE  clock' = stopAt'[q]
    BY DEF ChecksBeforeStop
  <2> QED
    BY <1>1, <1>2, RunStepStops DEF PromptInv, ChecksBeforeStop
<1>4. OrdersBeforeStop'
  <2> SUFFICES ASSUME NEW q \in Runs, NEW o \in Orders,
                      Stopped(q)', Exists(o)', order'[o].run <= q
               PROVE  order'[o].born <= stopAt'[q]
    BY DEF OrdersBeforeStop
  <2>1. Exists(o) /\ order'[o] = order[o] /\ order[o].born <= clock
    BY <1>1 DEF Exists, ClosingInv, OrderTimes
  <2> QED
    BY <2>1, RunStepStops DEF PromptInv, OrdersBeforeStop
<1>5. CASE CloseTask(r)
  <2>1. closing' = [closing EXCEPT ![r] = "scheduled"] /\ status[r] = "running" /\ UNCHANGED status
    BY <1>5 DEF CloseTask, Running
  <2>2. \A q \in Runs : IF q = r THEN closing'[q] = "scheduled" ELSE closing'[q] = closing[q]
    BY <2>1 DEF TypeOK
  <2> QED
    BY <1>1, <1>3, <1>4, <2>1, <2>2 DEF PromptInv, NoneOverlooked
<1>6. CASE ~CloseTask(r)
  <2>1. UNCHANGED closing
    BY <1>6, RunStepStages
  <2>2. ASSUME NEW q \in Runs, status'[q] = "completed" PROVE closing'[q] = "succeeded"
    <3>1. CASE LastTask(r) \/ StartFresh(r) \/ ExecutionTimeout(r)
      BY <2>1, <2>2, <3>1 DEF LastTask, StartFresh, ExecutionTimeout, TypeOK, PromptInv
    <3>2. CASE Resume(r)
      BY <2>1, <2>2, <3>2 DEF Resume, TypeOK, PromptInv
    <3>3. CASE UNCHANGED status
      BY <2>1, <2>2, <3>3 DEF PromptInv
    <3> QED
      BY <1>6, <3>1, <3>2, <3>3 DEF serverVars, RunStep, Pause, FirstTask, StopTask, WindowOver,
                                    HeartbeatTimeout, StartAttempt, StopPublishing
  <2> QED
    BY <1>1, <1>3, <1>4, <2>1, <2>2 DEF PromptInv, NoneOverlooked
<1> QED
  BY <1>5, <1>6

(* An attempt that passes its check now is of a run that no newer run has  *)
(* followed and that has not stopped; one that starts an order was checked *)
(* at this same time.                                                      *)
LEMMA AttemptStepPromptInv ==
    ASSUME TypeOK, RunInv, MarkInv, LateInv, ClosingInv, PromptInv,
           NEW r \in Runs, NEW k \in Attempts, AttemptStep(r, k)
    PROVE  PromptInv'
<1>1. UNCHANGED <<clock, status, stage, stopAt, closing, closer, toClose>>
  BY AttemptStepLeavesRuns DEF serverVars, closeVars
<1>2. ASSUME NEW q \in Runs, NEW j \in Attempts, pc'[q][j] = "checked"
      PROVE  pc[q][j] = "checked" \/ Open(q)
  <2>1. \/ Open(r) /\ pc' = [pc EXCEPT ![r][k] = "checked"]
        \/ pc' = [pc EXCEPT ![r][k] = "leaving"]
        \/ pc' = [pc EXCEPT ![r][k] = "gone"]
        \/ pc' = [pc EXCEPT ![r][k] = "loop"]
    BY DEF AttemptStep, CheckCurrent, CheckNotCurrent, ReturnNil, ReturnStopping, StartOrder,
           StartOrderFails, AttemptDies, IsCurrent
  <2> QED
    BY <1>2, <2>1 DEF TypeOK
<1>3. ASSUME NEW p \in Runs, NEW q \in Runs, Stopped(q), p <= q
      PROVE  ~Open(p)
  <2>1. status[q] # "none"
    BY <1>3 DEF RunInv, Stopped
  <2>2. mark[q] # "none"
    BY <1>3 DEF MarkInv, MarkedInTheSameTask, Stopped
  <2>3. p = q \/ p < q
    BY <1>3, ConstantsAssumption DEF Runs
  <2> QED
    BY <2>1, <2>2, <2>3 DEF RunInv, Open
<1>4. ChecksBeforeStop'
  BY <1>1, <1>2, <1>3 DEF PromptInv, ChecksBeforeStop, Stopped
<1>5. CASE StartOrder(r, k)
  <2>1. /\ started + 1 \in Orders /\ ~Exists(started + 1)
        /\ order'[started + 1].run = r /\ order'[started + 1].born = clock
        /\ orderState'[started + 1] = "open"
        /\ \A o \in Orders : o # started + 1 =>
               order'[o] = order[o] /\ orderState'[o] = orderState[o]
    BY <1>5, StartOrderAdds
  <2>2. ASSUME NEW q \in Runs, Stopped(q), r <= q PROVE clock = stopAt[q]
    BY <1>5, <2>2 DEF StartOrder, PromptInv, ChecksBeforeStop
  <2>3. clock \in Nat
    BY DEF TypeOK
  <2>4. OrdersBeforeStop'
    BY <1>1, <2>1, <2>2, <2>3 DEF PromptInv, OrdersBeforeStop, Exists, Stopped
  <2>5. NoneOverlooked'
    <3> SUFFICES ASSUME NEW q \in Runs, NEW o \in Orders,
                        orderState'[o] = "open", order'[o].run <= q
                 PROVE  /\ closer'[q] = "terminating" => o \in toClose'[q]
                        /\ closing'[q] # "succeeded"
      BY DEF NoneOverlooked
    <3>1. CASE o = started + 1
      <4>1. Stopped(q) => ~(stopAt[q] < clock)
        BY <2>1, <2>2, <2>3, <3>1
      <4> QED
        BY <1>1, <4>1, BoundAfterStop
    <3>2. CASE o # started + 1
      BY <1>1, <2>1, <3>2 DEF PromptInv, NoneOverlooked
    <3> QED
      BY <3>1, <3>2
  <2> QED
    BY <1>1, <1>4, <2>4, <2>5 DEF PromptInv
<1>6. CASE ~StartOrder(r, k)
  <2>1. UNCHANGED <<order, orderState>>
    BY <1>6 DEF AttemptStep, CheckCurrent, CheckNotCurrent, ReturnNil, ReturnStopping,
                StartOrderFails, AttemptDies, orderVars
  <2> QED
    BY <1>1, <1>4, <2>1 DEF PromptInv, OrdersBeforeStop, NoneOverlooked, Exists, Stopped
<1> QED
  BY <1>5, <1>6

(* The list of CloseOrders is complete, and it only succeeds when it has   *)
(* been worked off.                                                        *)
LEMMA CloseStepPromptInv ==
    ASSUME TypeOK, ClosingInv, PromptInv, NEW r \in Runs, CloseStep(r)
    PROVE  PromptInv'
<1>1. UNCHANGED <<clock, status, stage, stopAt, pc, order>>
  BY DEF CloseStep, StartClosing, ListOpenOrders, TerminateOrder, CloseOrdersReturns,
         CloseOrdersFails, CloseOrdersDies, CloseOrdersTimeout, EndAttempt, serverVars, orderVars
<1>2. \A o \in Orders : orderState'[o] = orderState[o]
                          \/ (orderState[o] = "open" /\ orderState'[o] = "terminated")
  <2>1. CASE UNCHANGED orderState
    BY <2>1
  <2>2. ASSUME NEW p \in Orders, TerminateOrder(r, p)
        PROVE  \A o \in Orders : orderState'[o] = orderState[o]
                          \/ (orderState[o] = "open" /\ orderState'[o] = "terminated")
    BY <2>2 DEF TerminateOrder, TypeOK
  <2> QED
    BY <2>1, <2>2 DEF CloseStep, StartClosing, ListOpenOrders, CloseOrdersReturns,
         CloseOrdersFails, CloseOrdersDies, CloseOrdersTimeout, EndAttempt, orderVars
<1>3. ChecksBeforeStop' /\ OrdersBeforeStop'
  BY <1>1, <1>2 DEF PromptInv, ChecksBeforeStop, OrdersBeforeStop, Exists, Stopped
<1>4. ASSUME NEW q \in Runs, q # r
      PROVE  closing'[q] = closing[q] /\ closer'[q] = closer[q] /\ toClose'[q] = toClose[q]
  BY <1>4 DEF TypeOK, CloseStep, StartClosing, ListOpenOrders, TerminateOrder, EndAttempt,
              CloseOrdersReturns, CloseOrdersFails, CloseOrdersDies, CloseOrdersTimeout
<1>5. closing[r] = "succeeded" => closing'[r] = "succeeded" \/ status[r] = "running"
  BY DEF TypeOK, CloseStep, StartClosing, ListOpenOrders, TerminateOrder, EndAttempt,
         CloseOrdersReturns, CloseOrdersFails, CloseOrdersDies, CloseOrdersTimeout, Running
<1>6. ASSUME NEW o \in Orders, orderState'[o] = "open", order[o].run <= r
      PROVE  /\ closer'[r] = "terminating" => o \in toClose'[r]
             /\ closing'[r] # "succeeded"
  <2>1. /\ orderState[o] = "open"
        /\ closer[r] = "terminating" => o \in toClose[r]
        /\ closing[r] # "succeeded"
    BY <1>2, <1>6 DEF PromptInv, NoneOverlooked
  <2>2. /\ toClose \in [Runs -> SUBSET Orders]
        /\ closer \in [Runs -> {"idle", "listing", "terminating"}]
        /\ closing \in [Runs -> Closings]
        /\ orderState \in [Orders -> OrderStates]
    BY DEF TypeOK
  <2>3. CASE ListOpenOrders(r)
    <3>1. Stopped(r) /\ stopAt[r] < bound[r]
      BY <2>3, BoundAfterStop DEF ListOpenOrders
    <3>2. order[o].born <= stopAt[r]
      BY <1>6, <2>1, <3>1 DEF PromptInv, OrdersBeforeStop, Exists
    <3>3. order[o] \in OrderRecords /\ stopAt[r] \in Nat /\ bound[r] \in Nat
      BY DEF TypeOK
    <3>4. order[o].born < bound[r]
      BY <3>1, <3>2, <3>3 DEF OrderRecords
    <3> QED
      BY <2>1, <2>2, <2>3, <3>4 DEF ListOpenOrders
  <2>4. ASSUME NEW p \in Orders, TerminateOrder(r, p)
        PROVE  /\ closer'[r] = "terminating" => o \in toClose'[r]
               /\ closing'[r] # "succeeded"
    <3>1. p # o
      BY <1>6, <2>1, <2>2, <2>4 DEF TerminateOrder
    <3> QED
      BY <2>1, <2>2, <2>4, <3>1 DEF TerminateOrder
  <2>5. CASE CloseOrdersReturns(r)
    BY <2>1, <2>5 DEF CloseOrdersReturns
  <2>6. CASE CloseOrdersFails(r) \/ CloseOrdersDies(r)
    BY <2>1, <2>2, <2>6 DEF CloseOrdersFails, CloseOrdersDies, EndAttempt
  <2>7. CASE StartClosing(r) \/ CloseOrdersTimeout(r)
    BY <2>1, <2>2, <2>7 DEF StartClosing, CloseOrdersTimeout
  <2> QED
    BY <2>3, <2>4, <2>5, <2>6, <2>7 DEF CloseStep
<1>7. NoneOverlooked'
  <2> SUFFICES ASSUME NEW q \in Runs, NEW o \in Orders,
                      orderState'[o] = "open", order'[o].run <= q
               PROVE  /\ closer'[q] = "terminating" => o \in toClose'[q]
                      /\ closing'[q] # "succeeded"
    BY DEF NoneOverlooked
  <2>1. CASE q = r
    BY <1>1, <1>6, <2>1
  <2>2. CASE q # r
    BY <1>1, <1>2, <1>4, <2>2 DEF PromptInv, NoneOverlooked
  <2> QED
    BY <2>1, <2>2
<1> QED
  BY <1>1, <1>3, <1>4, <1>5, <1>7 DEF PromptInv

(* So every step does, as long as time waits for order starts. *)
LEMMA NextPromptInv ==
    /\ PromptStarts
    /\ TypeOK /\ RunInv /\ MarkInv /\ LateInv /\ ClosingInv /\ PromptInv
    /\ [Next]_vars
    => PromptInv'
<1> SUFFICES ASSUME PromptStarts, TypeOK, RunInv, MarkInv, LateInv, ClosingInv, PromptInv,
                    [Next]_vars
             PROVE  PromptInv'
  OBVIOUS
<1> USE DEF ChecksBeforeStop, OrdersBeforeStop, NoneOverlooked, Exists, Stopped
<1>1. ASSUME NEW o \in Orders, OrderEnds(o)
      PROVE  PromptInv'
  <2>1. /\ UNCHANGED <<clock, status, stage, stopAt, pc, closing, closer, toClose, order>>
        /\ \A p \in Orders : orderState'[p] = orderState[p]
                          \/ (orderState[p] = "open" /\ orderState'[p] = "done")
    BY <1>1 DEF OrderEnds, TypeOK, serverVars, closeVars
  <2> QED
    BY <2>1 DEF PromptInv
<1>2. CASE Tick
  <2>1. /\ \A r \in Runs, k \in Attempts : pc[r][k] # "checked"
        /\ UNCHANGED <<status, stage, stopAt, pc, closing, closer, toClose, order, orderState>>
    BY <1>2 DEF Tick, serverVars, closeVars, orderVars
  <2> QED
    BY <2>1 DEF PromptInv
<1>3. CASE UNCHANGED vars
  BY <1>3 DEF vars, serverVars, closeVars, orderVars, PromptInv
<1> QED
  BY <1>1, <1>2, <1>3, RunStepPromptInv, AttemptStepPromptInv, CloseStepPromptInv DEF Next

(* The invariant of prompt starts. *)
THEOREM PromptInvariant == PromptStarts /\ Spec => []PromptInv
<1>1. ASSUME PromptStarts PROVE Spec => []PromptInv
  <2>1. Init => PromptInv
    BY InitPromptInv
  <2>2. TypeOK /\ RunInv /\ MarkInv /\ LateInv /\ ClosingInv /\ PromptInv /\ [Next]_vars
        => PromptInv'
    BY <1>1, NextPromptInv
  <2> QED
    BY <2>1, <2>2, TypeCorrect, RunsInOrder, MarkInvariant, LateInvariant, ClosingInvariant, PTL
       DEF Spec
<1> QED
  BY <1>1

(* If order starts are prompt, the orders that CloseOrders spares belong    *)
(* to a newer publishing run.                                              *)
THEOREM SparedAreNewer == PromptStarts /\ Spec => []SparedBelongToNewer
<1>1. TypeOK /\ LateInv /\ ClosingInv /\ PromptInv => SparedBelongToNewer
  <2> SUFFICES ASSUME TypeOK, LateInv, ClosingInv, PromptInv, NEW r \in Runs, NEW o \in Orders,
                      stage[r] = "closing", Exists(o), order[o].born >= bound[r]
               PROVE  order[o].run > r
    BY DEF SparedBelongToNewer
  <2>1. Stopped(r) /\ stopAt[r] < bound[r]
    BY BoundAfterStop
  <2>2. order[o] \in OrderRecords /\ stopAt[r] \in Nat /\ bound[r] \in Nat
    BY DEF TypeOK
  <2>3. ~(order[o].born <= stopAt[r])
    BY <2>1, <2>2 DEF OrderRecords
  <2>4. ~(order[o].run <= r)
    BY <2>1, <2>3 DEF PromptInv, OrdersBeforeStop
  <2> QED
    BY <2>4, ConstantsAssumption DEF LateInv, Runs
<1> QED
  BY <1>1, TypeCorrect, LateInvariant, ClosingInvariant, PromptInvariant, PTL

(* If order starts are prompt, a completed run has left no order of its    *)
(* own or of an older run open.                                            *)
THEOREM CompletedLeavesNone == PromptStarts /\ Spec => []NoneLeftOpen
<1>1. LateInv /\ PromptInv => NoneLeftOpen
  <2> SUFFICES ASSUME LateInv, PromptInv, NEW r \in Runs, NEW o \in Orders,
                      status[r] = "completed", orderState[o] = "open"
               PROVE  order[o].run > r
    BY DEF NoneLeftOpen
  <2>1. ~(order[o].run <= r)
    BY DEF PromptInv, NoneOverlooked
  <2>2. order[o].run \in Runs
    BY DEF LateInv, Exists
  <2> QED
    BY <2>1, <2>2, ConstantsAssumption DEF Runs
<1> QED
  BY <1>1, LateInvariant, PromptInvariant, PTL
=============================================================================
