--------------------------- MODULE OrderPublishing ---------------------------
(***************************************************************************)
(* Order publishing: the OrderPublishing workflow runs, the attempts of    *)
(* their PublishOrders and CloseOrders activities, the pizza orders, and   *)
(* the part of the Temporal server that connects them.                     *)
(*                                                                         *)
(* A run is Running on the server from the start call on.  Its workflow    *)
(* tasks are atomic: one task sees every event recorded before it and      *)
(* commits its commands together.  Attempts are processes of a backend:    *)
(* they read the server and act on it in separate steps, may freeze        *)
(* between two steps for as long as they like, and may die.  The server    *)
(* cannot tell a frozen attempt from a dead one, and gives up on either.   *)
(***************************************************************************)
EXTENDS Naturals

CONSTANTS
    MaxRuns,        \* bound: runs ever started
    MaxAttempts,    \* bound: PublishOrders attempts per run
    MaxOrders,      \* bound: orders ever started
    MaxClock,       \* bound: the clock's last value
    CloseDelay,     \* closeDelay, in ticks of the clock
    PromptStarts    \* TRUE: an order start takes less than one tick

ASSUME ConstantsAssumption ==
    /\ MaxRuns \in Nat \ {0}
    /\ MaxAttempts \in Nat \ {0}
    /\ MaxOrders \in Nat
    /\ MaxClock \in Nat
    /\ CloseDelay \in Nat \ {0}
    /\ PromptStarts \in BOOLEAN

Runs     == 1..MaxRuns
Attempts == 1..MaxAttempts
Orders   == 1..MaxOrders

Statuses   == {"none", "running", "completed", "failed", "killed"}
Stages     == {"new", "publishing", "waiting", "closing"}
Marks      == {"none", "timeout", "paused"}
Outcomes   == {"none", "deadline", "noRetry", "nil"}
Activities == {"none", "scheduled", "started", "closed"}
Closings   == {"none", "scheduled", "started", "succeeded", "timedout"}

OrderStates == {"none", "open", "done", "terminated"}

OrderRecords ==
    [run     : 0..MaxRuns,
     attempt : 0..MaxAttempts,
     born    : Nat,
     late    : BOOLEAN]

NoOrder == [run |-> 0, attempt |-> 0, born |-> 0, late |-> FALSE]

VARIABLES
    clock,      \* the server's clock
    \* the runs, on the server
    status,     \* status[r]: workflow execution status; killed: terminated or
                \* timed out, which nothing in the code tells apart
    stage,      \* stage[r]: where the workflow function of r stands
    mark,       \* mark[r]: the publishingStopped memo field
    signalled,  \* signalled[r]: a pause signal is in r's history
    stopAt,     \* stopAt[r]: when the close timer of r was started
    bound,      \* bound[r]: startedBefore, once r schedules CloseOrders
    \* the PublishOrders activity of each run, on the server
    activity,   \* activity[r]: pending (scheduled, started) or closed
    attempt,    \* attempt[r]: its current attempt number, 0 if none
    outcome,    \* outcome[r]: its result, recorded while r still publishes
    \* its attempts, in the backends
    pc,         \* pc[r][k]: idle, loop (at the select), checked, leaving, gone
    \* the CloseOrders activity of each run, on the server, and its attempt
    closing,    \* closing[r]: pending (scheduled, started) or its result
    closer,     \* closer[r]: idle, listing, terminating
    toClose,    \* toClose[r]: the listed orders still to terminate
    \* the pizza orders
    orderState, \* orderState[o]: open, done by itself, terminated
    order,      \* order[o]: the attempt and the time it comes from
    started     \* how many orders were ever started

serverVars  == <<status, stage, mark, signalled, stopAt, bound>>
publishVars == <<activity, attempt, outcome>>
closeVars   == <<closing, closer, toClose>>
orderVars   == <<orderState, order, started>>
vars == <<clock, serverVars, publishVars, pc, closeVars, orderVars>>

Running(r) == status[r] = "running"

(* What Describe shows of a run that publishes: publishingOpen. *)
Open(r) == Running(r) /\ mark[r] = "none"

(* Mutant of IsCurrent: the check overlooks the mark. *)
IsCurrentUnmarked(r, k) ==
    /\ Running(r)
    /\ activity[r] \in {"scheduled", "started"} => attempt[r] = k

(* What isCurrent reads in one Describe: the run is Running, has no mark,  *)
(* and its pending PublishOrders, if any, is still at this attempt.        *)
IsCurrent(r, k) ==
    /\ Open(r)
    /\ activity[r] \in {"scheduled", "started"} => attempt[r] = k

(* The server takes a result only from the attempt it believes started. *)
Accepted(r, k) == Running(r) /\ activity[r] = "started" /\ attempt[r] = k

Init ==
    /\ clock = 0
    /\ status = [r \in Runs |-> "none"]
    /\ stage = [r \in Runs |-> "new"]
    /\ mark = [r \in Runs |-> "none"]
    /\ signalled = [r \in Runs |-> FALSE]
    /\ stopAt = [r \in Runs |-> 0]
    /\ bound = [r \in Runs |-> 0]
    /\ activity = [r \in Runs |-> "none"]
    /\ attempt = [r \in Runs |-> 0]
    /\ outcome = [r \in Runs |-> "none"]
    /\ pc = [r \in Runs |-> [k \in Attempts |-> "idle"]]
    /\ closing = [r \in Runs |-> "none"]
    /\ closer = [r \in Runs |-> "idle"]
    /\ toClose = [r \in Runs |-> {}]
    /\ orderState = [o \in Orders |-> "none"]
    /\ order = [o \in Orders |-> NoOrder]
    /\ started = 0
-----------------------------------------------------------------------------
(* Starting, pausing and ending runs.                                      *)

Fresh(r) == status[r] = "none" /\ \A q \in Runs : q < r => status[q] # "none"

(* The bound on time: a run can still wait out its close delay. *)
WithinHorizon(t) == t + CloseDelay <= MaxClock

(* Ensure (USE_EXISTING) or Resume finding no live run: a run starts.  An  *)
(* Ensure that finds one keeps it and changes nothing.                     *)
StartFresh(r) ==
    /\ Fresh(r)
    /\ WithinHorizon(clock)
    /\ \A q \in Runs : ~Running(q)
    /\ status' = [status EXCEPT ![r] = "running"]
    /\ UNCHANGED <<clock, stage, mark, signalled, stopAt, bound,
                   publishVars, pc, closeVars, orderVars>>

(* Mutant of Resume: the live run is not terminated. *)
ResumeBeside(r) ==
    /\ Fresh(r)
    /\ WithinHorizon(clock)
    /\ \E q \in Runs : Running(q)
    /\ status' = [status EXCEPT ![r] = "running"]
    /\ UNCHANGED <<clock, stage, mark, signalled, stopAt, bound,
                   publishVars, pc, closeVars, orderVars>>

(* Resume (TERMINATE_EXISTING) finding a live run: the server closes it    *)
(* and starts the new one together.  Attempts of the old run's activities  *)
(* are not told: they live on until they look.                             *)
Resume(r) ==
    /\ Fresh(r)
    /\ WithinHorizon(clock)
    /\ \E q \in Runs :
          /\ Running(q)
          /\ status' = [status EXCEPT ![q] = "killed", ![r] = "running"]
    /\ UNCHANGED <<clock, stage, mark, signalled, stopAt, bound,
                   publishVars, pc, closeVars, orderVars>>

(* A pause signal, by run ID; a run that has ended answers NotFound. *)
Pause(r) ==
    /\ Running(r)
    /\ ~signalled[r]
    /\ signalled' = [signalled EXCEPT ![r] = TRUE]
    /\ UNCHANGED <<clock, status, stage, mark, stopAt, bound,
                   publishVars, pc, closeVars, orderVars>>

(* The workflow execution timeout: a run that is stuck, or that had no     *)
(* worker for long, is closed by the server.                               *)
ExecutionTimeout(r) ==
    /\ Running(r)
    /\ status' = [status EXCEPT ![r] = "killed"]
    /\ UNCHANGED <<clock, stage, mark, signalled, stopAt, bound,
                   publishVars, pc, closeVars, orderVars>>
-----------------------------------------------------------------------------
(* The workflow function, one action per workflow task.                    *)

(* Mutant of StopPublishing: PublishOrders is not cancelled. *)
StopWithoutCancel(r, reason) ==
    /\ WithinHorizon(clock)
    /\ stage' = [stage EXCEPT ![r] = "waiting"]
    /\ mark' = [mark EXCEPT ![r] = reason]
    /\ stopAt' = [stopAt EXCEPT ![r] = clock]
    /\ UNCHANGED <<clock, status, signalled, bound, publishVars, pc, closeVars, orderVars>>

(* Publishing ends: the mark and the close timer are commands of one task. *)
(* A cancelled PublishOrders is never retried and its result is ignored,   *)
(* so for the run it is closed.                                            *)
StopPublishing(r, reason) ==
    /\ WithinHorizon(clock)
    /\ stage' = [stage EXCEPT ![r] = "waiting"]
    /\ mark' = [mark EXCEPT ![r] = reason]
    /\ stopAt' = [stopAt EXCEPT ![r] = clock]
    /\ activity' = [activity EXCEPT ![r] = "closed"]
    /\ UNCHANGED <<clock, status, signalled, bound, attempt, outcome,
                   pc, closeVars, orderVars>>

(* The first task schedules PublishOrders, unless the signal is already in *)
(* the history: then the cancellation overtakes the schedule command.      *)
FirstTask(r) ==
    /\ Running(r)
    /\ stage[r] = "new"
    /\ \/ /\ signalled[r]
          /\ StopPublishing(r, "paused")
       \/ /\ ~signalled[r]
          /\ stage' = [stage EXCEPT ![r] = "publishing"]
          /\ activity' = [activity EXCEPT ![r] = "scheduled"]
          /\ attempt' = [attempt EXCEPT ![r] = 1]
          /\ UNCHANGED <<clock, status, mark, signalled, stopAt, bound, outcome,
                         pc, closeVars, orderVars>>

(* Mutant of StopTask: the pause signal is only looked at by the first task. *)
StopTaskOnResult(r) ==
    /\ Running(r)
    /\ stage[r] = "publishing"
    /\ outcome[r] # "none"
    /\ StopPublishing(r, "timeout")

(* The task that ends publishing.  The activity's result, when it is there, *)
(* wakes the main coroutine before the pause coroutine can cancel.         *)
StopTask(r) ==
    /\ Running(r)
    /\ stage[r] = "publishing"
    /\ \/ outcome[r] # "none" /\ StopPublishing(r, "timeout")
       \/ outcome[r] = "none" /\ signalled[r] /\ StopPublishing(r, "paused")

(* Mutants of CloseTask: it does not wait for the timer; it takes the time *)
(* at which publishing stopped.                                            *)
CloseTaskAtOnce(r) ==
    /\ Running(r)
    /\ stage[r] = "waiting"
    /\ stage' = [stage EXCEPT ![r] = "closing"]
    /\ bound' = [bound EXCEPT ![r] = clock]
    /\ closing' = [closing EXCEPT ![r] = "scheduled"]
    /\ UNCHANGED <<clock, status, mark, signalled, stopAt,
                   publishVars, pc, closer, toClose, orderVars>>

CloseTaskFromStop(r) ==
    /\ Running(r)
    /\ stage[r] = "waiting"
    /\ clock >= stopAt[r] + CloseDelay
    /\ stage' = [stage EXCEPT ![r] = "closing"]
    /\ bound' = [bound EXCEPT ![r] = stopAt[r]]
    /\ closing' = [closing EXCEPT ![r] = "scheduled"]
    /\ UNCHANGED <<clock, status, mark, signalled, stopAt,
                   publishVars, pc, closer, toClose, orderVars>>

(* The close timer has fired: the task reads the time and schedules        *)
(* CloseOrders with it.                                                    *)
CloseTask(r) ==
    /\ Running(r)
    /\ stage[r] = "waiting"
    /\ clock >= stopAt[r] + CloseDelay
    /\ stage' = [stage EXCEPT ![r] = "closing"]
    /\ bound' = [bound EXCEPT ![r] = clock]
    /\ closing' = [closing EXCEPT ![r] = "scheduled"]
    /\ UNCHANGED <<clock, status, mark, signalled, stopAt,
                   publishVars, pc, closer, toClose, orderVars>>

(* CloseOrders has a result: the run completes, or fails with it. *)
LastTask(r) ==
    /\ Running(r)
    /\ closing[r] \in {"succeeded", "timedout"}
    /\ status' = [status EXCEPT ![r] =
                     IF closing[r] = "succeeded" THEN "completed" ELSE "failed"]
    /\ UNCHANGED <<clock, stage, mark, signalled, stopAt, bound,
                   publishVars, pc, closeVars, orderVars>>
-----------------------------------------------------------------------------
(* The server side of PublishOrders.                                       *)

Pending(r) == Running(r) /\ activity[r] \in {"scheduled", "started"}

(* Mutant of WindowOver: a start-to-close window, of attempts that started. *)
WindowOfAttempt(r) ==
    /\ Running(r) /\ activity[r] = "started"
    /\ activity' = [activity EXCEPT ![r] = "closed"]
    /\ outcome' = [outcome EXCEPT ![r] = "deadline"]
    /\ UNCHANGED <<clock, serverVars, attempt, pc, closeVars, orderVars>>

(* The schedule-to-close window runs out. *)
WindowOver(r) ==
    /\ Pending(r)
    /\ activity' = [activity EXCEPT ![r] = "closed"]
    /\ outcome' = [outcome EXCEPT ![r] = "deadline"]
    /\ UNCHANGED <<clock, serverVars, attempt, pc, closeVars, orderVars>>

(* The current attempt failed: another one is scheduled in its place, or,  *)
(* too close to the deadline for a retry, the activity closes with the     *)
(* failure and the retry state TIMEOUT.                                    *)
RetryOrGiveUp(r) ==
    \/ /\ attempt[r] < MaxAttempts
       /\ activity' = [activity EXCEPT ![r] = "scheduled"]
       /\ attempt' = [attempt EXCEPT ![r] = attempt[r] + 1]
       /\ UNCHANGED outcome
    \/ /\ activity' = [activity EXCEPT ![r] = "closed"]
       /\ outcome' = [outcome EXCEPT ![r] = "noRetry"]
       /\ UNCHANGED attempt

(* No heartbeat for a minute: the attempt died, or froze.  *)
HeartbeatTimeout(r) ==
    /\ Running(r) /\ activity[r] = "started"
    /\ RetryOrGiveUp(r)
    /\ UNCHANGED <<clock, serverVars, pc, closeVars, orderVars>>

(* A worker picks the scheduled attempt up. *)
StartAttempt(r) ==
    /\ Running(r) /\ activity[r] = "scheduled"
    /\ activity' = [activity EXCEPT ![r] = "started"]
    /\ pc' = [pc EXCEPT ![r][attempt[r]] = "loop"]
    /\ UNCHANGED <<clock, serverVars, attempt, outcome, closeVars, orderVars>>
-----------------------------------------------------------------------------
(* An attempt of PublishOrders: the loop of publish.                       *)

(* Past the deadline the attempt's context is done and every Describe       *)
(* fails.  A check that fails skips the tick, which changes nothing.       *)
ContextDone(r) == outcome[r] = "deadline"

(* A tick whose check finds the attempt current. *)
CheckCurrent(r, k) ==
    /\ pc[r][k] = "loop"
    /\ ~ContextDone(r)
    /\ IsCurrent(r, k)
    /\ pc' = [pc EXCEPT ![r][k] = "checked"]
    /\ UNCHANGED <<clock, serverVars, publishVars, closeVars, orderVars>>

(* Mutant of CheckNotCurrent: a failed Describe reads as not current. *)
CheckNotCurrentOnError(r, k) ==
    /\ pc[r][k] = "loop"
    /\ pc' = [pc EXCEPT ![r][k] = "leaving"]
    /\ UNCHANGED <<clock, serverVars, publishVars, closeVars, orderVars>>

(* A tick whose check finds it no longer current: publish returns nil. *)
CheckNotCurrent(r, k) ==
    /\ pc[r][k] = "loop"
    /\ ~ContextDone(r)
    /\ ~IsCurrent(r, k)
    /\ pc' = [pc EXCEPT ![r][k] = "leaving"]
    /\ UNCHANGED <<clock, serverVars, publishVars, closeVars, orderVars>>

(* The nil result reaches the server, some time after the check. *)
ReturnNil(r, k) ==
    /\ pc[r][k] = "leaving"
    /\ pc' = [pc EXCEPT ![r][k] = "gone"]
    /\ activity' = IF Accepted(r, k) THEN [activity EXCEPT ![r] = "closed"] ELSE activity
    /\ outcome' = IF Accepted(r, k) THEN [outcome EXCEPT ![r] = "nil"] ELSE outcome
    /\ UNCHANGED <<clock, serverVars, attempt, closeVars, orderVars>>

(* The worker is stopping: the attempt fails, and the server retries it if *)
(* it still counts on it.                                                  *)
ReturnStopping(r, k) ==
    /\ pc[r][k] = "loop"
    /\ pc' = [pc EXCEPT ![r][k] = "gone"]
    /\ \/ Accepted(r, k) /\ RetryOrGiveUp(r)
       \/ ~Accepted(r, k) /\ UNCHANGED publishVars
    /\ UNCHANGED <<clock, serverVars, closeVars, orderVars>>

(* ExecuteWorkflow: the server starts the order.  The attempt goes on the  *)
(* same way whether the answer reaches it or is lost.  An order is late if *)
(* its run had stopped publishing by the time the server started it.       *)
StartOrder(r, k) ==
    /\ pc[r][k] = "checked"
    /\ started < MaxOrders
    /\ pc' = [pc EXCEPT ![r][k] = "loop"]
    /\ started' = started + 1
    /\ orderState' = [orderState EXCEPT ![started + 1] = "open"]
    /\ order' = [order EXCEPT ![started + 1] =
                    [run |-> r, attempt |-> k, born |-> clock, late |-> ~Open(r)]]
    /\ UNCHANGED <<clock, serverVars, publishVars, closeVars>>

(* ExecuteWorkflow fails, or finds an order of that ID running already: no *)
(* order, only a log line.                                                 *)
StartOrderFails(r, k) ==
    /\ pc[r][k] = "checked"
    /\ pc' = [pc EXCEPT ![r][k] = "loop"]
    /\ UNCHANGED <<clock, serverVars, publishVars, closeVars, orderVars>>

(* The attempt ends without a word to the server: its backend dies, or its *)
(* context is done and ctx.Err() is returned too late to count.            *)
AttemptDies(r, k) ==
    /\ pc[r][k] \in {"loop", "checked", "leaving"}
    /\ pc' = [pc EXCEPT ![r][k] = "gone"]
    /\ UNCHANGED <<clock, serverVars, publishVars, closeVars, orderVars>>
-----------------------------------------------------------------------------
(* CloseOrders.  It has no heartbeat timeout, so the server retries it only *)
(* after a failure it was told of: a run has one attempt at a time.        *)

StartClosing(r) ==
    /\ Running(r)
    /\ closing[r] = "scheduled"
    /\ closing' = [closing EXCEPT ![r] = "started"]
    /\ closer' = [closer EXCEPT ![r] = "listing"]
    /\ UNCHANGED <<clock, serverVars, publishVars, pc, toClose, orderVars>>

(* Mutant of ListOpenOrders: startedBefore is forgotten. *)
ListAllOpenOrders(r) ==
    /\ closer[r] = "listing"
    /\ closer' = [closer EXCEPT ![r] = "terminating"]
    /\ toClose' = [toClose EXCEPT ![r] = {o \in Orders : orderState[o] = "open"}]
    /\ UNCHANGED <<clock, serverVars, publishVars, pc, closing, orderVars>>

(* openOrdersBefore: every page is read before anything is terminated. *)
ListOpenOrders(r) ==
    /\ closer[r] = "listing"
    /\ closer' = [closer EXCEPT ![r] = "terminating"]
    /\ toClose' = [toClose EXCEPT ![r] =
                      {o \in Orders : orderState[o] = "open" /\ order[o].born < bound[r]}]
    /\ UNCHANGED <<clock, serverVars, publishVars, pc, closing, orderVars>>

(* TerminateWorkflow on one listed order; NotFound if it closed meanwhile. *)
TerminateOrder(r, o) ==
    /\ closer[r] = "terminating"
    /\ o \in toClose[r]
    /\ toClose' = [toClose EXCEPT ![r] = @ \ {o}]
    /\ \/ /\ orderState[o] = "open"
          /\ orderState' = [orderState EXCEPT ![o] = "terminated"]
       \/ /\ orderState[o] # "open"
          /\ UNCHANGED orderState
    /\ UNCHANGED <<clock, serverVars, publishVars, pc, closing, closer, order, started>>

(* The attempt ends; the server takes its answer while the run is Running  *)
(* and the activity has not timed out.                                     *)
EndAttempt(r, result) ==
    /\ closer' = [closer EXCEPT ![r] = "idle"]
    /\ toClose' = [toClose EXCEPT ![r] = {}]
    /\ closing' = IF Running(r) /\ closing[r] = "started"
                  THEN [closing EXCEPT ![r] = result]
                  ELSE closing
    /\ UNCHANGED <<clock, serverVars, publishVars, pc, orderVars>>

(* Mutant of CloseOrdersReturns: failed terminations are only logged. *)
CloseOrdersReturnsAnyway(r) ==
    /\ closer[r] = "terminating"
    /\ EndAttempt(r, "succeeded")

CloseOrdersReturns(r) ==
    /\ closer[r] = "terminating"
    /\ toClose[r] = {}
    /\ EndAttempt(r, "succeeded")

(* Mutant of CloseOrdersFails: no retry policy. *)
CloseOrdersFailsForGood(r) ==
    /\ closer[r] # "idle"
    /\ EndAttempt(r, "failed")

(* A page or a termination fails: the attempt does, and is retried. *)
CloseOrdersFails(r) ==
    /\ closer[r] # "idle"
    /\ EndAttempt(r, "scheduled")

(* Its backend dies: nobody tells the server. *)
CloseOrdersDies(r) ==
    /\ closer[r] # "idle"
    /\ closer' = [closer EXCEPT ![r] = "idle"]
    /\ toClose' = [toClose EXCEPT ![r] = {}]
    /\ UNCHANGED <<clock, serverVars, publishVars, pc, closing, orderVars>>

(* Mutant of CloseOrdersTimeout: it only bounds the wait for a worker. *)
CloseOrdersStartTimeout(r) ==
    /\ Running(r)
    /\ closing[r] = "scheduled"
    /\ closing' = [closing EXCEPT ![r] = "timedout"]
    /\ UNCHANGED <<clock, serverVars, publishVars, pc, closer, toClose, orderVars>>

(* closeOrdersTimeout, all attempts together. *)
CloseOrdersTimeout(r) ==
    /\ Running(r)
    /\ closing[r] \in {"scheduled", "started"}
    /\ closing' = [closing EXCEPT ![r] = "timedout"]
    /\ UNCHANGED <<clock, serverVars, publishVars, pc, closer, toClose, orderVars>>
-----------------------------------------------------------------------------
(* The rest of the world.                                                  *)

(* An order ends by itself: delivered, or failed at its own timeout. *)
OrderEnds(o) ==
    /\ orderState[o] = "open"
    /\ orderState' = [orderState EXCEPT ![o] = "done"]
    /\ UNCHANGED <<clock, serverVars, publishVars, pc, closeVars, order, started>>

(* Time passes: not past the horizon while a run has yet to stop           *)
(* publishing, and, under PromptStarts, not past an order start.           *)
Tick ==
    /\ clock < MaxClock
    /\ \A r \in Runs : Running(r) /\ stage[r] \in {"new", "publishing"}
                          => WithinHorizon(clock + 1)
    /\ PromptStarts => \A r \in Runs, k \in Attempts : pc[r][k] # "checked"
    /\ clock' = clock + 1
    /\ UNCHANGED <<serverVars, publishVars, pc, closeVars, orderVars>>
-----------------------------------------------------------------------------
RunStep(r) ==
    \/ StartFresh(r) \/ Resume(r) \/ Pause(r) \/ ExecutionTimeout(r)
    \/ FirstTask(r) \/ StopTask(r) \/ CloseTask(r) \/ LastTask(r)
    \/ WindowOver(r) \/ HeartbeatTimeout(r) \/ StartAttempt(r)

AttemptStep(r, k) ==
    \/ CheckCurrent(r, k) \/ CheckNotCurrent(r, k) \/ ReturnNil(r, k)
    \/ ReturnStopping(r, k) \/ StartOrder(r, k) \/ StartOrderFails(r, k) \/ AttemptDies(r, k)

CloseStep(r) ==
    \/ StartClosing(r) \/ ListOpenOrders(r) \/ \E o \in Orders : TerminateOrder(r, o)
    \/ CloseOrdersReturns(r) \/ CloseOrdersFails(r) \/ CloseOrdersDies(r)
    \/ CloseOrdersTimeout(r)

Next ==
    \/ \E r \in Runs : RunStep(r) \/ CloseStep(r)
    \/ \E r \in Runs, k \in Attempts : AttemptStep(r, k)
    \/ \E o \in Orders : OrderEnds(o)
    \/ Tick

Spec == Init /\ [][Next]_vars

(* The server delivers what is due and the backend's worker polls: workflow *)
(* tasks, the close timer and the timeout of CloseOrders happen in the end, *)
(* time passes, and a call that an attempt is making comes to an end.      *)
(* Nothing is assumed of the window, of the ticker, of pauses and resumes, *)
(* of orders, or of the closing attempt.                                   *)
Fairness ==
    /\ WF_vars(Tick)
    /\ \A r \in Runs :
          /\ WF_vars(FirstTask(r)) /\ WF_vars(StopTask(r))
          /\ WF_vars(CloseTask(r)) /\ WF_vars(LastTask(r))
          /\ WF_vars(CloseOrdersTimeout(r))
    /\ \A r \in Runs, k \in Attempts : WF_vars(StartOrder(r, k) \/ StartOrderFails(r, k))

FairSpec == Spec /\ Fairness
-----------------------------------------------------------------------------
TypeOK ==
    /\ clock \in Nat
    /\ status \in [Runs -> Statuses]
    /\ stage \in [Runs -> Stages]
    /\ mark \in [Runs -> Marks]
    /\ signalled \in [Runs -> BOOLEAN]
    /\ stopAt \in [Runs -> Nat]
    /\ bound \in [Runs -> Nat]
    /\ activity \in [Runs -> Activities]
    /\ attempt \in [Runs -> 0..MaxAttempts]
    /\ outcome \in [Runs -> Outcomes]
    /\ pc \in [Runs -> [Attempts -> {"idle", "loop", "checked", "leaving", "gone"}]]
    /\ closing \in [Runs -> Closings]
    /\ closer \in [Runs -> {"idle", "listing", "terminating"}]
    /\ toClose \in [Runs -> SUBSET Orders]
    /\ orderState \in [Orders -> OrderStates]
    /\ order \in [Orders -> OrderRecords]
    /\ started \in 0..MaxOrders

Exists(o) == orderState[o] # "none"

(* However an attempt is frozen, superseded or left behind by a resume, it *)
(* starts at most one order once its run has stopped publishing or ended:  *)
(* the one it was starting.  ("Stop without one more order", publish.)     *)
AtMostOneLateOrder ==
    \A o, p \in Orders :
        /\ Exists(o) /\ Exists(p) /\ order[o].late /\ order[p].late
        /\ order[o].run = order[p].run /\ order[o].attempt = order[p].attempt
        => o = p

(* CloseOrders never has an order of a newer run in hand, although its     *)
(* attempt can outlive its run and run beside the publishing of the next.  *)
NeverClosesNewer ==
    \A r \in Runs : \A o \in toClose[r] : order[o].run <= r

(* An order is only ever terminated on behalf of its own run or a newer    *)
(* one, after that run has waited out closeDelay: a resume within the wait *)
(* keeps every order.                                                      *)
ResumeKeepsOrders ==
    [][\A o \in Orders :
          orderState[o] = "open" /\ orderState'[o] = "terminated"
          => \E r \in Runs :
                /\ order[o].run <= r
                /\ mark[r] # "none"
                /\ clock >= stopAt[r] + CloseDelay
                /\ stage[r] = "closing"]_vars

(* The orders that CloseOrders spares "belong to a newer publishing run".  *)
SparedBelongToNewer ==
    \A r \in Runs, o \in Orders :
        stage[r] = "closing" /\ Exists(o) /\ order[o].born >= bound[r]
        => order[o].run > r

(* A completed run has left nothing behind: no order of it, or of an older *)
(* run, is still open.                                                     *)
NoneLeftOpen ==
    \A r \in Runs, o \in Orders :
        status[r] = "completed" /\ orderState[o] = "open" => order[o].run > r

(* The mark tells the truth: "timeout" means that the window ran out, not  *)
(* that some attempt gave up and returned nil early; "paused" that a pause *)
(* was asked for.                                                          *)
MarkTruthful ==
    \A r \in Runs :
        /\ mark[r] = "timeout" => outcome[r] \in {"deadline", "noRetry"}
        /\ mark[r] = "paused" => signalled[r]

(* A Describe never shows an unmarked run whose workflow function has left *)
(* publish, nor a marked one whose PublishOrders can still be retried.     *)
MarkedInTheSameTask ==
    \A r \in Runs :
        /\ mark[r] = "none" <=> stage[r] \in {"new", "publishing"}
        /\ mark[r] # "none" => activity[r] = "closed"

(* A pause is obeyed, however long the window still is: the run stops      *)
(* publishing, or ends.                                                    *)
PauseStops ==
    \A r \in Runs : Running(r) /\ signalled[r] ~> ~Open(r)

(* A run that has stopped publishing does not stay Running for ever: its   *)
(* timer, CloseOrders and its timeout see to it.                           *)
ClosingEnds ==
    \A r \in Runs : Running(r) /\ mark[r] # "none" ~> ~Running(r)

(* The server closes every window in the end. *)
WindowsClose == \A r \in Runs : WF_vars(WindowOver(r))

(* Orders are not published for ever, even if no worker ever picks         *)
(* PublishOrders up and nobody pauses: the window closes.                  *)
PublishingEnds ==
    WindowsClose => \A r \in Runs : Running(r) ~> ~Open(r)

-----------------------------------------------------------------------------
(* What a Describe of each run shows. *)
phase == [r \in Runs |->
             IF status[r] = "none" THEN "none"
             ELSE IF ~Running(r) THEN "over"
             ELSE IF mark[r] = "none" THEN "open" ELSE "closing"]

Shown == INSTANCE PublishingRuns WITH
             phase <- phase, signalled <- {r \in Runs : signalled[r]}

(* What Describe shows of the runs is a behaviour of PublishingRuns.  This  *)
(* is Shown!RunsSpec, with the steps that show nothing named first for TLC. *)
ShownRuns ==
    /\ Shown!RunsInit
    /\ [][UNCHANGED <<status, mark, signalled>> \/ Shown!RunsNext]_(Shown!runsVars)
-----------------------------------------------------------------------------
(* What the README promises: once the run that stopped publishing has      *)
(* ended by itself, the orders still open are closed.                      *)
StoppedMeansClosed ==
    \A r \in Runs, o \in Orders :
        status[r] \in {"completed", "failed"} /\ orderState[o] = "open" => order[o].run > r
=============================================================================
