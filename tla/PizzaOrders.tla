----------------------------- MODULE PizzaOrders -----------------------------
(***************************************************************************)
(* One pizza order from its start to its end: the PizzaOrder workflow of   *)
(* versions 1, 2 and 3, the version a run is pinned to, the recovery of a  *)
(* stuck order by RecoverOne, and CloseOrders, which terminates what is    *)
(* left.                                                                   *)
(*                                                                         *)
(* An order is a workflow ID with a chain of runs: each reset ends the run *)
(* that is open, if one is, and adds a run.  A run's history is kept as    *)
(* the steps its workflow has scheduled, one per completed workflow task.  *)
(*                                                                         *)
(* There is one build per version, numbered like it; build 0 is none.      *)
(***************************************************************************)
EXTENDS Naturals, FiniteSets, SequencesExt

CONSTANTS
    Builds,         \* the versions that are deployed, of 1..3
    Requests,       \* bound: clicks on Fix, each sends one request
    MaxRuns,        \* bound: runs of the order
    MaxFaults       \* bound: failed calls and lists that are read again

ASSUME PizzaAssumption ==
    Builds \subseteq 1..3 /\ MaxRuns \in Nat \ {0} /\ MaxFaults \in Nat

Runs == 1..MaxRuns

VARIABLES
    served,     \* the builds that have workers
    current,    \* the routing config: the Current build,
    ramp,       \* and the ramping one
    latest,     \* the newest run of the order
    status,     \* status[r]: none before it starts
    build,      \* build[r]: the build r is pinned to by its first task
    override,   \* override[r]: the build a reset has pinned r to
    history,    \* history[r]: the steps it has scheduled
    request,    \* request[q]: RecoverOne for one click
    closing,    \* CloseOrders: idle, terminating or done,
    toClose,    \* and the runs it has listed
    faults

routingVars == <<served, current, ramp>>
runVars     == <<latest, status, build, override, history>>
closeVars   == <<closing, toClose>>
pizzaVars   == <<served, current, ramp, latest, status, build, override, history, request,
                 closing, toClose, faults>>

Steps == {"New", "Cook", "QC", "Out", "Drone", "Done"}

(* The pipelines of PizzaOrderV1, V2 and V3. *)
Pipeline == << <<"New", "Cook", "Out", "Done">>,
               <<"New", "Cook", "QC", "Out", "Done">>,
               <<"New", "Cook", "QC", "Drone", "Done">> >>

Open(r) == status[r] = "running"

NoRequest == [at |-> "new", good |-> 0, base |-> 0, point |-> 0, made |-> 0]

PizzaInit ==
    /\ served \in {s \in SUBSET Builds : s # {}}
    /\ current \in {0} \union served
    /\ ramp \in {0} \union (served \ {current})
    /\ latest = 1
    /\ status = [r \in Runs |-> IF r = 1 THEN "running" ELSE "none"]
    /\ build = [r \in Runs |-> 0]
    /\ override = [r \in Runs |-> 0]
    /\ history = [r \in Runs |-> <<>>]
    /\ request = [q \in Requests |-> NoRequest]
    /\ closing = "idle"
    /\ toClose = {}
    /\ faults = 0
-----------------------------------------------------------------------------
(* Routing and workers.                                                    *)

Promote(b) ==
    /\ current' = b
    /\ ramp' = IF ramp = b THEN 0 ELSE ramp
    /\ UNCHANGED <<served, runVars, request, closeVars, faults>>

Ramp(b) ==
    /\ b = 0 \/ b # current      \* Rollback is Ramp(0)
    /\ ramp' = b
    /\ UNCHANGED <<served, current, runVars, request, closeVars, faults>>

(* The controller removes the workers of a build that is out of use. *)
Sunset(b) ==
    /\ b \in served \ {current, ramp}
    /\ served' = served \ {b}
    /\ UNCHANGED <<current, ramp, runVars, request, closeVars, faults>>
-----------------------------------------------------------------------------
(* The workflow.                                                           *)

(* Pinned: a run stays on the build of its first task, which is the one it *)
(* was reset onto or, for a new order, a routed one.  Without a Current    *)
(* build, new orders may be routed to 0, which no worker serves.           *)
Targets(r) ==
    IF build[r] # 0 THEN {build[r]}
    ELSE IF override[r] # 0 THEN {override[r]} ELSE {current} \union ({ramp} \ {0})

Failing(r) == history[r] # <<>> /\ Last(history[r]) = "Drone"

(* A workflow task: the step that was under way is done, and the next one  *)
(* is scheduled.  The drone never delivers.                                *)
NextStep(r) ==
    /\ Open(r) /\ ~Failing(r)
    /\ \E b \in Targets(r) \intersect served :
          /\ Len(history[r]) < Len(Pipeline[b])
          /\ build' = [build EXCEPT ![r] = b]
          /\ history' = [history EXCEPT ![r] = Append(@, Pipeline[b][Len(@) + 1])]
    /\ UNCHANGED <<routingVars, latest, status, override, request, closeVars, faults>>

Complete(r) ==
    /\ Open(r) /\ build[r] \in served
    /\ Len(history[r]) = Len(Pipeline[build[r]])
    /\ status' = [status EXCEPT ![r] = "completed"]
    /\ UNCHANGED <<routingVars, latest, build, override, history, request, closeVars, faults>>

(* Mutant of DroneWindowOver: the drone is retried for ever. *)
DroneRetried(r) == Open(r) /\ Failing(r) /\ UNCHANGED pizzaVars

(* droneRetryWindow is over: the activity error fails the workflow. *)
DroneWindowOver(r) ==
    /\ Open(r) /\ Failing(r) /\ build[r] \in served
    /\ status' = [status EXCEPT ![r] = "failed"]
    /\ UNCHANGED <<routingVars, latest, build, override, history, request, closeVars, faults>>
-----------------------------------------------------------------------------
(* RecoverOne.                                                             *)

Answered(q) == request' = [request EXCEPT ![q].at = "answered"]

Fault == faults < MaxFaults /\ faults' = faults + 1

(* The page offers Fix on a failing card, which may show what was once. *)
FixOffered == \E r \in Runs : Failing(r)

(* The Current build, or an error if there is none. *)
CurrentBuild(q) ==
    /\ request[q].at = "new" /\ FixOffered
    /\ \/ current = 0 /\ Answered(q)
       \/ /\ current # 0
          /\ request' = [request EXCEPT ![q].at = "describe", ![q].good = current]
    /\ UNCHANGED <<routingVars, runVars, closeVars, faults>>

(* The latest run of the order, open or not. *)
DescribeOrder(q) ==
    /\ request[q].at = "describe"
    /\ request' = [request EXCEPT ![q].at = "history", ![q].base = latest]
    /\ UNCHANGED <<routingVars, runVars, closeVars, faults>>

(* Mutant of ResetPoint: the last completed task. *)
LastResetPoint(r) == Len(history[r])

(* firstWorkflowTaskCompletedID, 0 for none. *)
ResetPoint(r) == IF history[r] = <<>> THEN 0 ELSE 1

(* Mutant of ReadHistory: a history without the event gives 0, no error. *)
ReadAnyHistory(q) ==
    /\ request[q].at = "history"
    /\ request' = [request EXCEPT ![q].at = "reset",
                                  ![q].point = ResetPoint(request[q].base)]
    /\ UNCHANGED <<routingVars, runVars, closeVars, faults>>

ReadHistory(q) ==
    /\ request[q].at = "history"
    /\ \/ ResetPoint(request[q].base) = 0 /\ Answered(q)
       \/ /\ ResetPoint(request[q].base) # 0
          /\ request' = [request EXCEPT ![q].at = "reset",
                                        ![q].point = ResetPoint(request[q].base)]
    /\ UNCHANGED <<routingVars, runVars, closeVars, faults>>

(* Mutant of PostReset: the new run is routed like a new order. *)
NoPostReset(q) == 0

(* The versioning override that the new run is given. *)
PostReset(q) == request[q].good

(* The server: the open run is terminated, and a new one has the base's    *)
(* history up to, and without, the task it is reset to.                    *)
ResetWorkflow(q) ==
    LET base == request[q].base
        new  == latest + 1
    IN  /\ new \in Runs
        /\ latest' = new
        /\ status' = [r \in Runs |-> IF r = new THEN "running"
                                     ELSE IF Open(r) THEN "terminated" ELSE status[r]]
        /\ history' = [history EXCEPT
                          ![new] = SubSeq(history[base], 1, request[q].point - 1)]
        /\ override' = [override EXCEPT ![new] = PostReset(q)]
        /\ request' = [request EXCEPT ![q].at = "answered", ![q].made = new]
        /\ UNCHANGED <<routingVars, build, closeVars>>

ResetWithMove(q) ==
    /\ request[q].at = "reset"
    /\ ResetWorkflow(q)
    /\ UNCHANGED faults

(* A call fails: an error toast.  A reset may have been done all the same. *)
RecoverFails(q) ==
    /\ request[q].at \in {"describe", "history", "reset"}
    /\ Fault
    /\ \/ Answered(q) /\ UNCHANGED <<routingVars, runVars, closeVars>>
       \/ request[q].at = "reset" /\ ResetWorkflow(q)
-----------------------------------------------------------------------------
(* CloseOrders, once publishing has stopped.                               *)

ListOpenOrders ==
    /\ \/ closing = "idle" /\ UNCHANGED faults
       \/ closing = "terminating" /\ Fault      \* a failed attempt is retried
    /\ closing' = "terminating"
    /\ toClose' = {r \in Runs : Open(r)}
    /\ UNCHANGED <<routingVars, runVars, request>>

(* Mutant of TerminateOrder: by workflow ID alone. *)
TerminateLatest(r) ==
    /\ closing = "terminating" /\ r \in toClose
    /\ status' = [status EXCEPT ![latest] = IF Open(latest) THEN "terminated" ELSE @]
    /\ toClose' = toClose \ {r}
    /\ UNCHANGED <<routingVars, latest, build, override, history, request, closing, faults>>

(* By workflow ID and run ID: a run that has ended is not found, no error. *)
TerminateOrder(r) ==
    /\ closing = "terminating" /\ r \in toClose
    /\ status' = [status EXCEPT ![r] = IF Open(r) THEN "terminated" ELSE @]
    /\ toClose' = toClose \ {r}
    /\ UNCHANGED <<routingVars, latest, build, override, history, request, closing, faults>>

CloseOrdersReturns ==
    /\ closing = "terminating" /\ toClose = {}
    /\ closing' = "done"
    /\ UNCHANGED <<routingVars, runVars, request, toClose, faults>>
-----------------------------------------------------------------------------
(* The order's card: what the getState query returns, and its stepper.     *)

CurrentStep(r) == Len(history[r]) - 1
Done(r)        == history[r] # <<>> /\ Last(history[r]) = "Done"

(* stepNodes, the class of node i, counted from 0. *)
NodeClass(r, i) ==
    IF Done(r) \/ i < CurrentStep(r) THEN "done"
    ELSE IF i > CurrentStep(r) THEN "" ELSE IF Failing(r) THEN "err" ELSE "cur"

(* Mutant of FillPct: steps rather than the track between them. *)
FillPctOfSteps(r) ==
    LET n == Len(Pipeline[build[r]])
    IN  ((IF Done(r) THEN n - 1 ELSE CurrentStep(r)) * 100) \div n

(* stepperFillPct. *)
FillPct(r) ==
    LET n == Len(Pipeline[build[r]])
    IN  ((IF Done(r) THEN n - 1 ELSE CurrentStep(r)) * 100) \div (n - 1)
-----------------------------------------------------------------------------
OrderStep(r) == NextStep(r) \/ Complete(r) \/ DroneWindowOver(r)

PizzaNext ==
    \/ \E b \in Builds : (b \in served /\ (Promote(b) \/ Ramp(b))) \/ Sunset(b)
    \/ Ramp(0)
    \/ \E r \in Runs : OrderStep(r) \/ TerminateOrder(r)
    \/ \E q \in Requests : CurrentBuild(q) \/ DescribeOrder(q) \/ ReadHistory(q)
                           \/ ResetWithMove(q) \/ RecoverFails(q)
    \/ ListOpenOrders \/ CloseOrdersReturns

PizzaSpec == PizzaInit /\ [][PizzaNext]_pizzaVars

(* Workers work and time passes.  No request, and no CloseOrders, is owed. *)
PizzaFairSpec == PizzaSpec /\ \A r \in Runs : WF_pizzaVars(OrderStep(r))
-----------------------------------------------------------------------------
(* Types.  A reset is sent for a task that its base run has completed. *)
PizzaTypeOK ==
    /\ served \subseteq Builds
    /\ {current, ramp} \subseteq {0} \union Builds
    /\ latest \in Runs
    /\ status \in [Runs -> {"none", "running", "completed", "failed", "terminated"}]
    /\ build \in [Runs -> {0} \union Builds]
    /\ override \in [Runs -> {0} \union Builds]
    /\ history \in [Runs -> Seq(Steps)]
    /\ request \in [Requests ->
                      [at : {"new", "describe", "history", "reset", "answered"},
                       good : {0} \union Builds, base : {0} \union Runs,
                       point : Nat, made : {0} \union Runs]]
    /\ \A q \in Requests : request[q].at = "reset"
                           => request[q].point \in 1..Len(history[request[q].base])
    /\ closing \in {"idle", "terminating", "done"}
    /\ toClose \subseteq Runs
    /\ faults \in 0..MaxFaults

(* "No order ever replays against incompatible code": whatever is promoted *)
(* and wherever a run was when it was reset, the history of a run is one   *)
(* that the code of its build writes.                                      *)
Replayable ==
    \A r \in Runs : build[r] # 0 => IsPrefix(history[r], Pipeline[build[r]])

(* A recovered order starts again on the build that was Current when the   *)
(* recovery began, and on no other, although the routing may change before *)
(* its first task and the answer to the reset may be lost.                 *)
RecoveredRunsOnGood ==
    \A q \in Requests : request[q].made # 0
                        => build[request[q].made] \in {0, request[q].good}

(* The bar is full exactly when all steps are green, and at any other time *)
(* the green steps are those that are done.                                *)
StepperTruthful ==
    \A r \in Runs : build[r] # 0 =>
        LET nodes == 0..(Len(Pipeline[build[r]]) - 1)
            green == {i \in nodes : NodeClass(r, i) = "done"}
        IN  /\ FillPct(r) = 100 <=> green = nodes
            /\ green # nodes => Cardinality(green) = CurrentStep(r)

(* A recovery onto a build without the drone gets the order delivered,      *)
(* unless the operator resets the order once more or removes that build,   *)
(* or CloseOrders finds the new run open.  Promotes, ramps, further clicks *)
(* that fail, and a CloseOrders that has listed the run before the reset,  *)
(* do not stop it.                                                         *)
RecoveriesDeliver ==
    \A q \in Requests, r \in Runs :
        /\ request[q].made = r
        /\ Open(r)
        /\ "Drone" \notin ToSet(Pipeline[request[q].good])
        ~> \/ status[r] = "completed"
           \/ r # latest
           \/ r \in toClose
           \/ request[q].good \notin served

(* No run stays open for ever: it is delivered, fails on the drone, or is  *)
(* closed, or it waits for a build that is not there.                      *)
OrdersEnd ==
    \A r \in Runs : Open(r) ~> ~Open(r) \/ ~(Targets(r) \subseteq served)
-----------------------------------------------------------------------------
(* What the comment above RecoverOne says of it: that it "resets a single  *)
(* in-error order", here that the run it resets is one stuck on the drone. *)
ResetsInErrorOnly ==
    [][\A q \in Requests : ResetWithMove(q) => Failing(request[q].base)]_pizzaVars
=============================================================================
