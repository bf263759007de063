-------------------------- MODULE PublishingSwitch --------------------------
(***************************************************************************)
(* Switch: what each backend believes about order publishing, and the      *)
(* calls it makes.  The world is PublishingRuns; a backend sees it only    *)
(* through Describe and changes it only by a start or a signal, and every  *)
(* call is a step of its own under the mutex mu.                           *)
(*                                                                         *)
(* A backend has two threads that use the Switch: the handler (Ensure at   *)
(* startup, then Pause and Resume for HTTP requests) and the refresher     *)
(* (Run).  HTTP requests beyond the one that holds mu wait for it, so one  *)
(* handler thread stands for all of them.                                  *)
(***************************************************************************)
EXTENDS PublishingRuns, FiniteSets

CONSTANTS
    Backends,
    MaxOps,     \* bound: Pause and Resume requests
    MaxFaults,  \* bound: failed calls and backend crashes
    MaxStrays   \* bound: calls that reach the server after their caller gave up

ASSUME SwitchAssumption == MaxOps \in Nat /\ MaxFaults \in Nat /\ MaxStrays \in Nat

Threads == {"handler", "refresher"}
RunIDs  == 0..MaxRuns       \* 0 is the empty run ID, and no run

Steps == {"idle",
          "ensureStart", "ensureDescribe", "ensureStore",
          "resumeStart", "resumeStore",
          "pauseDescribe", "pauseSignal", "pauseStore",
          "refreshDescribe", "refreshStore"}

VARIABLES
    up,           \* up[b]: down, booting (in Ensure), serving
    mu,           \* mu[b]: the thread that holds the mutex, or free
    at,           \* at[b][t]: the next step of thread t
    seen,         \* seen[b][t]: the answer of the last Describe or start
    open,         \* open[b]: the cached state
    pausedRunID,  \* pausedRunID[b]: the run Pause last signalled
    strays,       \* calls still on their way although their caller gave up
    ops, faults,  \* what was used of MaxOps and MaxFaults
    \* history, read by the properties only
    paused,       \* paused[b]: the runs a Pause of b succeeded on since b booted
    resumed       \* resumed[b]: the run of b's last successful Resume, until b
                  \* pauses or reboots

history    == <<paused, resumed>>
switchVars == <<up, mu, at, seen, open, pausedRunID, strays, ops, faults, paused, resumed>>
allVars    == <<runsVars, switchVars>>

Nil == [run |-> 0, phase |-> "none"]

(* describe: the latest run and what its status and memo show of it. *)
Description ==
    IF \E r \in Runs : Latest(r)
    THEN LET r == CHOOSE q \in Runs : Latest(q) IN [run |-> r, phase |-> phase[r]]
    ELSE Nil

publishingOpen(info) == info.phase = "open"

SwitchInit ==
    /\ RunsInit
    /\ up = [b \in Backends |-> "down"]
    /\ mu = [b \in Backends |-> "free"]
    /\ at = [b \in Backends |-> [t \in Threads |-> "idle"]]
    /\ seen = [b \in Backends |-> [t \in Threads |-> Nil]]
    /\ open = [b \in Backends |-> FALSE]
    /\ pausedRunID = [b \in Backends |-> 0]
    /\ strays = {}
    /\ ops = 0
    /\ faults = 0
    /\ paused = [b \in Backends |-> {}]
    /\ resumed = [b \in Backends |-> 0]
-----------------------------------------------------------------------------
(* The mutex and the steps of a call.                                      *)

(* Mutant of Lock: no mutex. *)
LockNothing(b, t, step) ==
    /\ at[b][t] = "idle"
    /\ mu' = [mu EXCEPT ![b] = t]
    /\ at' = [at EXCEPT ![b][t] = step]

(* mu.Lock *)
Lock(b, t, step) ==
    /\ mu[b] = "free"
    /\ at[b][t] = "idle"
    /\ mu' = [mu EXCEPT ![b] = t]
    /\ at' = [at EXCEPT ![b][t] = step]

(* The deferred mu.Unlock, on return: the answers go out of scope. *)
Unlock(b, t) ==
    /\ mu' = [mu EXCEPT ![b] = "free"]
    /\ at' = [at EXCEPT ![b][t] = "idle"]
    /\ seen' = [seen EXCEPT ![b][t] = Nil]

Goto(b, t, step) ==
    /\ at' = [at EXCEPT ![b][t] = step]
    /\ UNCHANGED mu

(* The request of the step that thread t of b stands at. *)
Call(b, t) ==
    CASE at[b][t] = "ensureStart" -> [kind |-> "ensure", run |-> 0]
      [] at[b][t] = "resumeStart" -> [kind |-> "resume", run |-> 0]
      [] at[b][t] = "pauseSignal" -> [kind |-> "signal", run |-> seen[b][t].run]
      [] OTHER                    -> [kind |-> "describe", run |-> 0]

(* What the server does with a request. *)
Serve(call) ==
    \/ /\ call.kind = "ensure"
       /\ \/ \E r \in Runs : StartFresh(r)
          \/ (\E r \in Runs : Live(r)) /\ UNCHANGED runsVars
    \/ /\ call.kind = "resume"
       /\ \E r \in Runs : StartFresh(r) \/ Replace(r)
    \/ /\ call.kind = "signal"
       /\ \/ Signal(call.run)
          \/ ~Live(call.run) /\ UNCHANGED runsVars
    \/ /\ call.kind = "describe"
       /\ UNCHANGED runsVars

(* Waiting is over once the thread is at a call. *)
InCall(b, t) == at[b][t] \in {"ensureStart", "ensureDescribe", "resumeStart",
                              "pauseDescribe", "pauseSignal", "refreshDescribe"}

(* Mutant of CallFails: the error ends the backend for good. *)
CallFailsFatal(b, t) ==
    /\ InCall(b, t)
    /\ faults < MaxFaults
    /\ faults' = faults + 1
    /\ Unlock(b, t)
    /\ up' = [up EXCEPT ![b] = "exited"]
    /\ UNCHANGED <<runsVars, strays, open, pausedRunID, ops, history>>

(* A call fails, as far as the caller can tell: it never arrived, or it    *)
(* was served and the answer was lost, or it is still on its way.  The     *)
(* method returns the error (Refresh logs it) and the cache is kept.       *)
CallFails(b, t) ==
    /\ InCall(b, t)
    /\ faults < MaxFaults
    /\ faults' = faults + 1
    /\ Unlock(b, t)
    /\ up' = [up EXCEPT ![b] = "serving"]
    /\ \/ UNCHANGED <<runsVars, strays>>
       \/ Call(b, t).kind # "describe" /\ Serve(Call(b, t)) /\ UNCHANGED strays
       \/ /\ Call(b, t).kind # "describe"
          /\ Cardinality(strays) < MaxStrays
          /\ strays' = strays \union {Call(b, t)}
          /\ UNCHANGED runsVars
    /\ UNCHANGED <<open, pausedRunID, ops, history>>
-----------------------------------------------------------------------------
(* Ensure, at startup.                                                     *)

(* NewSwitch, then Ensure: nothing else uses the Switch before it returns. *)
Boot(b) ==
    /\ up[b] = "down"
    /\ Lock(b, "handler", "ensureStart")
    /\ up' = [up EXCEPT ![b] = "booting"]
    /\ UNCHANGED <<runsVars, seen, open, pausedRunID, strays, ops, faults, history>>

(* start with USE_EXISTING *)
EnsureStart(b) ==
    /\ at[b]["handler"] = "ensureStart"
    /\ Serve(Call(b, "handler"))
    /\ Goto(b, "handler", "ensureDescribe")
    /\ UNCHANGED <<up, seen, open, pausedRunID, strays, ops, faults, history>>

(* describe, for any of the three methods that use it *)
Describe(b, t, from, to) ==
    /\ at[b][t] = from
    /\ seen' = [seen EXCEPT ![b][t] = Description]
    /\ Goto(b, t, to)
    /\ UNCHANGED <<runsVars, up, open, pausedRunID, strays, ops, faults, history>>

EnsureStore(b) ==
    /\ at[b]["handler"] = "ensureStore"
    /\ open' = [open EXCEPT ![b] = publishingOpen(seen[b]["handler"])]
    /\ pausedRunID' = [pausedRunID EXCEPT ![b] = 0]
    /\ up' = [up EXCEPT ![b] = "serving"]
    /\ Unlock(b, "handler")
    /\ UNCHANGED <<runsVars, strays, ops, faults, history>>
-----------------------------------------------------------------------------
(* Resume and Pause, for a request.                                        *)

Request(b, step) ==
    /\ up[b] = "serving"
    /\ ops < MaxOps
    /\ ops' = ops + 1
    /\ Lock(b, "handler", step)
    /\ UNCHANGED <<runsVars, up, seen, open, pausedRunID, strays, faults, history>>

(* start with TERMINATE_EXISTING; the new run is remembered for history *)
ResumeStart(b) ==
    /\ at[b]["handler"] = "resumeStart"
    /\ Serve(Call(b, "handler"))
    /\ seen' = [seen EXCEPT ![b]["handler"] = Description']
    /\ Goto(b, "handler", "resumeStore")
    /\ UNCHANGED <<up, open, pausedRunID, strays, ops, faults, history>>

ResumeStore(b) ==
    /\ at[b]["handler"] = "resumeStore"
    /\ open' = [open EXCEPT ![b] = TRUE]
    /\ pausedRunID' = [pausedRunID EXCEPT ![b] = 0]
    /\ resumed' = [resumed EXCEPT ![b] = seen[b]["handler"].run]
    /\ Unlock(b, "handler")
    /\ UNCHANGED <<runsVars, up, strays, ops, faults, paused>>

(* Mutant of PauseSignal: every error of the signal counts as NotFound. *)
PauseSignalAnyError(b) ==
    /\ at[b]["handler"] = "pauseSignal"
    /\ Serve(Call(b, "handler")) \/ UNCHANGED runsVars
    /\ Goto(b, "handler", "pauseStore")
    /\ UNCHANGED <<up, seen, open, pausedRunID, strays, ops, faults, history>>

(* The run that was described is signalled by its run ID.  A run that has  *)
(* ended answers NotFound, which is not an error.                          *)
PauseSignal(b) ==
    /\ at[b]["handler"] = "pauseSignal"
    /\ Serve(Call(b, "handler"))
    /\ Goto(b, "handler", "pauseStore")
    /\ UNCHANGED <<up, seen, open, pausedRunID, strays, ops, faults, history>>

PauseStore(b) ==
    LET info == seen[b]["handler"] IN
    /\ at[b]["handler"] = "pauseStore"
    /\ pausedRunID' = IF info = Nil THEN pausedRunID
                      ELSE [pausedRunID EXCEPT ![b] = info.run]
    /\ open' = [open EXCEPT ![b] = FALSE]
    /\ paused' = [paused EXCEPT ![b] = @ \union ({info.run} \ {0})]
    /\ resumed' = [resumed EXCEPT ![b] = 0]
    /\ Unlock(b, "handler")
    /\ UNCHANGED <<runsVars, up, strays, ops, faults>>
-----------------------------------------------------------------------------
(* Refresh, every interval.                                                *)

RefreshLock(b) ==
    /\ up[b] = "serving"
    /\ Lock(b, "refresher", "refreshDescribe")
    /\ UNCHANGED <<runsVars, up, seen, open, pausedRunID, strays, ops, faults, history>>

(* Mutant of ReadsOpen: the mark alone decides. *)
ReadsOpenByMark(b, info) == publishingOpen(info)

(* What Refresh makes of a Describe: the run this Switch paused is not     *)
(* open, even before it has processed the signal.                          *)
ReadsOpen(b, info) ==
    publishingOpen(info) /\ ~(pausedRunID[b] # 0 /\ info.run = pausedRunID[b])

(* Mutant of RefreshStore: it can only close the cached state. *)
RefreshStoreClosing(b) ==
    /\ at[b]["refresher"] = "refreshStore"
    /\ open' = [open EXCEPT ![b] = @ /\ ReadsOpen(b, seen[b]["refresher"])]
    /\ Unlock(b, "refresher")
    /\ UNCHANGED <<runsVars, up, pausedRunID, strays, ops, faults, history>>

RefreshStore(b) ==
    /\ at[b]["refresher"] = "refreshStore"
    /\ open' = [open EXCEPT ![b] = ReadsOpen(b, seen[b]["refresher"])]
    /\ Unlock(b, "refresher")
    /\ UNCHANGED <<runsVars, up, pausedRunID, strays, ops, faults, history>>
-----------------------------------------------------------------------------
(* A backend dies: its cache and its mutex die with it. *)
Crash(b) ==
    /\ up[b] # "down"
    /\ faults < MaxFaults
    /\ faults' = faults + 1
    /\ up' = [up EXCEPT ![b] = "down"]
    /\ mu' = [mu EXCEPT ![b] = "free"]
    /\ at' = [at EXCEPT ![b] = [t \in Threads |-> "idle"]]
    /\ seen' = [seen EXCEPT ![b] = [t \in Threads |-> Nil]]
    /\ open' = [open EXCEPT ![b] = FALSE]
    /\ pausedRunID' = [pausedRunID EXCEPT ![b] = 0]
    /\ paused' = [paused EXCEPT ![b] = {}]
    /\ resumed' = [resumed EXCEPT ![b] = 0]
    /\ UNCHANGED <<runsVars, strays, ops>>

(* A stray call arrives after all, or is dropped. *)
StrayArrives(call) ==
    /\ call \in strays
    /\ strays' = strays \ {call}
    /\ Serve(call) \/ UNCHANGED runsVars
    /\ UNCHANGED <<up, mu, at, seen, open, pausedRunID, ops, faults, history>>

(* The run moves on by itself: a signal is processed or the window ends,   *)
(* and in the end the run does.                                            *)
RunMoves(r) ==
    /\ Stop(r) \/ End(r)
    /\ UNCHANGED switchVars
-----------------------------------------------------------------------------
HandlerStep(b) ==
    \/ EnsureStart(b)
    \/ Describe(b, "handler", "ensureDescribe", "ensureStore")
    \/ EnsureStore(b)
    \/ ResumeStart(b) \/ ResumeStore(b)
    \/ Describe(b, "handler", "pauseDescribe",
                IF Description = Nil THEN "pauseStore" ELSE "pauseSignal")
    \/ PauseSignal(b) \/ PauseStore(b)

RefresherStep(b) ==
    \/ RefreshLock(b)
    \/ Describe(b, "refresher", "refreshDescribe", "refreshStore")
    \/ RefreshStore(b)

SwitchNext ==
    \/ \E b \in Backends :
          \/ Boot(b)
          \/ (\E r \in Runs : Fresh(r)) /\ Request(b, "resumeStart")
          \/ Request(b, "pauseDescribe")
          \/ HandlerStep(b) \/ RefresherStep(b) \/ Crash(b)
          \/ \E t \in Threads : CallFails(b, t)
    \/ \E call \in strays : StrayArrives(call)
    \/ \E r \in Runs : RunMoves(r)

SwitchSpec == SwitchInit /\ [][SwitchNext]_allVars

(* The backend's threads run and its restarts end; a signalled run stops.  *)
(* Faults and requests are finitely many, nothing else is assumed of them. *)
SwitchFairness ==
    /\ \A b \in Backends :
          WF_allVars(Boot(b)) /\ WF_allVars(HandlerStep(b)) /\ WF_allVars(RefresherStep(b))
    /\ \A r \in Runs : WF_allVars(r \in signalled /\ Stop(r) /\ UNCHANGED switchVars)

SwitchFairSpec == SwitchSpec /\ SwitchFairness
-----------------------------------------------------------------------------
SwitchTypeOK ==
    /\ RunsTypeOK
    /\ up \in [Backends -> {"down", "booting", "serving"}]
    /\ mu \in [Backends -> Threads \union {"free"}]
    /\ at \in [Backends -> [Threads -> Steps]]
    /\ seen \in [Backends -> [Threads -> [run : RunIDs, phase : Phases]]]
    /\ open \in [Backends -> BOOLEAN]
    /\ pausedRunID \in [Backends -> RunIDs]
    /\ strays \subseteq [kind : {"ensure", "resume", "signal"}, run : RunIDs]
    /\ ops \in 0..MaxOps
    /\ faults \in 0..MaxFaults
    /\ paused \in [Backends -> SUBSET Runs]
    /\ resumed \in [Backends -> RunIDs]

(* A run that a backend has paused never reads as open on it again, not    *)
(* even before the run processes the signal: no Refresh that was in flight *)
(* lands after the Pause, and none later misreads the unmarked run.        *)
PausedReadsPaused ==
    \A b \in Backends, r \in Runs :
        Latest(r) /\ r \in paused[b] => ~open[b]

(* After a Resume the backend reads as open until that run really stops:   *)
(* no Refresh that described the run before it lands afterwards.           *)
ResumedReadsOpen ==
    \A b \in Backends, r \in Runs :
        resumed[b] = r /\ phase[r] = "open" => open[b]

(* A Pause names one run, and a Resume of another backend, or a late one,  *)
(* may replace that run before the signal: then Pause succeeds and the new *)
(* run publishes.  That is all it can miss: a run that still goes on       *)
(* without a signal when Pause succeeds was started while Pause was under  *)
(* way, so that the outcome is that of the Pause before the Resume.        *)
PauseMissesOnlyNewer ==
    [][\A b \in Backends, r \in Runs :
          PauseStore(b) /\ Live(r) /\ r \notin signalled
          => r > seen[b]["handler"].run]_allVars

(* The cache converges on the truth once requests and faults are over,     *)
(* after any mixture of them: lost answers, restarts, runs that end by     *)
(* themselves, and with two backends the other's pauses and resumes.       *)
CacheConverges ==
    \A b \in Backends :
        <>[](up[b] = "serving" => (open[b] <=> publishingOpen(Description)))
=============================================================================
