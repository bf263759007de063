--------------------------- MODULE PublishingRuns ---------------------------
(***************************************************************************)
(* What the Temporal server shows of order publishing, and nothing else:   *)
(* the runs of the one workflow ID "order-publishing", each open (Running, *)
(* no stop mark), closing (Running with the stop mark in its memo) or over *)
(* (closed), and the runs that a pause signal has reached.                 *)
(*                                                                         *)
(* OrderPublishing implements this specification.  PublishingSwitch uses   *)
(* its actions as the world that a Switch reads with Describe.             *)
(***************************************************************************)
EXTENDS Naturals

CONSTANT MaxRuns

ASSUME MaxRunsAssumption == MaxRuns \in Nat \ {0}

Runs   == 1..MaxRuns
Phases == {"none", "open", "closing", "over"}

VARIABLES
    phase,      \* phase[r]: what a Describe of run r shows
    signalled   \* the runs whose history holds a pause signal

runsVars == <<phase, signalled>>

RunsInit ==
    /\ phase = [r \in Runs |-> "none"]
    /\ signalled = {}

Started(r) == phase[r] # "none"
Live(r)    == phase[r] \in {"open", "closing"}
Latest(r)  == Started(r) /\ \A q \in Runs : q > r => ~Started(q)
Fresh(r)   == ~Started(r) /\ \A q \in Runs : q < r => Started(q)

-----------------------------------------------------------------------------
(* ExecuteWorkflow with no run of the workflow ID live: a new run starts.  *)
StartFresh(r) ==
    /\ Fresh(r)
    /\ \A q \in Runs : ~Live(q)
    /\ phase' = [phase EXCEPT ![r] = "open"]
    /\ UNCHANGED signalled

(* Mutant of Replace: the live run goes on beside the new one. *)
StartBeside(r) ==
    /\ Fresh(r)
    /\ \E q \in Runs : Live(q)
    /\ phase' = [phase EXCEPT ![r] = "open"]
    /\ UNCHANGED signalled

(* ExecuteWorkflow with TERMINATE_EXISTING: the live run ends in the same  *)
(* server transaction that starts the new one.                             *)
Replace(r) ==
    /\ Fresh(r)
    /\ \E q \in Runs :
          /\ Live(q)
          /\ phase' = [phase EXCEPT ![q] = "over", ![r] = "open"]
    /\ UNCHANGED signalled

(* A pause signal reaches a live run. *)
Signal(r) ==
    /\ Live(r)
    /\ signalled' = signalled \union {r}
    /\ UNCHANGED phase

(* The run stops publishing: its window ran out, or it was signalled. *)
Stop(r) ==
    /\ phase[r] = "open"
    /\ phase' = [phase EXCEPT ![r] = "closing"]
    /\ UNCHANGED signalled

(* The run ends by itself: completed, failed, or timed out by the server. *)
End(r) ==
    /\ Live(r)
    /\ phase' = [phase EXCEPT ![r] = "over"]
    /\ UNCHANGED signalled

RunsNext ==
    \E r \in Runs :
        StartFresh(r) \/ Replace(r) \/ Signal(r) \/ Stop(r) \/ End(r)

RunsSpec == RunsInit /\ [][RunsNext]_runsVars
-----------------------------------------------------------------------------
RunsTypeOK ==
    /\ phase \in [Runs -> Phases]
    /\ signalled \subseteq Runs

(* At most one run is live, and it is the latest: what "at most one        *)
(* publishing run at a time" (workflow.go, WorkflowID) asks of the server. *)
OneLiveRun ==
    \A r \in Runs : Live(r) => Latest(r)
=============================================================================
