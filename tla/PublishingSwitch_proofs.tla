----------------------- MODULE PublishingSwitch_proofs -----------------------
(***************************************************************************)
(* Theorems about PublishingRuns and PublishingSwitch, for every number of *)
(* runs, backends, requests, faults and stray calls: first the runs alone, *)
(* then that the Switch changes them by their own actions only, then what  *)
(* its cache says.                                                         *)
(***************************************************************************)
EXTENDS PublishingSwitch, TLAPS

(* Runs are started in order, the latest one is unique and there is one as *)
(* soon as there is any, and only it is live.                              *)
RunsInv ==
    /\ RunsTypeOK
    /\ \A q, r \in Runs : q < r /\ Started(r) => Started(q)
    /\ (\E r \in Runs : Started(r)) => \E r \in Runs : Latest(r)
    /\ OneLiveRun

(* No run has started at first. *)
LEMMA InitRunsInv == RunsInit => RunsInv
BY DEF RunsInit, RunsInv, RunsTypeOK, OneLiveRun, Started, Live, Latest, Phases

(* Run 0 stands for none. *)
LEMMA RunsAreNumbers == \A r \in Runs : r \in Nat /\ r # 0
BY MaxRunsAssumption DEF Runs

(* What has started stays started, and opens, lives or is signalled only    *)
(* once.                                                                   *)
LEMMA RunsGrow ==
    ASSUME RunsTypeOK, [RunsNext]_runsVars
    PROVE  /\ RunsTypeOK'
           /\ \A r \in Runs : Started(r) =>
                 /\ Started(r)'
                 /\ Live(r)' => Live(r)
                 /\ phase'[r] = "open" => phase[r] = "open"
           /\ signalled \subseteq signalled'
<1> USE DEF RunsTypeOK, Phases, Started, Live
<1>1. ASSUME NEW r \in Runs, StartFresh(r) \/ Replace(r)
      PROVE  /\ RunsTypeOK'
             /\ \A q \in Runs : Started(q) =>
                   /\ Started(q)'
                   /\ Live(q)' => Live(q)
                   /\ phase'[q] = "open" => phase[q] = "open"
             /\ signalled \subseteq signalled'
  BY <1>1 DEF StartFresh, Replace, Fresh
<1>2. ASSUME NEW r \in Runs, Signal(r) \/ Stop(r) \/ End(r)
      PROVE  /\ RunsTypeOK'
             /\ \A q \in Runs : Started(q) =>
                   /\ Started(q)'
                   /\ Live(q)' => Live(q)
                   /\ phase'[q] = "open" => phase[q] = "open"
             /\ signalled \subseteq signalled'
  BY <1>2 DEF Signal, Stop, End
<1>3. CASE UNCHANGED runsVars
  BY <1>3 DEF runsVars
<1> QED
  BY <1>1, <1>2, <1>3 DEF RunsNext

(* A run that is fresh is newer than all others, and then the latest. *)
LEMMA FreshIsNewest ==
    ASSUME RunsInv, NEW r \in Runs, Fresh(r), NEW q \in Runs, Started(q)
    PROVE  q < r
BY RunsAreNumbers DEF RunsInv, Fresh

(* The run that starts is the latest, and no other is live. *)
LEMMA StartRunsInv ==
    ASSUME RunsInv, NEW r \in Runs, StartFresh(r) \/ Replace(r)
    PROVE  RunsInv' /\ Latest(r)'
<1>1. RunsTypeOK'
  BY RunsGrow DEF RunsInv, RunsNext
<1>2. Fresh(r)
  BY DEF StartFresh, Replace
<1>3. \A q \in Runs : Started(q)' <=> q = r \/ Started(q)
  BY DEF StartFresh, Replace, RunsInv, RunsTypeOK, Started, Live, Fresh
<1>4. \A q \in Runs : q # r => ~Live(q)'
  <2>1. CASE StartFresh(r)
    BY <2>1 DEF StartFresh, RunsInv, RunsTypeOK, Live
  <2>2. CASE Replace(r)
    <3>1. PICK p \in Runs : Live(p) /\ phase' = [phase EXCEPT ![p] = "over", ![r] = "open"]
      BY <2>2 DEF Replace
    <3>2. ASSUME NEW q \in Runs, q # r, Live(q)' PROVE Live(q) /\ q # p
      BY <3>1, <3>2 DEF RunsInv, RunsTypeOK, Live
    <3>3. ASSUME NEW q \in Runs, Live(q) PROVE q = p
      <4>1. Latest(p) /\ Latest(q)
        BY <3>1, <3>3 DEF RunsInv, OneLiveRun
      <4> QED
        BY <4>1, RunsAreNumbers DEF Latest
    <3> QED
      BY <3>2, <3>3
  <2> QED
    BY <2>1, <2>2
<1>5. Latest(r)'
  BY <1>2, <1>3, FreshIsNewest, RunsAreNumbers DEF Latest
<1>6. \A p, q \in Runs : p < q /\ Started(q)' => Started(p)'
  BY <1>2, <1>3 DEF RunsInv, Fresh
<1> QED
  BY <1>1, <1>4, <1>5, <1>6 DEF RunsInv, OneLiveRun

(* A signal, a stop or an end starts nothing. *)
LEMMA MoveRunsInv ==
    ASSUME RunsInv, NEW r \in Runs, Signal(r) \/ Stop(r) \/ End(r)
    PROVE  RunsInv'
<1>1. RunsTypeOK' /\ \A q \in Runs : (Started(q)' <=> Started(q)) /\ (Live(q)' => Live(q))
  BY DEF Signal, Stop, End, RunsInv, RunsTypeOK, Phases, Started, Live
<1>2. \A q \in Runs : Latest(q)' <=> Latest(q)
  BY <1>1 DEF Latest
<1> QED
  BY <1>1, <1>2 DEF RunsInv, OneLiveRun

(* Every step of the runs keeps their order. *)
LEMMA NextRunsInv == RunsInv /\ [RunsNext]_runsVars => RunsInv'
<1>1. RunsInv /\ UNCHANGED runsVars => RunsInv'
  BY DEF runsVars, RunsInv, RunsTypeOK, OneLiveRun, Started, Live, Latest
<1> QED
  BY <1>1, StartRunsInv, MoveRunsInv DEF RunsNext

(* The runs that Describe can show follow each other.  *)
THEOREM RunsInvariant == RunsSpec => []RunsInv
BY InitRunsInv, NextRunsInv, PTL DEF RunsSpec

(* At most one run is live, and it is the latest.                          *)
THEOREM LiveIsLatest == RunsSpec => []OneLiveRun
<1>1. RunsInv => OneLiveRun
  BY DEF RunsInv
<1> QED
  BY <1>1, RunsInvariant, PTL
-----------------------------------------------------------------------------
(* The inductive invariant of the Switch.                                  *)

HandlerSteps   == {"idle", "ensureStart", "ensureDescribe", "ensureStore", "resumeStart",
                   "resumeStore", "pauseDescribe", "pauseSignal", "pauseStore"}
RefresherSteps == {"idle", "refreshDescribe", "refreshStore"}
EnsureSteps    == {"ensureStart", "ensureDescribe", "ensureStore"}

(* mu works: the thread that is under way holds it. *)
LockInv(b) ==
    /\ \A t \in Threads : at[b][t] # "idle" => mu[b] = t
    /\ at[b]["handler"] \in HandlerSteps
    /\ at[b]["refresher"] \in RefresherSteps

(* Ensure runs before any request and any Refresh. *)
BootInv(b) ==
    /\ up[b] # "serving" => paused[b] = {} /\ resumed[b] = 0
    /\ \A t \in Threads :
          /\ at[b][t] \in EnsureSteps => up[b] = "booting"
          /\ at[b][t] \notin EnsureSteps \union {"idle"} => up[b] = "serving"

(* What the cache says of the run that was paused, or resumed, last. *)
CacheInv(b) ==
    /\ \A r \in paused[b] :
          Started(r) /\ (Latest(r) => ~open[b] /\ pausedRunID[b] = r)
    /\ resumed[b] # 0 =>
          /\ Started(resumed[b])
          /\ pausedRunID[b] = 0
          /\ phase[resumed[b]] = "open" => open[b]

(* What an answer in hand still says: no run that this backend has paused  *)
(* or resumed is newer, and it showed as open any run that is open now.    *)
SeenInv(b, t) ==
    LET info == seen[b][t] IN
    /\ at[b][t] \in {"ensureStore", "resumeStore", "pauseSignal", "pauseStore", "refreshStore"} =>
          /\ info.run = 0 => info.phase = "none"
          /\ info.run # 0 => Started(info.run) /\ (phase[info.run] = "open" => info.phase = "open")
          /\ \A r \in paused[b] : r <= info.run
    /\ at[b][t] = "resumeStore" => info.run # 0 /\ \A r \in paused[b] : r < info.run
    /\ at[b][t] = "refreshStore" => resumed[b] <= info.run
    /\ at[b][t] = "pauseSignal" => info.run # 0

BackendInv(b) ==
    /\ LockInv(b)
    /\ BootInv(b)
    /\ CacheInv(b)
    /\ \A t \in Threads : SeenInv(b, t)

SwitchInv ==
    /\ SwitchTypeOK
    /\ RunsInv
    /\ \A call \in strays : call.kind = "signal" => call.run # 0
    /\ \A b \in Backends : BackendInv(b)
-----------------------------------------------------------------------------
(* What one backend keeps while the world moves on or another backend acts. *)

SwitchOf(b) == <<up[b], mu[b], at[b], seen[b], open[b], pausedRunID[b], paused[b], resumed[b]>>

(* The backends have not booted at first. *)
LEMMA InitSwitchInv == SwitchInit => SwitchInv
<1> SUFFICES ASSUME SwitchInit PROVE SwitchInv
  OBVIOUS
<1>1. RunsInv
  BY InitRunsInv DEF SwitchInit
<1>2. SwitchTypeOK
  BY <1>1, SwitchAssumption, MaxRunsAssumption
  DEF SwitchInit, SwitchTypeOK, RunsInv, Threads, Steps, Nil, RunIDs, Phases
<1>3. ASSUME NEW b \in Backends PROVE BackendInv(b)
  BY DEF SwitchInit, BackendInv, LockInv, BootInv, EnsureSteps, CacheInv, SeenInv, Threads,
         HandlerSteps, RefresherSteps
<1>4. strays = {}
  BY DEF SwitchInit
<1> QED
  BY <1>1, <1>2, <1>3, <1>4 DEF SwitchInv

(* A request, other than a signal to no run, changes the runs as Temporal  *)
(* would.                                                                  *)
LEMMA ServeMovesRuns ==
    ASSUME NEW call, call.kind = "signal" => call.run \in Runs, Serve(call)
    PROVE  [RunsNext]_runsVars
BY DEF Serve, RunsNext

(* A run that is the latest after a step was the latest if it had started. *)
LEMMA LaterIsLatest ==
    ASSUME RunsInv, [RunsNext]_runsVars, NEW r \in Runs, Started(r), Latest(r)'
    PROVE  Latest(r)
BY RunsGrow DEF RunsInv, Latest

(* The runs move on under a cache that does not change. *)
LEMMA CacheKept ==
    ASSUME RunsInv, SwitchTypeOK, [RunsNext]_runsVars,
           NEW b \in Backends, CacheInv(b),
           open'[b] = open[b], pausedRunID'[b] = pausedRunID[b],
           paused'[b] = paused[b], resumed'[b] = resumed[b]
    PROVE  CacheInv(b)'
<1>1. paused[b] \subseteq Runs /\ (resumed[b] # 0 => resumed[b] \in Runs)
  BY MaxRunsAssumption DEF SwitchTypeOK, RunIDs, Runs
<1>2. ASSUME NEW r \in paused[b]
      PROVE  Started(r)' /\ (Latest(r)' => ~open[b] /\ pausedRunID[b] = r)
  BY <1>1, <1>2, RunsGrow, LaterIsLatest DEF CacheInv, RunsInv
<1>3. ASSUME resumed[b] # 0
      PROVE  /\ Started(resumed[b])'
             /\ pausedRunID[b] = 0
             /\ phase'[resumed[b]] = "open" => open[b]
  BY <1>1, <1>3, RunsGrow DEF CacheInv, RunsInv
<1> QED
  BY <1>2, <1>3 DEF CacheInv, Started

(* The runs move on after a Describe: what it saw gets older, not wrong. *)
LEMMA SeenKept ==
    ASSUME RunsInv, SwitchTypeOK, [RunsNext]_runsVars,
           NEW b \in Backends, NEW t \in Threads, SeenInv(b, t),
           at'[b][t] = at[b][t], seen'[b][t] = seen[b][t],
           paused'[b] = paused[b], resumed'[b] = resumed[b]
    PROVE  SeenInv(b, t)'
<1> DEFINE info == seen[b][t]
<1>1. info.run # 0 => info.run \in Runs
  BY MaxRunsAssumption DEF SwitchTypeOK, RunIDs, Runs
<1>2. info.run # 0 /\ Started(info.run) /\ (phase[info.run] = "open" => info.phase = "open")
      => Started(info.run)' /\ (phase'[info.run] = "open" => info.phase = "open")
  BY <1>1, RunsGrow DEF RunsInv
<1> QED
  BY <1>2 DEF SeenInv, Started

(* A backend that takes no step keeps its invariant. *)
LEMMA BackendKept ==
    ASSUME RunsInv, SwitchTypeOK, [RunsNext]_runsVars,
           NEW b \in Backends, BackendInv(b), UNCHANGED SwitchOf(b)
    PROVE  BackendInv(b)'
<1>1. /\ up'[b] = up[b] /\ mu'[b] = mu[b] /\ at'[b] = at[b] /\ seen'[b] = seen[b]
      /\ open'[b] = open[b] /\ pausedRunID'[b] = pausedRunID[b]
      /\ paused'[b] = paused[b] /\ resumed'[b] = resumed[b]
  BY DEF SwitchOf
<1>2. LockInv(b)' /\ BootInv(b)'
  BY <1>1 DEF BackendInv, LockInv, BootInv
<1>3. CacheInv(b)' /\ \A t \in Threads : SeenInv(b, t)'
  BY <1>1, CacheKept, SeenKept DEF BackendInv
<1> QED
  BY <1>2, <1>3 DEF BackendInv
-----------------------------------------------------------------------------
(* What Describe and a start tell.                                         *)

(* A Describe shows the latest run. *)
LEMMA LatestIsDescribed ==
    ASSUME RunsInv, NEW r \in Runs, Latest(r)
    PROVE  Description = [run |-> r, phase |-> phase[r]]
<1>1. \A q \in Runs : Latest(q) => q = r
  BY RunsAreNumbers DEF Latest
<1> QED
  BY <1>1 DEF Description

(* What a Describe shows is a run that has started, and its phase. *)
LEMMA DescriptionTells ==
    ASSUME RunsInv
    PROVE  /\ Description \in [run : RunIDs, phase : Phases]
           /\ Description.run = 0 <=> Description = Nil
           /\ Description.run # 0 =>
                 Started(Description.run) /\ phase[Description.run] = Description.phase
           /\ \A r \in Runs : Started(r) => r <= Description.run
<1>1. CASE \E r \in Runs : Latest(r)
  <2>1. PICK r \in Runs : Latest(r)
    BY <1>1
  <2>2. Description = [run |-> r, phase |-> phase[r]]
    BY <2>1, LatestIsDescribed
  <2>3. \A q \in Runs : Started(q) => q <= r
    BY <2>1, RunsAreNumbers DEF Latest
  <2>4. r \in RunIDs /\ r # 0 /\ phase[r] \in Phases /\ Started(r)
    BY <2>1, RunsAreNumbers, MaxRunsAssumption DEF RunsInv, RunsTypeOK, RunIDs, Runs, Latest
  <2> QED
    BY <2>2, <2>3, <2>4 DEF Nil
<1>2. CASE ~\E r \in Runs : Latest(r)
  <2>1. Description = Nil /\ \A r \in Runs : ~Started(r)
    BY <1>2 DEF Description, RunsInv
  <2> QED
    BY <2>1, MaxRunsAssumption DEF Nil, RunIDs, Phases
<1> QED
  BY <1>1, <1>2

(* After a start a Describe shows the new run, newer than all others. *)
LEMMA StartIsDescribed ==
    ASSUME RunsInv, NEW r \in Runs, StartFresh(r) \/ Replace(r)
    PROVE  /\ Description' = [run |-> r, phase |-> "open"]
           /\ Started(r)'
           /\ \A q \in Runs : Started(q) => q < r
<1>1. Latest(r)' /\ Fresh(r) /\ RunsInv'
  BY StartRunsInv DEF StartFresh, Replace
<1>2. \A q \in Runs : Latest(q)' => q = r
  BY <1>1, RunsAreNumbers DEF Latest
<1>3. phase'[r] = "open"
  BY DEF StartFresh, Replace, RunsInv, RunsTypeOK
<1>4. Description' = [run |-> r, phase |-> "open"]
  BY <1>1, <1>2, <1>3 DEF Description
<1> QED
  BY <1>1, <1>4, FreshIsNewest DEF Latest
-----------------------------------------------------------------------------
(* The steps of a backend, or of its server on its behalf.                 *)

BackendStep(b) ==
    \/ Boot(b)
    \/ Request(b, "resumeStart") \/ Request(b, "pauseDescribe")
    \/ HandlerStep(b) \/ RefresherStep(b) \/ Crash(b)
    \/ \E t \in Threads : CallFails(b, t)

(* A backend changes no switch but its own. *)
LEMMA OthersKept ==
    ASSUME SwitchTypeOK, NEW b \in Backends, BackendStep(b),
           NEW c \in Backends, c # b
    PROVE  UNCHANGED SwitchOf(c)
<1> USE DEF SwitchTypeOK, SwitchOf, Lock, Unlock, Goto, history
<1>1. CASE Boot(b) \/ Request(b, "resumeStart") \/ Request(b, "pauseDescribe") \/ RefreshLock(b)
  BY <1>1 DEF Boot, Request, RefreshLock
<1>2. CASE EnsureStart(b) \/ EnsureStore(b) \/ ResumeStart(b) \/ ResumeStore(b)
  BY <1>2 DEF EnsureStart, EnsureStore, ResumeStart, ResumeStore
<1>3. CASE PauseSignal(b) \/ PauseStore(b) \/ RefreshStore(b) \/ Crash(b)
  BY <1>3 DEF PauseSignal, PauseStore, RefreshStore, Crash
<1>4. CASE \E t \in Threads, from, to \in Steps : Describe(b, t, from, to)
  BY <1>4 DEF Describe
<1>5. CASE \E t \in Threads : CallFails(b, t)
  BY <1>5 DEF CallFails
<1>6. /\ "ensureDescribe" \in Steps /\ "ensureStore" \in Steps /\ "pauseDescribe" \in Steps
      /\ "pauseStore" \in Steps /\ "pauseSignal" \in Steps
      /\ "refreshDescribe" \in Steps /\ "refreshStore" \in Steps
      /\ "handler" \in Threads /\ "refresher" \in Threads
  BY DEF Steps, Threads
<1> QED
  BY <1>1, <1>2, <1>3, <1>4, <1>5, <1>6 DEF BackendStep, HandlerStep, RefresherStep
-----------------------------------------------------------------------------
(* Types, and the requests that are made.                                  *)

(* The signal that a backend sends is for a run. *)
LEMMA CallsAreServed ==
    ASSUME SwitchInv, NEW b \in Backends, NEW t \in Threads, InCall(b, t)
    PROVE  /\ Call(b, t).kind # "describe" =>
                 Call(b, t) \in [kind : {"ensure", "resume", "signal"}, run : RunIDs]
           /\ Call(b, t).kind = "signal" => Call(b, t).run \in Runs
<1>1. at[b][t] = "pauseSignal" => seen[b][t].run # 0
  BY DEF SwitchInv, BackendInv, SeenInv
<1>2. seen[b][t].run \in RunIDs
  BY DEF SwitchInv, SwitchTypeOK
<1>3. \A r \in RunIDs : r # 0 => r \in Runs
  BY MaxRunsAssumption DEF RunIDs, Runs
<1>4. 0 \in RunIDs
  BY MaxRunsAssumption DEF RunIDs
<1> QED
  BY <1>1, <1>2, <1>3, <1>4 DEF Call

(* So is the signal that is on its way. *)
LEMMA StraysAreServed ==
    ASSUME SwitchInv, NEW call \in strays, call.kind = "signal"
    PROVE  call.run \in Runs
BY MaxRunsAssumption DEF SwitchInv, SwitchTypeOK, RunIDs, Runs

(* Every step moves the runs as RunsNext does, or not at all.              *)
LEMMA SwitchMovesRuns ==
    ASSUME SwitchInv, [SwitchNext]_allVars
    PROVE  [RunsNext]_runsVars
<1>1. ASSUME NEW b \in Backends, BackendStep(b) PROVE [RunsNext]_runsVars
  <2>1. CASE \E t \in Threads : CallFails(b, t)
    <3>1. PICK t \in Threads : CallFails(b, t)
      BY <2>1
    <3>2. InCall(b, t) /\ (UNCHANGED runsVars \/ Serve(Call(b, t)))
      BY <3>1 DEF CallFails
    <3> QED
      BY <3>2, CallsAreServed, ServeMovesRuns
  <2>2. CASE EnsureStart(b) \/ ResumeStart(b) \/ PauseSignal(b)
    <3>1. InCall(b, "handler") /\ Serve(Call(b, "handler"))
      BY <2>2 DEF EnsureStart, ResumeStart, PauseSignal, InCall
    <3> QED
      BY <3>1, CallsAreServed, ServeMovesRuns DEF Threads
  <2>3. CASE UNCHANGED runsVars
    BY <2>3
  <2> QED
    BY <1>1, <2>1, <2>2, <2>3
    DEF BackendStep, HandlerStep, RefresherStep, Boot, Request, Describe, EnsureStore,
        ResumeStore, PauseStore, RefreshLock, RefreshStore, Crash
<1>2. ASSUME NEW call \in strays, StrayArrives(call) PROVE [RunsNext]_runsVars
  BY <1>2, StraysAreServed, ServeMovesRuns DEF StrayArrives
<1>3. ASSUME NEW r \in Runs, RunMoves(r) PROVE [RunsNext]_runsVars
  BY <1>3 DEF RunMoves, RunsNext
<1>4. CASE UNCHANGED allVars
  BY <1>4 DEF allVars
<1> QED
  BY <1>1, <1>2, <1>3, <1>4 DEF SwitchNext, BackendStep

(* A backend's steps keep the types. *)
LEMMA BackendTypeOK ==
    ASSUME SwitchInv, NEW b \in Backends, BackendStep(b), [RunsNext]_runsVars
    PROVE  SwitchTypeOK'
<1> USE DEF SwitchTypeOK, Lock, Unlock, Goto, history
<1>0. SwitchTypeOK /\ RunsTypeOK' /\ RunsInv
  BY RunsGrow DEF SwitchInv, RunsInv
<1>1. /\ "handler" \in Threads /\ "refresher" \in Threads
      /\ 0 \in RunIDs /\ Nil \in [run : RunIDs, phase : Phases]
  BY MaxRunsAssumption DEF Threads, Nil, Phases, RunIDs
<1>2. ASSUME NEW step \in {"resumeStart", "pauseDescribe"}, Request(b, step)
      PROVE  SwitchTypeOK'
  BY <1>0, <1>1, <1>2, SwitchAssumption DEF Request, Steps
<1>3. CASE Boot(b)
  BY <1>0, <1>1, <1>3 DEF Boot, Steps
<1>4. CASE RefreshLock(b)
  BY <1>0, <1>1, <1>4 DEF RefreshLock, Steps
<1>5. CASE EnsureStart(b) \/ EnsureStore(b)
  <2>1. CASE EnsureStart(b)
    BY <1>0, <1>1, <2>1 DEF EnsureStart, Steps
  <2>2. CASE EnsureStore(b)
    BY <1>0, <1>1, <2>2 DEF EnsureStore, publishingOpen, Steps
  <2> QED
    BY <1>5, <2>1, <2>2
<1>6. CASE ResumeStart(b)
  <2>1. PICK r \in Runs : StartFresh(r) \/ Replace(r)
    BY <1>6 DEF ResumeStart, Serve, Call
  <2>2. Description' \in [run : RunIDs, phase : Phases]
    BY <1>0, <2>1, StartIsDescribed, MaxRunsAssumption DEF RunIDs, Runs, Phases
  <2> QED
    BY <1>0, <1>1, <1>6, <2>2 DEF ResumeStart, Steps
<1>7. CASE ResumeStore(b) \/ PauseStore(b)
  <2>1. /\ seen[b]["handler"].run \in RunIDs
        /\ {seen[b]["handler"].run} \ {0} \subseteq Runs
    BY <1>0, <1>1, MaxRunsAssumption DEF RunIDs, Runs
  <2>2. CASE ResumeStore(b)
    BY <1>0, <1>1, <2>1, <2>2 DEF ResumeStore, Steps
  <2>3. CASE PauseStore(b)
    BY <1>0, <1>1, <2>1, <2>3 DEF PauseStore, Steps
  <2> QED
    BY <1>7, <2>2, <2>3
<1>8. CASE PauseSignal(b)
  BY <1>0, <1>1, <1>8 DEF PauseSignal, Steps
<1>9. CASE RefreshStore(b)
  BY <1>0, <1>1, <1>9 DEF RefreshStore, publishingOpen, ReadsOpen, Steps
<1>10. ASSUME NEW t \in Threads, NEW from \in Steps, NEW to \in Steps, Describe(b, t, from, to)
       PROVE  SwitchTypeOK'
  BY <1>0, <1>10, DescriptionTells DEF Describe
<1>11. CASE Crash(b)
  BY <1>0, <1>1, <1>11, SwitchAssumption DEF Crash, Steps
<1>12. ASSUME NEW t \in Threads, CallFails(b, t)
       PROVE  SwitchTypeOK'
  <2>1. strays' \subseteq [kind : {"ensure", "resume", "signal"}, run : RunIDs]
    BY <1>0, <1>12, CallsAreServed DEF CallFails
  <2> QED
    BY <1>0, <1>1, <1>12, <2>1, SwitchAssumption DEF CallFails, Steps
<1>13. /\ "ensureDescribe" \in Steps /\ "ensureStore" \in Steps /\ "pauseDescribe" \in Steps
       /\ "pauseStore" \in Steps /\ "pauseSignal" \in Steps
       /\ "refreshDescribe" \in Steps /\ "refreshStore" \in Steps
  BY DEF Steps
<1> QED
  BY <1>1, <1>2, <1>3, <1>4, <1>5, <1>6, <1>7, <1>8, <1>9, <1>10, <1>11, <1>12, <1>13
  DEF BackendStep, HandlerStep, RefresherStep
-----------------------------------------------------------------------------
(* The mutex: one thread of a backend is under way, the other one idle.     *)

StepsOf(t) == IF t = "handler" THEN HandlerSteps ELSE RefresherSteps

(* While one thread is under way, the other is not. *)
LEMMA OneUnderWay ==
    ASSUME SwitchInv, NEW b \in Backends, NEW t \in Threads, NEW u \in Threads,
           at[b][t] # "idle", u # t
    PROVE  at[b][u] = "idle"
BY DEF SwitchInv, BackendInv, LockInv

(* A thread that is not under way has no answer in hand. *)
LEMMA IdleSeenInv ==
    ASSUME NEW b \in Backends, NEW t \in Threads, at'[b][t] = "idle"
    PROVE  SeenInv(b, t)'
BY DEF SeenInv

(* The thread that takes mu is the only one under way. *)
LEMMA AfterLock ==
    ASSUME SwitchInv, NEW b \in Backends, NEW t \in Threads,
           NEW step \in StepsOf(t), Lock(b, t, step)
    PROVE  /\ LockInv(b)'
           /\ at'[b][t] = step
           /\ \A u \in Threads : u # t => at'[b][u] = "idle"
<1>1. \A u \in Threads : at[b][u] = "idle"
  BY DEF SwitchInv, BackendInv, LockInv, Lock, Threads
<1>2. /\ at \in [Backends -> [Threads -> Steps]]
      /\ mu \in [Backends -> Threads \union {"free"}]
  BY DEF SwitchInv, SwitchTypeOK
<1>3. at'[b][t] = step /\ mu'[b] = t /\ \A u \in Threads : u # t => at'[b][u] = "idle"
  BY <1>1, <1>2 DEF Lock
<1> QED
  BY <1>3 DEF LockInv, Threads, StepsOf, HandlerSteps, RefresherSteps

(* And it still is after each of its steps. *)
LEMMA AfterGoto ==
    ASSUME SwitchInv, NEW b \in Backends, NEW t \in Threads, at[b][t] # "idle",
           NEW step \in StepsOf(t), Goto(b, t, step)
    PROVE  /\ LockInv(b)'
           /\ at'[b][t] = step
           /\ \A u \in Threads : u # t => at'[b][u] = "idle"
<1>1. mu[b] = t /\ \A u \in Threads : u # t => at[b][u] = "idle"
  BY OneUnderWay DEF SwitchInv, BackendInv, LockInv
<1>2. at \in [Backends -> [Threads -> Steps]]
  BY DEF SwitchInv, SwitchTypeOK
<1>3. at'[b][t] = step /\ mu'[b] = t /\ \A u \in Threads : u # t => at'[b][u] = "idle"
  BY <1>1, <1>2 DEF Goto
<1> QED
  BY <1>3 DEF LockInv, Threads, StepsOf, HandlerSteps, RefresherSteps

(* Once it lets go of mu, no thread is under way. *)
LEMMA AfterUnlock ==
    ASSUME SwitchInv, NEW b \in Backends, NEW t \in Threads, at[b][t] # "idle",
           Unlock(b, t)
    PROVE  LockInv(b)' /\ \A u \in Threads : at'[b][u] = "idle" /\ SeenInv(b, u)'
<1>1. at \in [Backends -> [Threads -> Steps]]
  BY DEF SwitchInv, SwitchTypeOK
<1>2. \A u \in Threads : at'[b][u] = "idle"
  BY <1>1, OneUnderWay DEF Unlock
<1> QED
  BY <1>2, IdleSeenInv DEF LockInv, Threads, HandlerSteps, RefresherSteps
-----------------------------------------------------------------------------
(* Each step keeps the invariant of its backend: first the steps that take *)
(* the mutex, then those under it in the order of the methods.             *)

(* The steps that take mu. *)
LEMMA LockingSteps ==
    ASSUME SwitchInv, NEW b \in Backends,
           \/ Boot(b)
           \/ Request(b, "resumeStart") \/ Request(b, "pauseDescribe")
           \/ RefreshLock(b)
    PROVE  BackendInv(b)'
<1> USE DEF StepsOf, HandlerSteps, RefresherSteps, Threads
<1>1. UNCHANGED runsVars /\ open'[b] = open[b] /\ pausedRunID'[b] = pausedRunID[b]
      /\ paused'[b] = paused[b] /\ resumed'[b] = resumed[b]
  BY DEF Boot, Request, RefreshLock, history
<1>2. CacheInv(b)'
  BY <1>1, CacheKept DEF SwitchInv, BackendInv
<1>3. CASE Boot(b)
  <2>1. LockInv(b)' /\ at'[b]["handler"] = "ensureStart" /\ at'[b]["refresher"] = "idle"
    BY <1>3, AfterLock DEF Boot
  <2>2. up[b] = "down" /\ up'[b] = "booting"
    BY <1>3 DEF Boot, SwitchInv, SwitchTypeOK
  <2>3. BootInv(b)' /\ \A t \in Threads : SeenInv(b, t)'
    BY <1>1, <2>1, <2>2 DEF BootInv, EnsureSteps, SeenInv, SwitchInv, BackendInv
  <2> QED
    BY <1>2, <2>1, <2>3 DEF BackendInv
<1>4. ASSUME NEW step \in {"resumeStart", "pauseDescribe"}, Request(b, step)
      PROVE  BackendInv(b)'
  <2>1. LockInv(b)' /\ at'[b]["handler"] = step /\ at'[b]["refresher"] = "idle"
    BY <1>4, AfterLock DEF Request
  <2>2. up[b] = "serving" /\ up' = up
    BY <1>4 DEF Request
  <2>3. BootInv(b)' /\ \A t \in Threads : SeenInv(b, t)'
    BY <2>1, <2>2 DEF BootInv, EnsureSteps, SeenInv
  <2> QED
    BY <1>2, <2>1, <2>3 DEF BackendInv
<1>5. CASE RefreshLock(b)
  <2>1. LockInv(b)' /\ at'[b]["refresher"] = "refreshDescribe" /\ at'[b]["handler"] = "idle"
    BY <1>5, AfterLock DEF RefreshLock
  <2>2. up[b] = "serving" /\ up' = up
    BY <1>5 DEF RefreshLock
  <2>3. BootInv(b)' /\ \A t \in Threads : SeenInv(b, t)'
    BY <2>1, <2>2 DEF BootInv, EnsureSteps, SeenInv
  <2> QED
    BY <1>2, <2>1, <2>3 DEF BackendInv
<1> QED
  BY <1>3, <1>4, <1>5

(* A call that leaves the cache and the answers alone. *)
LEMMA CallingSteps ==
    ASSUME SwitchInv, NEW b \in Backends, [RunsNext]_runsVars,
           EnsureStart(b) \/ PauseSignal(b)
    PROVE  BackendInv(b)'
<1> USE DEF StepsOf, HandlerSteps, RefresherSteps, Threads
<1>1. /\ up' = up /\ open' = open /\ pausedRunID' = pausedRunID /\ seen' = seen
      /\ paused' = paused /\ resumed' = resumed
  BY DEF EnsureStart, PauseSignal, history
<1>2. CacheInv(b)'
  BY <1>1, CacheKept DEF SwitchInv, BackendInv
<1>3. CASE EnsureStart(b)
  <2>1. LockInv(b)' /\ at'[b]["handler"] = "ensureDescribe" /\ at'[b]["refresher"] = "idle"
    BY <1>3, AfterGoto DEF EnsureStart
  <2>2. BootInv(b)' /\ \A t \in Threads : SeenInv(b, t)'
    BY <1>1, <1>3, <2>1 DEF EnsureStart, BootInv, EnsureSteps, SeenInv, SwitchInv, BackendInv
  <2> QED
    BY <1>2, <2>1, <2>2 DEF BackendInv
<1>4. CASE PauseSignal(b)
  <2>1. LockInv(b)' /\ at'[b]["handler"] = "pauseStore" /\ at'[b]["refresher"] = "idle"
    BY <1>4, AfterGoto DEF PauseSignal
  <2>2. BootInv(b)'
    BY <1>1, <1>4, <2>1 DEF PauseSignal, BootInv, EnsureSteps, SwitchInv, BackendInv
  <2>3. at[b]["handler"] = "pauseSignal" /\ SeenInv(b, "handler")
    BY <1>4 DEF PauseSignal, SwitchInv, BackendInv
  <2>4. seen[b]["handler"].run \in Runs
    BY <2>3, MaxRunsAssumption DEF SeenInv, SwitchInv, SwitchTypeOK, RunIDs, Runs
  <2>5. SeenInv(b, "handler")'
    BY <1>1, <2>1, <2>3, <2>4, RunsGrow DEF SeenInv, SwitchInv, RunsInv
  <2> QED
    BY <1>2, <2>1, <2>2, <2>5, IdleSeenInv DEF BackendInv
<1> QED
  BY <1>3, <1>4
-----------------------------------------------------------------------------
(* A Describe shows the latest run, which no run of the history outruns.   *)
LEMMA DescribingSteps ==
    ASSUME SwitchInv, NEW b \in Backends, NEW t \in Threads, NEW from,
           NEW to \in {"ensureStore", "pauseSignal", "pauseStore", "refreshStore"},
           Describe(b, t, from, to), from # "idle", to \in StepsOf(t),
           to = "ensureStore" <=> from \in EnsureSteps,
           to = "pauseSignal" => Description # Nil
    PROVE  BackendInv(b)'
<1>1. /\ up' = up /\ open' = open /\ pausedRunID' = pausedRunID /\ UNCHANGED runsVars
      /\ paused' = paused /\ resumed' = resumed /\ at[b][t] = from
      /\ Goto(b, t, to)
  BY DEF Describe, history
<1>2. seen'[b][t] = Description
  BY DEF Describe, SwitchInv, SwitchTypeOK
<1>3. LockInv(b)' /\ at'[b][t] = to /\ \A u \in Threads : u # t => at'[b][u] = "idle"
  BY <1>1, AfterGoto
<1>4. CacheInv(b)'
  BY <1>1, CacheKept DEF SwitchInv, BackendInv
<1>5. BootInv(b)'
  BY <1>1, <1>3 DEF BootInv, EnsureSteps, SwitchInv, BackendInv, LockInv, Threads, RefresherSteps
<1>6. /\ Description.run = 0 <=> Description = Nil
      /\ Description.run # 0 =>
            Started(Description.run) /\ phase[Description.run] = Description.phase
      /\ \A r \in Runs : Started(r) => r <= Description.run
      /\ Description.run \in Nat
  BY DescriptionTells, MaxRunsAssumption DEF SwitchInv, RunIDs
<1>7. /\ \A r \in paused[b] : r <= Description.run
      /\ resumed[b] <= Description.run
  <2>1. paused[b] \subseteq Runs /\ (resumed[b] # 0 => resumed[b] \in Runs)
    BY MaxRunsAssumption DEF SwitchInv, SwitchTypeOK, RunIDs, Runs
  <2>2. CacheInv(b)
    BY DEF SwitchInv, BackendInv
  <2> QED
    BY <1>6, <2>1, <2>2 DEF CacheInv
<1>8. SeenInv(b, t)'
  <2>1. Description = Nil => Description.phase = "none"
    BY DEF Nil
  <2> QED
    BY <1>1, <1>2, <1>3, <1>6, <1>7, <2>1 DEF SeenInv, runsVars, Started
<1> QED
  BY <1>3, <1>4, <1>5, <1>8, IdleSeenInv DEF BackendInv

(* The run that a Resume starts is newer than every run of the history.    *)
LEMMA ResumingStep ==
    ASSUME SwitchInv, NEW b \in Backends, [RunsNext]_runsVars, ResumeStart(b)
    PROVE  BackendInv(b)'
<1>1. /\ up' = up /\ open' = open /\ pausedRunID' = pausedRunID
      /\ paused' = paused /\ resumed' = resumed /\ at[b]["handler"] = "resumeStart"
      /\ Goto(b, "handler", "resumeStore")
  BY DEF ResumeStart, history
<1>2. PICK r \in Runs : StartFresh(r) \/ Replace(r)
  BY DEF ResumeStart, Serve, Call
<1>3. /\ Description' = [run |-> r, phase |-> "open"]
      /\ Started(r)'
      /\ \A q \in Runs : Started(q) => q < r
  BY <1>2, StartIsDescribed DEF SwitchInv
<1>4. seen'[b]["handler"] = [run |-> r, phase |-> "open"]
  BY <1>3 DEF ResumeStart, SwitchInv, SwitchTypeOK, Threads
<1>5. LockInv(b)' /\ at'[b]["handler"] = "resumeStore" /\ at'[b]["refresher"] = "idle"
  BY <1>1, AfterGoto DEF StepsOf, HandlerSteps, Threads
<1>6. CacheInv(b)'
  BY <1>1, CacheKept DEF SwitchInv, BackendInv
<1>7. BootInv(b)'
  BY <1>1, <1>5 DEF BootInv, EnsureSteps, Threads, SwitchInv, BackendInv
<1>8. \A q \in paused[b] : q < r /\ q \in Nat
  BY <1>3, RunsAreNumbers DEF SwitchInv, SwitchTypeOK, BackendInv, CacheInv
<1>9. SeenInv(b, "handler")'
  BY <1>1, <1>3, <1>4, <1>5, <1>8, RunsAreNumbers DEF SeenInv, Started
<1> QED
  BY <1>5, <1>6, <1>7, <1>9, IdleSeenInv DEF BackendInv, Threads

(* Ensure, Resume, Pause and Refresh end by writing the cache. *)
LEMMA EnsureStoring ==
    ASSUME SwitchInv, NEW b \in Backends, EnsureStore(b)
    PROVE  BackendInv(b)'
<1>1. /\ at[b]["handler"] = "ensureStore" /\ Unlock(b, "handler") /\ UNCHANGED runsVars
      /\ paused' = paused /\ resumed' = resumed
  BY DEF EnsureStore, history
<1>2. LockInv(b)' /\ \A u \in Threads : at'[b][u] = "idle" /\ SeenInv(b, u)'
  BY <1>1, AfterUnlock DEF Threads
<1>3. up'[b] = "serving" /\ up[b] = "booting"
  BY <1>1 DEF EnsureStore, SwitchInv, SwitchTypeOK, BackendInv, BootInv, EnsureSteps, Threads
<1>4. paused[b] = {} /\ resumed[b] = 0
  BY <1>3 DEF SwitchInv, BackendInv, BootInv
<1>5. CacheInv(b)' /\ BootInv(b)'
  BY <1>1, <1>2, <1>3, <1>4 DEF CacheInv, BootInv, EnsureSteps, Threads
<1> QED
  BY <1>2, <1>5 DEF BackendInv

(* A Resume stores the run it has started, newer than any paused one. *)
LEMMA ResumeStoring ==
    ASSUME SwitchInv, NEW b \in Backends, ResumeStore(b)
    PROVE  BackendInv(b)'
<1> DEFINE run == seen[b]["handler"].run
<1>1. /\ at[b]["handler"] = "resumeStore" /\ Unlock(b, "handler") /\ UNCHANGED runsVars
      /\ paused' = paused /\ up' = up
      /\ open'[b] = TRUE /\ pausedRunID'[b] = 0 /\ resumed'[b] = run
  BY DEF ResumeStore, SwitchInv, SwitchTypeOK
<1>2. LockInv(b)' /\ \A u \in Threads : at'[b][u] = "idle" /\ SeenInv(b, u)'
  BY <1>1, AfterUnlock DEF Threads
<1>3. SeenInv(b, "handler") /\ CacheInv(b) /\ BootInv(b)
  BY DEF SwitchInv, BackendInv, Threads
<1>4. up[b] = "serving"
  BY <1>1, <1>3 DEF BootInv, EnsureSteps, Threads
<1>5. /\ run # 0 /\ Started(run)
      /\ \A r \in paused[b] : Started(r) /\ r < run
  BY <1>1, <1>3 DEF SeenInv, CacheInv
<1>6. run \in Runs /\ paused[b] \subseteq Runs
  BY <1>5, MaxRunsAssumption DEF SwitchInv, SwitchTypeOK, RunIDs, Runs, Threads
<1>7. \A r \in paused[b] : ~Latest(r)
  BY <1>5, <1>6 DEF Latest
<1>8. CacheInv(b)' /\ BootInv(b)'
  BY <1>1, <1>2, <1>4, <1>5, <1>6, <1>7 DEF CacheInv, BootInv, EnsureSteps, runsVars, Latest, Started, Threads
<1> QED
  BY <1>2, <1>8 DEF BackendInv

(* A Pause stores the run it has described, no older than any paused one. *)
LEMMA PauseStoring ==
    ASSUME SwitchInv, NEW b \in Backends, PauseStore(b)
    PROVE  BackendInv(b)'
<1> DEFINE info == seen[b]["handler"]
<1>1. /\ at[b]["handler"] = "pauseStore" /\ Unlock(b, "handler") /\ UNCHANGED runsVars
      /\ up' = up /\ open'[b] = FALSE /\ resumed'[b] = 0
      /\ paused'[b] = paused[b] \union ({info.run} \ {0})
      /\ info # Nil => pausedRunID'[b] = info.run
  BY DEF PauseStore, SwitchInv, SwitchTypeOK
<1>2. LockInv(b)' /\ \A u \in Threads : at'[b][u] = "idle" /\ SeenInv(b, u)'
  BY <1>1, AfterUnlock DEF Threads
<1>3. SeenInv(b, "handler") /\ CacheInv(b) /\ BootInv(b)
  BY DEF SwitchInv, BackendInv, Threads
<1>4. up[b] = "serving"
  BY <1>1, <1>3 DEF BootInv, EnsureSteps, Threads
<1>5. paused[b] \subseteq Runs /\ info.run \in Nat /\ (info.run # 0 => info.run \in Runs)
  BY MaxRunsAssumption DEF SwitchInv, SwitchTypeOK, RunIDs, Runs, Threads
<1>6. /\ info.run # 0 => Started(info.run)
      /\ \A r \in paused[b] : Started(r) /\ r <= info.run
  BY <1>1, <1>3 DEF SeenInv, CacheInv
<1>7. info = Nil => info.run = 0
  BY DEF Nil
<1>8. ASSUME NEW r \in paused'[b]
      PROVE  Started(r) /\ (Latest(r) => pausedRunID'[b] = r)
  <2>1. r \in Runs /\ Started(r) /\ r <= info.run /\ info.run # 0
    BY <1>1, <1>5, <1>6, <1>8, RunsAreNumbers
  <2>2. Latest(r) => r = info.run
    BY <1>5, <1>6, <2>1, RunsAreNumbers DEF Latest
  <2> QED
    BY <1>1, <1>7, <2>1, <2>2
<1>9. CacheInv(b)' /\ BootInv(b)'
  BY <1>1, <1>2, <1>4, <1>8 DEF CacheInv, BootInv, EnsureSteps, runsVars, Latest, Started, Threads
<1> QED
  BY <1>2, <1>9 DEF BackendInv

(* A Refresh stores what it has described: newer than the last paused run, *)
(* or that run, and no older than the last resumed one.                    *)
LEMMA RefreshStoring ==
    ASSUME SwitchInv, NEW b \in Backends, RefreshStore(b)
    PROVE  BackendInv(b)'
<1> DEFINE info == seen[b]["refresher"]
<1>1. /\ at[b]["refresher"] = "refreshStore" /\ Unlock(b, "refresher") /\ UNCHANGED runsVars
      /\ up' = up /\ pausedRunID' = pausedRunID /\ paused' = paused /\ resumed' = resumed
      /\ open'[b] = ReadsOpen(b, info)
  BY DEF RefreshStore, SwitchInv, SwitchTypeOK, history
<1>2. LockInv(b)' /\ \A u \in Threads : at'[b][u] = "idle" /\ SeenInv(b, u)'
  BY <1>1, AfterUnlock DEF Threads
<1>3. SeenInv(b, "refresher") /\ CacheInv(b) /\ BootInv(b)
  BY DEF SwitchInv, BackendInv, Threads
<1>4. up[b] = "serving"
  BY <1>1, <1>3 DEF BootInv, EnsureSteps, Threads
<1>5. /\ paused[b] \subseteq Runs /\ info.run \in Nat /\ (info.run # 0 => info.run \in Runs)
      /\ resumed[b] # 0 => resumed[b] \in Runs
  BY MaxRunsAssumption DEF SwitchInv, SwitchTypeOK, RunIDs, Runs, Threads
<1>6. /\ info.run # 0 => Started(info.run) /\ (phase[info.run] = "open" => info.phase = "open")
      /\ \A r \in paused[b] : r <= info.run
      /\ resumed[b] <= info.run
  BY <1>1, <1>3 DEF SeenInv
<1>7. ASSUME NEW r \in Runs, Latest(r), r <= info.run
      PROVE  info.run = r
  BY <1>5, <1>6, <1>7, RunsAreNumbers DEF Latest
<1>8. ASSUME NEW r \in paused[b], Latest(r)
      PROVE  ~ReadsOpen(b, info)
  <2>1. info.run = r /\ pausedRunID[b] = r /\ r # 0
    BY <1>3, <1>5, <1>6, <1>7, <1>8, RunsAreNumbers DEF CacheInv
  <2> QED
    BY <2>1 DEF ReadsOpen
<1>9. ASSUME resumed[b] # 0, phase[resumed[b]] = "open"
      PROVE  ReadsOpen(b, info)
  <2>1. Latest(resumed[b])
    BY <1>5, <1>9 DEF SwitchInv, RunsInv, OneLiveRun, Live
  <2>2. info.run = resumed[b] /\ pausedRunID[b] = 0
    BY <1>3, <1>5, <1>6, <1>7, <1>9, <2>1 DEF CacheInv
  <2> QED
    BY <1>6, <1>9, <2>2 DEF ReadsOpen, publishingOpen
<1>10. CacheInv(b)' /\ BootInv(b)'
  BY <1>1, <1>2, <1>3, <1>4, <1>8, <1>9
  DEF CacheInv, BootInv, EnsureSteps, runsVars, Latest, Started, Threads
<1> QED
  BY <1>2, <1>10 DEF BackendInv

(* A crash forgets the cache; a call that fails lets go of mu. *)
LEMMA FailingSteps ==
    ASSUME SwitchInv, NEW b \in Backends, [RunsNext]_runsVars,
           Crash(b) \/ \E t \in Threads : CallFails(b, t)
    PROVE  BackendInv(b)'
<1>1. CASE Crash(b)
  <2>1. /\ \A t \in Threads : at'[b][t] = "idle"
        /\ paused'[b] = {} /\ resumed'[b] = 0
    BY <1>1 DEF Crash, SwitchInv, SwitchTypeOK
  <2>2. LockInv(b)' /\ BootInv(b)' /\ CacheInv(b)'
    BY <2>1 DEF LockInv, BootInv, EnsureSteps, CacheInv, Threads, HandlerSteps, RefresherSteps
  <2> QED
    BY <2>1, <2>2, IdleSeenInv DEF BackendInv
<1>2. ASSUME NEW t \in Threads, CallFails(b, t)
      PROVE  BackendInv(b)'
  <2>1. /\ at[b][t] # "idle" /\ Unlock(b, t)
        /\ open' = open /\ pausedRunID' = pausedRunID /\ paused' = paused /\ resumed' = resumed
        /\ up'[b] = "serving"
    BY <1>2 DEF CallFails, InCall, history, SwitchInv, SwitchTypeOK
  <2>2. LockInv(b)' /\ \A u \in Threads : at'[b][u] = "idle" /\ SeenInv(b, u)'
    BY <2>1, AfterUnlock
  <2>3. CacheInv(b)'
    BY <2>1, CacheKept DEF SwitchInv, BackendInv
  <2>4. BootInv(b)'
    BY <2>1, <2>2 DEF BootInv, EnsureSteps
  <2> QED
    BY <2>2, <2>3, <2>4 DEF BackendInv
<1> QED
  BY <1>1, <1>2
-----------------------------------------------------------------------------
(* Every step of a backend keeps its invariant. *)
LEMMA BackendSteps ==
    ASSUME SwitchInv, NEW b \in Backends, [RunsNext]_runsVars, BackendStep(b)
    PROVE  BackendInv(b)'
<1>1. CASE Boot(b) \/ Request(b, "resumeStart") \/ Request(b, "pauseDescribe") \/ RefreshLock(b)
  BY <1>1, LockingSteps
<1>2. CASE EnsureStart(b) \/ PauseSignal(b)
  BY <1>2, CallingSteps
<1>3. CASE Describe(b, "handler", "ensureDescribe", "ensureStore")
  BY <1>3, DescribingSteps DEF Threads, StepsOf, HandlerSteps, EnsureSteps
<1>4. CASE Describe(b, "handler", "pauseDescribe",
                    IF Description = Nil THEN "pauseStore" ELSE "pauseSignal")
  <2>1. CASE Description = Nil
    BY <1>4, <2>1, DescribingSteps DEF Threads, StepsOf, HandlerSteps, EnsureSteps
  <2>2. CASE Description # Nil
    BY <1>4, <2>2, DescribingSteps DEF Threads, StepsOf, HandlerSteps, EnsureSteps
  <2> QED
    BY <2>1, <2>2
<1>5. CASE Describe(b, "refresher", "refreshDescribe", "refreshStore")
  BY <1>5, DescribingSteps DEF Threads, StepsOf, RefresherSteps, EnsureSteps
<1>6. CASE ResumeStart(b)
  BY <1>6, ResumingStep
<1>7. CASE EnsureStore(b) \/ ResumeStore(b) \/ PauseStore(b) \/ RefreshStore(b)
  BY <1>7, EnsureStoring, ResumeStoring, PauseStoring, RefreshStoring
<1>8. CASE Crash(b) \/ \E t \in Threads : CallFails(b, t)
  BY <1>8, FailingSteps
<1> QED
  BY <1>1, <1>2, <1>3, <1>4, <1>5, <1>6, <1>7, <1>8 DEF BackendStep, HandlerStep, RefresherStep

(* Every step, of a backend or of the world, keeps the invariant. *)
LEMMA NextSwitchInv == SwitchInv /\ [SwitchNext]_allVars => SwitchInv'
<1> SUFFICES ASSUME SwitchInv, [SwitchNext]_allVars
             PROVE  SwitchInv'
  OBVIOUS
<1>1. [RunsNext]_runsVars /\ RunsInv'
  BY SwitchMovesRuns, NextRunsInv DEF SwitchInv
<1>2. ASSUME NEW b \in Backends, BackendStep(b)
      PROVE  SwitchInv'
  <2>1. SwitchTypeOK'
    BY <1>1, <1>2, BackendTypeOK
  <2>2. ASSUME NEW c \in Backends PROVE BackendInv(c)'
    <3>1. CASE c = b
      BY <1>1, <1>2, <3>1, BackendSteps
    <3>2. CASE c # b
      BY <1>1, <1>2, <3>2, OthersKept, BackendKept DEF SwitchInv
    <3> QED
      BY <3>1, <3>2
  <2>3. \A call \in strays' : call.kind = "signal" => call.run # 0
    <3>1. CASE UNCHANGED strays
      BY <3>1 DEF SwitchInv
    <3>2. CASE \E t \in Threads : CallFails(b, t)
      BY <3>2, CallsAreServed, RunsAreNumbers DEF CallFails, SwitchInv
    <3> QED
      BY <1>2, <3>1, <3>2
      DEF BackendStep, HandlerStep, RefresherStep, Boot, Request, Describe, EnsureStart,
          EnsureStore, ResumeStart, ResumeStore, PauseSignal, PauseStore, RefreshLock,
          RefreshStore, Crash
  <2> QED
    BY <1>1, <2>1, <2>2, <2>3 DEF SwitchInv
<1>3. ASSUME NEW call \in strays, StrayArrives(call)
      PROVE  SwitchInv'
  <2>1. \A c \in Backends : UNCHANGED SwitchOf(c)
    BY <1>3 DEF StrayArrives, SwitchOf, history
  <2>2. \A c \in Backends : BackendInv(c)'
    BY <1>1, <2>1, BackendKept DEF SwitchInv
  <2>3. SwitchTypeOK'
    BY <1>1, <1>3 DEF StrayArrives, SwitchInv, RunsInv, SwitchTypeOK, history
  <2> QED
    BY <1>1, <1>3, <2>2, <2>3 DEF SwitchInv, StrayArrives
<1>4. CASE UNCHANGED switchVars
  <2>1. \A c \in Backends : UNCHANGED SwitchOf(c)
    BY <1>4 DEF switchVars, SwitchOf
  <2>2. \A c \in Backends : BackendInv(c)'
    BY <1>1, <2>1, BackendKept DEF SwitchInv
  <2>3. SwitchTypeOK'
    BY <1>1, <1>4 DEF switchVars, SwitchInv, RunsInv, SwitchTypeOK
  <2> QED
    BY <1>1, <1>4, <2>2, <2>3 DEF SwitchInv, switchVars
<1> QED
  BY <1>2, <1>3, <1>4 DEF SwitchNext, BackendStep, RunMoves, allVars

(* The Switch and its caches stay consistent with the runs.                *)
THEOREM SwitchInvariant == SwitchSpec => []SwitchInv
BY InitSwitchInv, NextSwitchInv, PTL DEF SwitchSpec

(* The variables of the Switch keep their types. *)
THEOREM SwitchTypeCorrect == SwitchSpec => []SwitchTypeOK
<1>1. SwitchInv => SwitchTypeOK
  BY DEF SwitchInv
<1> QED
  BY <1>1, SwitchInvariant, PTL
-----------------------------------------------------------------------------
(* What is shown of the runs alone holds of them under the backends.       *)
LEMMA SwitchKeepsRuns == SwitchSpec => RunsSpec
<1>1. SwitchInit => RunsInit
  BY DEF SwitchInit
<1>2. SwitchInv /\ [SwitchNext]_allVars => [RunsNext]_runsVars
  BY SwitchMovesRuns
<1> QED
  BY <1>1, <1>2, SwitchInvariant, PTL DEF SwitchSpec, RunsSpec

(* At most one run is live under any number of backends that start runs.   *)
THEOREM SwitchLeavesOneRun == SwitchSpec => []OneLiveRun
BY SwitchKeepsRuns, LiveIsLatest, PTL

(* A Refresh in flight, the other backend or a fault never makes a backend *)
(* show a run as open that it has paused.                                  *)
THEOREM PausesLast == SwitchSpec => []PausedReadsPaused
<1>1. SwitchInv => PausedReadsPaused
  BY DEF SwitchInv, BackendInv, CacheInv, PausedReadsPaused
<1> QED
  BY <1>1, SwitchInvariant, PTL

(* Nor does it make a backend show the run of its own Resume as paused     *)
(* before that run stops.                                                  *)
THEOREM ResumesLast == SwitchSpec => []ResumedReadsOpen
<1>1. SwitchInv => ResumedReadsOpen
  BY RunsAreNumbers DEF SwitchInv, BackendInv, CacheInv, ResumedReadsOpen
<1> QED
  BY <1>1, SwitchInvariant, PTL
-----------------------------------------------------------------------------
(* The run that a Pause leaves the server with has its signal, or has ended. *)

PauseInv ==
    \A b \in Backends :
        LET run == seen[b]["handler"].run IN
        at[b]["handler"] = "pauseStore" /\ run # 0 => run \in signalled \/ ~Live(run)

(* No Pause is under way at first. *)
LEMMA InitPauseInv == SwitchInit => PauseInv
BY DEF SwitchInit, PauseInv, Threads

(* Only its Describe, if there is no run, and its signal bring a handler to *)
(* the end of Pause.                                                       *)
LEMMA PauseEndsOnly ==
    ASSUME SwitchInv, NEW b \in Backends, BackendStep(b), at'[b]["handler"] = "pauseStore"
    PROVE  \/ PauseSignal(b)
           \/ Describe(b, "handler", "pauseDescribe",
                       IF Description = Nil THEN "pauseStore" ELSE "pauseSignal")
           \/ /\ UNCHANGED runsVars
              /\ at[b]["handler"] = "pauseStore" /\ seen'[b]["handler"] = seen[b]["handler"]
<1> USE DEF StepsOf, HandlerSteps, RefresherSteps, Threads
<1>1. CASE Boot(b) \/ Request(b, "resumeStart") \/ Request(b, "pauseDescribe") \/ RefreshLock(b)
  <2>1. at'[b]["handler"] \in {"ensureStart", "resumeStart", "pauseDescribe", "idle"}
    BY <1>1, AfterLock DEF Boot, Request, RefreshLock
  <2> QED
    BY <2>1
<1>2. CASE \/ Describe(b, "handler", "ensureDescribe", "ensureStore")
           \/ Describe(b, "refresher", "refreshDescribe", "refreshStore")
           \/ EnsureStart(b) \/ ResumeStart(b)
  <2>1. at'[b]["handler"] \in {"ensureDescribe", "ensureStore", "resumeStore", "idle"}
    BY <1>2, AfterGoto DEF Describe, EnsureStart, ResumeStart
  <2> QED
    BY <2>1
<1>3. CASE EnsureStore(b) \/ ResumeStore(b) \/ PauseStore(b) \/ RefreshStore(b)
  <2>1. at'[b]["handler"] = "idle"
    BY <1>3, AfterUnlock DEF EnsureStore, ResumeStore, PauseStore, RefreshStore
  <2> QED
    BY <2>1
<1>4. CASE Crash(b) \/ \E t \in Threads : CallFails(b, t)
  <2>1. CASE Crash(b)
    BY <2>1 DEF Crash, SwitchInv, SwitchTypeOK
  <2>2. ASSUME NEW t \in Threads, CallFails(b, t) PROVE FALSE
    BY <2>2, AfterUnlock DEF CallFails, InCall
  <2> QED
    BY <1>4, <2>1, <2>2
<1> QED
  BY <1>1, <1>2, <1>3, <1>4 DEF BackendStep, HandlerStep, RefresherStep

(* A run that has its signal, or has ended, stays so. *)
LEMMA ReachedStays ==
    ASSUME RunsInv, [RunsNext]_runsVars, NEW r \in Runs, Started(r),
           r \in signalled \/ ~Live(r)
    PROVE  r \in signalled' \/ ~Live(r)'
BY RunsGrow DEF RunsInv

(* A signal reaches its run, if it is there; whatever the world or another *)
(* backend does afterwards, it has been reached.                           *)
LEMMA NextPauseInv == SwitchInv /\ PauseInv /\ [SwitchNext]_allVars => PauseInv'
<1> SUFFICES ASSUME SwitchInv, PauseInv, [SwitchNext]_allVars, NEW c \in Backends,
                    at'[c]["handler"] = "pauseStore", seen'[c]["handler"].run # 0
             PROVE  \/ seen'[c]["handler"].run \in signalled'
                    \/ phase'[seen'[c]["handler"].run] \notin {"open", "closing"}
  BY DEF PauseInv, Live
<1> DEFINE run == seen[c]["handler"].run
<1>1. [RunsNext]_runsVars /\ RunsInv
  BY SwitchMovesRuns DEF SwitchInv
<1>2. ASSUME at[c]["handler"] = "pauseStore", seen'[c]["handler"] = seen[c]["handler"]
      PROVE  run \in signalled' \/ phase'[run] \notin {"open", "closing"}
  <2>1. run \in Runs /\ Started(run)
    BY <1>2, MaxRunsAssumption
    DEF SwitchInv, SwitchTypeOK, BackendInv, SeenInv, RunIDs, Runs, Threads
  <2>2. run \in signalled \/ ~Live(run)
    BY <1>2 DEF PauseInv
  <2> QED
    BY <1>1, <2>1, <2>2, ReachedStays DEF Live
<1>3. CASE PauseSignal(c)
  <2>1. at[c]["handler"] = "pauseSignal" /\ seen' = seen
    BY <1>3 DEF PauseSignal
  <2>2. Signal(run) \/ (~Live(run) /\ UNCHANGED runsVars)
    BY <1>3, <2>1 DEF PauseSignal, Serve, Call
  <2>3. phase' = phase /\ (run \in signalled' \/ ~Live(run))
    BY <2>2 DEF Signal, runsVars
  <2> QED
    BY <2>1, <2>3 DEF Live
<1>4. CASE Describe(c, "handler", "pauseDescribe",
                    IF Description = Nil THEN "pauseStore" ELSE "pauseSignal")
  <2>1. seen'[c]["handler"] = Description
    BY <1>4 DEF Describe, SwitchInv, SwitchTypeOK, Threads
  <2>2. Description = Nil
    BY <1>4 DEF Describe, Goto, SwitchInv, SwitchTypeOK, Threads
  <2> QED
    BY <2>1, <2>2 DEF Nil
<1>5. CASE BackendStep(c)
  BY <1>2, <1>3, <1>4, <1>5, PauseEndsOnly DEF SwitchInv
<1>6. CASE UNCHANGED SwitchOf(c)
  <2>1. at'[c] = at[c] /\ seen'[c] = seen[c]
    BY <1>6 DEF SwitchOf
  <2> QED
    BY <1>2, <2>1
<1>7. BackendStep(c) \/ UNCHANGED SwitchOf(c)
  <2>1. ASSUME NEW b \in Backends, BackendStep(b), b # c PROVE UNCHANGED SwitchOf(c)
    BY <2>1, OthersKept DEF SwitchInv
  <2>2. ASSUME NEW call \in strays, StrayArrives(call) PROVE UNCHANGED SwitchOf(c)
    BY <2>2 DEF StrayArrives, SwitchOf, history
  <2>3. CASE UNCHANGED switchVars
    BY <2>3 DEF switchVars, SwitchOf
  <2> QED
    BY <2>1, <2>2, <2>3 DEF SwitchNext, BackendStep, RunMoves, allVars
<1> QED
  BY <1>5, <1>6, <1>7

(* A Pause that is about to succeed has reached the run it described. *)
LEMMA PauseInvariant == SwitchSpec => []PauseInv
BY InitPauseInv, NextPauseInv, SwitchInvariant, PTL DEF SwitchSpec

(* Any number of backends and late calls: a Pause that succeeds leaves no  *)
(* run without its signal but one that was started after its Describe.     *)
THEOREM PausesMissOnlyNewer == SwitchSpec => PauseMissesOnlyNewer
<1>1. ASSUME SwitchInv, PauseInv, NEW b \in Backends, NEW r \in Runs, PauseStore(b),
             Live(r), r \notin signalled
      PROVE  r > seen[b]["handler"].run
  <2> DEFINE run == seen[b]["handler"].run
  <2>1. at[b]["handler"] = "pauseStore"
    BY <1>1 DEF PauseStore
  <2>2. run = 0 \/ (run \in Runs /\ Started(run))
    BY <1>1, <2>1, MaxRunsAssumption
    DEF SwitchInv, SwitchTypeOK, BackendInv, SeenInv, RunIDs, Runs, Threads
  <2>3. Latest(r) /\ run # r
    BY <1>1, <2>1, RunsAreNumbers DEF SwitchInv, RunsInv, OneLiveRun, PauseInv
  <2> QED
    BY <2>2, <2>3, RunsAreNumbers DEF Latest
<1>2. SwitchInv /\ PauseInv /\ [SwitchNext]_allVars
      => [\A b \in Backends, r \in Runs :
             PauseStore(b) /\ Live(r) /\ r \notin signalled
             => r > seen[b]["handler"].run]_allVars
  BY <1>1
<1> QED
  BY <1>2, SwitchInvariant, PauseInvariant, PTL DEF SwitchSpec, PauseMissesOnlyNewer
=============================================================================
