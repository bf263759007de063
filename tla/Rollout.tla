------------------------------- MODULE Rollout -------------------------------
(***************************************************************************)
(* Rolling out the pizza worker: builds that register and publish their    *)
(* version label, the routing config of the worker deployment, the         *)
(* operator's requests, and the bootstrap loop that sets a first Current.  *)
(*                                                                         *)
(* A request and an iteration of the loop work alike, in steps that others *)
(* interleave with: Describe the deployment, find a label for each of its  *)
(* builds, then one call that changes the routing.  The server takes every *)
(* such call as it comes: none carries a conflict token.                   *)
(*                                                                         *)
(* A build is its place in the order of CreateTime, a version is its       *)
(* number, and build and version 0 stand for none.                         *)
(***************************************************************************)
EXTENDS Naturals, FiniteSetsExt

CONSTANTS
    MaxBuilds,      \* bound: builds ever registered
    Requests,       \* bound: the operator's requests, each made once
    MaxFaults       \* bound: failed calls

ASSUME RolloutAssumption ==
    /\ MaxBuilds \in Nat \ {0}
    /\ MaxFaults \in Nat

Builds   == 1..MaxBuilds
Versions == 1..3            \* the versions there are code for
Stops    == {25, 50, 100}   \* rampStops

VARIABLES
    version,    \* version[b]: the code of build b, 0 until it registers
    published,  \* the builds whose metadata holds their label
    cached,     \* the builds whose label the LabelResolver has cached
    current,    \* the routing config: the Current build,
    ramp,       \* the ramping build
    pct,        \* and its percentage
    boot,       \* the bootstrap loop
    request,    \* request[q]: the operator's requests
    faults      \* what was used of MaxFaults

routingVars == <<current, ramp, pct>>
buildVars   == <<version, published>>
rolloutVars == <<version, published, cached, current, ramp, pct, boot, request, faults>>

Registered == {b \in Builds : version[b] # 0}

(* A Describe hands on the builds there are and the Current build.  The     *)
(* builds whose label was published or cached by then come with it: they   *)
(* bound what the fetches that follow can find.                            *)
Seen == [builds |-> Registered, published |-> published, sure |-> cached,
         current |-> current]
NotSeen == [builds |-> {}, published |-> {}, sure |-> {}, current |-> 0]

NoRequest == [at |-> "new", version |-> 0, pct |-> 0, seen |-> NotSeen, target |-> 0]

RolloutInit ==
    /\ version = [b \in Builds |-> 0]
    /\ published = {}
    /\ cached = {}
    /\ current = 0
    /\ ramp = 0
    /\ pct = 0
    /\ boot = [at |-> "describe", seen |-> NotSeen, target |-> 0]
    /\ request = [q \in Requests |-> NoRequest]
    /\ faults = 0
-----------------------------------------------------------------------------
(* The workers.                                                            *)

(* The first poll of a worker registers its build, after all the others. *)
Register(b, v) ==
    /\ version[b] = 0
    /\ \A c \in Builds : c < b => version[c] # 0
    /\ version' = [version EXCEPT ![b] = v]
    /\ UNCHANGED <<published, cached, routingVars, boot, request, faults>>

(* publishVersionLabel succeeds: maybe late, and maybe never, as it gives  *)
(* up after twelve tries and the worker goes on without.                   *)
Publish(b) ==
    /\ b \in Registered \ published
    /\ published' = published \union {b}
    /\ UNCHANGED <<version, cached, routingVars, boot, request, faults>>
-----------------------------------------------------------------------------
(* Labels.                                                                 *)

Fault == faults < MaxFaults /\ faults' = faults + 1

(* metadataLabelMap: the builds for which label(b) is not "", looked up one *)
(* after the other.  A cached label is found.  A published one is fetched  *)
(* and cached, unless it was published too late for its turn or its fetch  *)
(* fails.                                                                  *)
FindLabels(seen, found) ==
    /\ seen.sure \subseteq found
    /\ found \subseteq seen.builds \intersect published
    /\ \/ seen.published \subseteq found /\ UNCHANGED faults
       \/ ~(seen.published \subseteq found) /\ Fault
    /\ cached' = cached \union found

(* versionIndex: a build without a label gets one by its place, the oldest *)
(* being v1; of two builds with one label the younger wins.                *)
LabelOf(b, found) == IF b \in found THEN version[b] ELSE b

Labelled(v, seen, found) == {b \in seen.builds : LabelOf(b, found) = v}

(* Mutant of TargetOf: the older of two builds wins. *)
OldestTarget(v, seen, found) ==
    IF Labelled(v, seen, found) = {} THEN 0 ELSE Min(Labelled(v, seen, found))

TargetOf(v, seen, found) ==
    IF Labelled(v, seen, found) = {} THEN 0 ELSE Max(Labelled(v, seen, found))

(* Mutant of BootstrapTargets: the oldest build passes for v1. *)
BootstrapTargetsByAge(found, seen) == Labelled(1, seen, found)

(* bootstrapBuildID: any build whose own label is v1, in map order. *)
BootstrapTargets(found, seen) == {b \in found : version[b] = 1}
-----------------------------------------------------------------------------
(* The server's part of the calls.                                         *)

(* A ramping build that becomes Current is ramping no more. *)
SetCurrentVersion(b) ==
    /\ current' = b
    /\ ramp' = IF ramp = b THEN 0 ELSE ramp
    /\ pct' = IF ramp = b THEN 0 ELSE pct

(* The Current build cannot ramp; build 0 and 0% clear the ramp. *)
SetRampingVersion(b, p) ==
    /\ b = 0 \/ b # current
    /\ ramp' = b
    /\ pct' = p
    /\ UNCHANGED current
-----------------------------------------------------------------------------
(* EnsureCurrentVersion, the loop of the backend's start.                  *)

(* A turn of the loop ends: what it saw was local to it. *)
BootGoto(step) == boot' = [at |-> step, seen |-> NotSeen, target |-> 0]

BootDescribe ==
    /\ boot.at = "describe"
    /\ boot' = [boot EXCEPT !.at = "label", !.seen = Seen]
    /\ UNCHANGED <<buildVars, cached, routingVars, request, faults>>

(* A failed Describe leaves no target: wait. *)
BootDescribeFails ==
    /\ boot.at = "describe"
    /\ Fault
    /\ BootGoto("wait")
    /\ UNCHANGED <<buildVars, cached, routingVars, request>>

(* Mutant of BootDecide: no v1 yet ends the loop. *)
BootDecideOnce ==
    /\ boot.at = "label"
    /\ \E found \in SUBSET Builds :
          /\ FindLabels(boot.seen, found)
          /\ \/ /\ boot.seen.current # 0 \/ BootstrapTargets(found, boot.seen) = {}
                /\ BootGoto("done")
             \/ /\ boot.seen.current = 0
                /\ \E b \in BootstrapTargets(found, boot.seen) :
                      boot' = [boot EXCEPT !.at = "promote", !.target = b]
    /\ UNCHANGED <<buildVars, routingVars, request>>

(* decideBootstrap: skip, promote or wait. *)
BootDecide ==
    /\ boot.at = "label"
    /\ \E found \in SUBSET Builds :
          /\ FindLabels(boot.seen, found)
          /\ \/ boot.seen.current # 0 /\ BootGoto("done")
             \/ /\ boot.seen.current = 0
                /\ \E b \in BootstrapTargets(found, boot.seen) :
                      boot' = [boot EXCEPT !.at = "promote", !.target = b]
             \/ /\ boot.seen.current = 0
                /\ BootstrapTargets(found, boot.seen) = {}
                /\ BootGoto("wait")
    /\ UNCHANGED <<buildVars, routingVars, request>>

BootPromote ==
    /\ boot.at = "promote"
    /\ SetCurrentVersion(boot.target)
    /\ BootGoto("done")
    /\ UNCHANGED <<buildVars, cached, request, faults>>

(* Mutant of BootPromoteFails: no retry. *)
BootPromoteFailsForGood ==
    /\ boot.at = "promote"
    /\ Fault
    /\ BootGoto("done")
    /\ UNCHANGED <<buildVars, cached, request, routingVars>>

(* setCurrent fails, or succeeds without an answer: the next tick retries. *)
BootPromoteFails ==
    /\ boot.at = "promote"
    /\ Fault
    /\ SetCurrentVersion(boot.target) \/ UNCHANGED routingVars
    /\ BootGoto("wait")
    /\ UNCHANGED <<buildVars, cached, request>>

(* The ticker, and bootstrapTimeout. *)
BootTick ==
    /\ boot.at = "wait"
    /\ BootGoto("describe")
    /\ UNCHANGED <<buildVars, cached, routingVars, request, faults>>

BootTimeout ==
    /\ boot.at = "wait"
    /\ BootGoto("gaveUp")
    /\ UNCHANGED <<buildVars, cached, routingVars, request, faults>>
-----------------------------------------------------------------------------
(* handleDeploy and handleRollback, one goroutine per request.             *)

(* The request is answered, well or with an error toast, and gone. *)
Answered(q) == request' = [request EXCEPT ![q] = [NoRequest EXCEPT !.at = "answered"]]

(* handleDeploy takes a version there is code for and a stop of the slider; *)
(* it goes on to the Describe of Ramp or Promote.                          *)
Deploy(q, v, p) ==
    /\ request[q].at = "new"
    /\ request' = [request EXCEPT ![q] =
                      [at |-> "label", version |-> v, pct |-> p, seen |-> Seen, target |-> 0]]
    /\ UNCHANGED <<buildVars, cached, routingVars, boot, faults>>

(* The target, or ErrUnknownVersion. *)
Resolve(q) ==
    LET asked == request[q] IN
    /\ asked.at = "label"
    /\ \E found \in SUBSET Builds :
          /\ FindLabels(asked.seen, found)
          /\ LET b == TargetOf(asked.version, asked.seen, found) IN
             \/ b = 0 /\ Answered(q)
             \/ b # 0 /\ request' = [request EXCEPT ![q].target = b, ![q].at = "call"]
    /\ UNCHANGED <<buildVars, routingVars, boot>>


(* Mutant of Apply: the last stop ramps like the others. *)
ApplyRamp(q) ==
    /\ request[q].at = "call"
    /\ SetRampingVersion(request[q].target, request[q].pct)
    /\ Answered(q)
    /\ UNCHANGED <<buildVars, cached, boot, faults>>

(* The last stop promotes, any other ramps. *)
Apply(q) ==
    /\ request[q].at = "call"
    /\ \/ request[q].pct = 100 /\ SetCurrentVersion(request[q].target)
       \/ request[q].pct # 100 /\ SetRampingVersion(request[q].target, request[q].pct)
    /\ Answered(q)
    /\ UNCHANGED <<buildVars, cached, boot, faults>>

(* A call that fails, or that the server refuses, ends in an error toast.  *)
ApplyFails(q) ==
    /\ request[q].at = "call"
    /\ Answered(q)
    /\ UNCHANGED <<buildVars, cached, routingVars, boot, faults>>

Rollback(q) ==
    /\ request[q].at = "new"
    /\ SetRampingVersion(0, 0)
    /\ Answered(q)
    /\ UNCHANGED <<buildVars, cached, boot, faults>>
-----------------------------------------------------------------------------
BootStep ==
    \/ BootDescribe \/ BootDecide \/ BootPromote \/ BootTick

RolloutNext ==
    \/ \E b \in Builds : (\E v \in Versions : Register(b, v)) \/ Publish(b)
    \/ BootStep \/ BootDescribeFails \/ BootPromoteFails \/ BootTimeout
    \/ \E q \in Requests :
          \/ \E v \in Versions, p \in Stops : Deploy(q, v, p)
          \/ Resolve(q) \/ Apply(q) \/ ApplyFails(q) \/ Rollback(q)

RolloutSpec == RolloutInit /\ [][RolloutNext]_rolloutVars

(* The loop's goroutine runs and its ticker ticks.  Workers and operators  *)
(* owe nothing, and the deadline comes when it comes.                      *)
RolloutFairSpec == RolloutSpec /\ WF_rolloutVars(BootStep)
-----------------------------------------------------------------------------
SeenRecords == [builds : SUBSET Builds, published : SUBSET Builds, sure : SUBSET Builds,
                current : 0..MaxBuilds]

RolloutTypeOK ==
    /\ version \in [Builds -> 0..3]
    /\ published \subseteq Registered
    /\ cached \subseteq published
    /\ current \in 0..MaxBuilds
    /\ ramp \in 0..MaxBuilds
    /\ pct \in {0, 25, 50}
    /\ boot \in [at : {"describe", "label", "promote", "wait", "done", "gaveUp"},
                 seen : SeenRecords, target : 0..MaxBuilds]
    /\ request \in [Requests ->
                      [at : {"new", "label", "call", "answered"},
                       version : 0..3, pct : {0} \union Stops,
                       seen : SeenRecords, target : 0..MaxBuilds]]
    /\ faults \in 0..MaxFaults

(* Workers of all versions start together and publish their labels in any   *)
(* order and late: the loop still never makes a build Current that is not  *)
(* v1 ("cannot cause an arbitrary version to be promoted").                *)
BootstrapTargetsV1 ==
    [][BootPromote \/ BootPromoteFails
       => current' = current \/ version[current'] = 1]_rolloutVars

(* The loop only ends with a Current version in place, unless it gave up,  *)
(* whatever calls fail and whatever the operator does meanwhile.           *)
BootstrapLeavesACurrent ==
    boot.at = "done" => current # 0

(* Once a v1 worker has published its label the deployment gets a Current, *)
(* if the deadline leaves it the time.                                     *)
BootstrapCompletes ==
    (\E b \in published : version[b] = 1) ~> (current # 0 \/ boot.at = "gaveUp")

(* Once the label of every build was cached when a request came in, the    *)
(* request goes to the newest build of the version it names, although      *)
(* builds may register and labels be cached while it is under way.         *)
LabelledTargetsRight ==
    \A q \in Requests :
        LET asked == request[q] IN
        asked.at = "call" /\ asked.seen.builds \subseteq asked.seen.sure
        => /\ version[asked.target] = asked.version
           /\ \A b \in asked.seen.builds : version[b] = asked.version => b <= asked.target
-----------------------------------------------------------------------------
(* What the label index is documented to be, "metadata-first": a version   *)
(* that some build is known to be is not taken to be another build.        *)
MetadataFirst ==
    \A q \in Requests :
        LET asked == request[q] IN
        asked.at = "call" /\ (\E b \in asked.seen.builds \intersect asked.seen.sure :
                                 version[b] = asked.version)
        => version[asked.target] = asked.version

(* What the comment above EnsureCurrentVersion says of the loop: it "fires *)
(* only while Current is nil", and leaves later promotes to the operator.  *)
BootstrapOnlyWithoutCurrent ==
    [][BootPromote => current = 0]_rolloutVars
=============================================================================
