--------------------------- MODULE Rollout_proofs ---------------------------
(***************************************************************************)
(* The bootstrap loop and the operator's requests, for any number of       *)
(* builds, requests and faults.                                            *)
(***************************************************************************)
EXTENDS Rollout, WellFoundedInduction, TLAPS

BootRecords == [at : {"describe", "label", "promote", "wait", "done", "gaveUp"},
                seen : SeenRecords, target : 0..MaxBuilds]

RequestRecords == [at : {"new", "label", "call", "answered"},
                   version : 0..3, pct : {0} \union Stops,
                   seen : SeenRecords, target : 0..MaxBuilds]

(* What a Describe saw stays true of the builds: they are registered, and  *)
(* the labels that were cached are published.                              *)
SeenHolds(seen) == seen.builds \subseteq Registered /\ seen.sure \subseteq published

(* The loop has seen a Current only if there is one, and promotes v1.      *)
BootInv ==
    /\ boot.seen.current # 0 \/ boot.at = "done" => current # 0
    /\ boot.at = "promote" => boot.target # 0 /\ version[boot.target] = 1

(* A request that waits for its call has a target among the builds it saw, *)
(* the newest one of its version if all their labels were there.           *)
TargetRight(asked) ==
    asked.at = "call" /\ asked.seen.builds \subseteq asked.seen.sure
    => /\ version[asked.target] = asked.version
       /\ \A b \in asked.seen.builds : version[b] = asked.version => b <= asked.target

Asked(asked) ==
    /\ SeenHolds(asked.seen)
    /\ asked.at = "call" => asked.target \in asked.seen.builds
    /\ TargetRight(asked)

RequestInv == \A q \in Requests : Asked(request[q])

RolloutInv == RolloutTypeOK /\ BootInv /\ RequestInv
-----------------------------------------------------------------------------
(* Every non-empty set of natural numbers has a least element.             *)
LEMMA LeastNatural ==
    ASSUME NEW T \in SUBSET Nat, T # {}
    PROVE  \E t \in T : \A u \in T : t <= u
<1>1. PICK t \in T : \A u \in T : ~(<<u, t>> \in OpToRel(<, Nat))
  BY NatLessThanWellFounded, WFMin
<1>2. \A x, y \in Nat : x < y => <<x, y>> \in OpToRel(<, Nat)
  BY DEF OpToRel
<1>3. \A u \in T : ~(u < t)
  BY <1>1, <1>2
<1>4. \A u \in T : t <= u
  BY <1>3
<1> QED
  BY <1>4

(* So a version name that some build has resolves to the newest of them. *)
LEMMA MaxInSet ==
    ASSUME NEW n \in Nat, NEW S \in SUBSET (1..n), S # {}
    PROVE  Max(S) \in S /\ \A x \in S : x <= Max(S)
<1> DEFINE T == {n - x : x \in S}
<1>1. \A x \in S : n - x \in Nat
  OBVIOUS
<1>2. T \in SUBSET Nat /\ T # {}
  BY <1>1
<1>3. PICK t \in T : \A u \in T : t <= u
  BY <1>2, LeastNatural
<1>4. PICK m \in S : t = n - m
  OBVIOUS
<1>5. \A x \in S : m >= x
  BY <1>3, <1>4
<1> QED
  BY <1>5 DEF Max
-----------------------------------------------------------------------------
(* What a step does to the builds: versions are set once, labels are only  *)
(* ever added.                                                             *)
Grows ==
    /\ \A b \in Builds : version[b] # 0 => version'[b] = version[b]
    /\ published \subseteq published'

(* A label lookup finds registered builds, and all the sure ones. *)
LEMMA FindLabelsFacts ==
    ASSUME RolloutTypeOK, NEW seen \in SeenRecords,
           NEW found \in SUBSET Builds, FindLabels(seen, found)
    PROVE  /\ found \subseteq seen.builds /\ seen.sure \subseteq found
           /\ found \subseteq published
           /\ cached' \subseteq published
           /\ faults' \in 0..MaxFaults
<1>1. found \subseteq seen.builds /\ seen.sure \subseteq found /\ found \subseteq published
  BY DEF FindLabels
<1>2. cached' \subseteq published
  BY <1>1 DEF FindLabels, RolloutTypeOK
<1>3. faults' \in 0..MaxFaults
  BY RolloutAssumption DEF FindLabels, Fault, RolloutTypeOK
<1> QED
  BY <1>1, <1>2, <1>3

(* Where a version name goes. *)
LEMMA TargetFacts ==
    ASSUME NEW seen \in SeenRecords, NEW found, NEW v, TargetOf(v, seen, found) # 0
    PROVE  /\ TargetOf(v, seen, found) \in seen.builds
           /\ LabelOf(TargetOf(v, seen, found), found) = v
           /\ \A b \in seen.builds : LabelOf(b, found) = v => b <= TargetOf(v, seen, found)
<1>1. Labelled(v, seen, found) # {} /\ TargetOf(v, seen, found) = Max(Labelled(v, seen, found))
  BY DEF TargetOf
<1>2. Labelled(v, seen, found) \in SUBSET (1..MaxBuilds)
  BY DEF Labelled, SeenRecords, Builds
<1>3. /\ Max(Labelled(v, seen, found)) \in Labelled(v, seen, found)
      /\ \A b \in Labelled(v, seen, found) : b <= Max(Labelled(v, seen, found))
  BY <1>1, <1>2, MaxInSet, RolloutAssumption
<1> QED
  BY <1>1, <1>3 DEF Labelled

(* What a Describe hands on. *)
LEMMA SeenFacts ==
    ASSUME RolloutTypeOK
    PROVE  /\ Seen \in SeenRecords /\ NotSeen \in SeenRecords
           /\ SeenHolds(Seen) /\ SeenHolds(NotSeen)
<1>1. Registered \subseteq Builds /\ published \subseteq Registered /\ cached \subseteq published
  BY DEF RolloutTypeOK, Registered
<1>2. current \in 0..MaxBuilds /\ 0 \in 0..MaxBuilds
  BY RolloutAssumption DEF RolloutTypeOK
<1>3. Seen \in SeenRecords /\ NotSeen \in SeenRecords
  BY <1>1, <1>2 DEF Seen, NotSeen, SeenRecords
<1> QED
  BY <1>1, <1>3 DEF Seen, NotSeen, SeenHolds

(* A call of SetCurrentVersion keeps the routing config typed. *)
LEMMA SetCurrentFacts ==
    ASSUME RolloutTypeOK, NEW b \in 0..MaxBuilds, SetCurrentVersion(b)
    PROVE  /\ current' = b /\ ramp' \in 0..MaxBuilds /\ pct' \in {0, 25, 50}
BY RolloutAssumption DEF RolloutTypeOK, SetCurrentVersion

(* No step takes a version or a label back. *)
LEMMA StepGrows == RolloutTypeOK /\ [RolloutNext]_rolloutVars => Grows
<1> SUFFICES ASSUME RolloutTypeOK, [RolloutNext]_rolloutVars
             PROVE  Grows
  OBVIOUS
<1>1. CASE UNCHANGED buildVars
  BY <1>1 DEF buildVars, Grows
<1>2. ASSUME NEW b \in Builds, NEW v \in Versions, Register(b, v)
      PROVE  Grows
  BY <1>2 DEF Register, Grows, RolloutTypeOK
<1>3. ASSUME NEW b \in Builds, Publish(b)
      PROVE  Grows
  BY <1>3 DEF Publish, Grows
<1>4. CASE BootStep \/ BootDescribeFails \/ BootPromoteFails \/ BootTimeout
  BY <1>1, <1>4 DEF BootStep, BootDescribe, BootDecide, BootPromote, BootTick,
                    BootDescribeFails, BootPromoteFails, BootTimeout
<1>5. ASSUME NEW q \in Requests,
             \/ \E v \in Versions, p \in Stops : Deploy(q, v, p)
             \/ Resolve(q) \/ Apply(q) \/ ApplyFails(q) \/ Rollback(q)
      PROVE  UNCHANGED buildVars
  BY <1>5 DEF Deploy, Resolve, Apply, ApplyFails, Rollback
<1>6. CASE UNCHANGED rolloutVars
  BY <1>1, <1>6 DEF rolloutVars, buildVars
<1> QED
  BY <1>1, <1>2, <1>3, <1>4, <1>5, <1>6 DEF RolloutNext
-----------------------------------------------------------------------------
(* Nothing is registered, promoted or asked at first. *)
LEMMA InitHolds == RolloutInit => RolloutInv
<1> SUFFICES ASSUME RolloutInit
             PROVE  RolloutInv
  OBVIOUS
<1> USE RolloutAssumption DEF RolloutInit, Registered
<1>1. NotSeen \in SeenRecords /\ SeenHolds(NotSeen)
  BY DEF NotSeen, SeenRecords, SeenHolds
<1>2. boot \in BootRecords /\ request \in [Requests -> RequestRecords]
  BY <1>1 DEF BootRecords, RequestRecords, NoRequest
<1>3. RolloutTypeOK
  BY <1>2 DEF RolloutTypeOK, BootRecords, RequestRecords
<1>4. BootInv
  BY DEF BootInv, NotSeen
<1>5. RequestInv
  <2>1. \A q \in Requests : request[q] = NoRequest
    OBVIOUS
  <2>2. NoRequest.at = "new" /\ NoRequest.seen = NotSeen
    BY DEF NoRequest
  <2> QED
    BY <1>1, <2>1, <2>2 DEF RequestInv, Asked, TargetRight
<1> QED
  BY <1>3, <1>4, <1>5 DEF RolloutInv

(* What both invariants need of a step that leaves the requests alone. *)
(* Whatever a request saw and resolved stays right while the builds grow.  *)
LEMMA AskedKept ==
    ASSUME RolloutTypeOK, Grows, NEW asked \in RequestRecords, Asked(asked)
    PROVE  Asked(asked)'
<1>1. asked.seen.builds \subseteq Builds
  BY DEF RequestRecords, SeenRecords
<1>2. \A b \in asked.seen.builds : version[b] # 0 /\ version'[b] = version[b]
  BY <1>1 DEF Grows, Asked, SeenHolds, Registered
<1>3. SeenHolds(asked.seen)'
  BY <1>1, <1>2 DEF Asked, SeenHolds, Registered, Grows
<1>4. TargetRight(asked)'
  BY <1>2 DEF Asked, TargetRight
<1> QED
  BY <1>3, <1>4 DEF Asked

(* So while no request moves, all requests stay right. *)
LEMMA RequestsKept ==
    ASSUME RolloutTypeOK, Grows, RequestInv, UNCHANGED request
    PROVE  RequestInv'
<1>1. \A asked \in RequestRecords : Asked(asked) => Asked(asked)'
  BY AskedKept
<1>2. \A q \in Requests : request[q] \in RequestRecords /\ Asked(request[q])
  BY DEF RolloutTypeOK, RequestRecords, RequestInv
<1> QED
  BY <1>1, <1>2 DEF RequestInv, Asked, TargetRight, SeenHolds, Registered

(* A request takes a step that leaves it right. *)
LEMMA RequestMoves ==
    ASSUME RolloutTypeOK, Grows, RequestInv, NEW q \in Requests, NEW asked \in RequestRecords,
           request' = [request EXCEPT ![q] = asked], Asked(asked)'
    PROVE  RequestInv'
<1>1. \A rec \in RequestRecords : Asked(rec) => Asked(rec)'
  BY AskedKept
<1>2. \A p \in Requests : request[p] \in RequestRecords /\ Asked(request[p])
  BY DEF RolloutTypeOK, RequestRecords, RequestInv
<1>3. request'[q] = asked /\ \A p \in Requests : p # q => request'[p] = request[p]
  BY DEF RolloutTypeOK
<1> QED
  BY <1>1, <1>2, <1>3 DEF RequestInv, Asked, TargetRight, SeenHolds, Registered

(* What the loop leaves alone. *)
Rest == UNCHANGED <<version, published, request>>

(* The loop moves: its record stays typed, and there is a Current when it  *)
(* says so.                                                                *)
LEMMA BootGotoFacts ==
    ASSUME RolloutTypeOK, NEW step \in {"describe", "wait", "done", "gaveUp"}, BootGoto(step)
    PROVE  boot' \in BootRecords /\ boot'.at = step /\ boot'.seen.current = 0
<1>1. NotSeen \in SeenRecords /\ NotSeen.current = 0 /\ 0 \in 0..MaxBuilds
  BY SeenFacts, RolloutAssumption DEF NotSeen
<1> QED
  BY <1>1 DEF BootGoto, BootRecords

(* The steps of the bootstrap loop keep its invariant and the types. *)
LEMMA BootKeepsInv ==
    ASSUME RolloutTypeOK, BootInv,
           BootStep \/ BootDescribeFails \/ BootPromoteFails \/ BootTimeout
    PROVE  /\ boot' \in BootRecords
           /\ BootInv'
           /\ cached' \subseteq published
           /\ current' \in 0..MaxBuilds /\ ramp' \in 0..MaxBuilds /\ pct' \in {0, 25, 50}
           /\ faults' \in 0..MaxFaults
           /\ Rest
<1> USE DEF Rest, buildVars, routingVars
<1>0. /\ boot \in BootRecords /\ cached \subseteq published /\ faults \in 0..MaxFaults
      /\ current \in 0..MaxBuilds /\ ramp \in 0..MaxBuilds /\ pct \in {0, 25, 50}
  BY DEF RolloutTypeOK, BootRecords
<1>1. ASSUME Fault
      PROVE  faults' \in 0..MaxFaults
  BY <1>0, <1>1, RolloutAssumption DEF Fault
<1>2. CASE BootDescribe
  <2>1. boot' \in BootRecords /\ boot'.at = "label" /\ boot'.seen.current = current
    BY <1>0, <1>2, SeenFacts DEF BootDescribe, BootRecords, Seen
  <2> QED
    BY <1>0, <1>2, <2>1 DEF BootDescribe, BootInv
<1>3. CASE BootDescribeFails
  <2>1. boot' \in BootRecords /\ boot'.at = "wait" /\ boot'.seen.current = 0
    BY <1>3, BootGotoFacts DEF BootDescribeFails
  <2> QED
    BY <1>0, <1>1, <1>3, <2>1 DEF BootDescribeFails, BootInv
<1>4. CASE BootDecide
  <2>1. PICK found \in SUBSET Builds :
            /\ FindLabels(boot.seen, found)
            /\ \/ boot.seen.current # 0 /\ BootGoto("done")
               \/ /\ boot.seen.current = 0
                  /\ \E b \in BootstrapTargets(found, boot.seen) :
                        boot' = [boot EXCEPT !.at = "promote", !.target = b]
               \/ BootGoto("wait")
    BY <1>4 DEF BootDecide
  <2>2. cached' \subseteq published /\ faults' \in 0..MaxFaults
    BY <1>0, <2>1, FindLabelsFacts DEF BootRecords
  <2>3. UNCHANGED <<version, published, current, ramp, pct, request>>
    BY <1>4 DEF BootDecide
  <2>4. CASE boot.seen.current # 0 /\ BootGoto("done")
    <3>1. boot' \in BootRecords /\ boot'.at = "done" /\ boot'.seen.current = 0
      BY <2>4, BootGotoFacts
    <3> QED
      BY <1>0, <2>2, <2>3, <2>4, <3>1 DEF BootInv
  <2>5. ASSUME NEW b \in BootstrapTargets(found, boot.seen),
               boot' = [boot EXCEPT !.at = "promote", !.target = b]
        PROVE  /\ boot' \in BootRecords /\ boot'.at = "promote" /\ boot'.target = b
               /\ boot'.seen = boot.seen /\ b # 0 /\ version[b] = 1
    <3>1. b \in Builds /\ version[b] = 1
      BY DEF BootstrapTargets
    <3>2. b \in 0..MaxBuilds /\ b # 0
      BY <3>1, RolloutAssumption DEF Builds
    <3> QED
      BY <1>0, <2>5, <3>1, <3>2 DEF BootRecords
  <2>6. CASE boot.seen.current = 0
             /\ \E b \in BootstrapTargets(found, boot.seen) :
                    boot' = [boot EXCEPT !.at = "promote", !.target = b]
    BY <1>0, <2>2, <2>3, <2>5, <2>6 DEF BootInv
  <2>7. CASE BootGoto("wait")
    <3>1. boot' \in BootRecords /\ boot'.at = "wait" /\ boot'.seen.current = 0
      BY <2>7, BootGotoFacts
    <3> QED
      BY <1>0, <2>2, <2>3, <3>1 DEF BootInv
  <2> QED
    BY <2>1, <2>4, <2>6, <2>7
<1>5. ASSUME boot.at = "promote", SetCurrentVersion(boot.target)
      PROVE  /\ current' \in 0..MaxBuilds /\ current' # 0
             /\ ramp' \in 0..MaxBuilds /\ pct' \in {0, 25, 50}
  <2>1. boot.target \in 0..MaxBuilds /\ boot.target # 0
    BY <1>0, <1>5 DEF BootRecords, BootInv
  <2> QED
    BY <1>5, <2>1, SetCurrentFacts
<1>6. CASE BootPromote
  <2>1. boot' \in BootRecords /\ boot'.at = "done" /\ boot'.seen.current = 0
    BY <1>6, BootGotoFacts DEF BootPromote
  <2> QED
    BY <1>0, <1>5, <1>6, <2>1 DEF BootPromote, BootInv
<1>7. CASE BootPromoteFails
  <2>1. boot' \in BootRecords /\ boot'.at = "wait" /\ boot'.seen.current = 0
    BY <1>7, BootGotoFacts DEF BootPromoteFails
  <2>2. current' \in 0..MaxBuilds /\ ramp' \in 0..MaxBuilds /\ pct' \in {0, 25, 50}
    BY <1>0, <1>5, <1>7 DEF BootPromoteFails
  <2> QED
    BY <1>0, <1>1, <1>7, <2>1, <2>2 DEF BootPromoteFails, BootInv
<1>8. CASE BootTick
  <2>1. boot' \in BootRecords /\ boot'.at = "describe" /\ boot'.seen.current = 0
    BY <1>8, BootGotoFacts DEF BootTick
  <2> QED
    BY <1>0, <1>8, <2>1 DEF BootTick, BootInv
<1>9. CASE BootTimeout
  <2>1. boot' \in BootRecords /\ boot'.at = "gaveUp" /\ boot'.seen.current = 0
    BY <1>9, BootGotoFacts DEF BootTimeout
  <2> QED
    BY <1>0, <1>9, <2>1 DEF BootTimeout, BootInv
<1> QED
  BY <1>2, <1>3, <1>4, <1>6, <1>7, <1>8, <1>9 DEF BootStep

RequestStep(q) ==
    \/ \E v \in Versions, p \in Stops : Deploy(q, v, p)
    \/ Resolve(q) \/ Apply(q) \/ ApplyFails(q) \/ Rollback(q)

(* An answered request is forgotten. *)
LEMMA AnsweredFacts ==
    ASSUME RolloutTypeOK, RequestInv, Grows, NEW q \in Requests, Answered(q)
    PROVE  request' \in [Requests -> RequestRecords] /\ RequestInv'
<1> DEFINE asked == [NoRequest EXCEPT !.at = "answered"]
<1>1. /\ NotSeen \in SeenRecords /\ 0 \in 0..MaxBuilds
      /\ NotSeen.builds = {} /\ NotSeen.sure = {}
  BY SeenFacts, RolloutAssumption DEF NotSeen
<1>2. asked \in RequestRecords /\ asked.at = "answered" /\ asked.seen = NotSeen
  BY <1>1 DEF NoRequest, RequestRecords
<1>3. request' = [request EXCEPT ![q] = asked]
  BY DEF Answered
<1>4. Asked(asked)'
  BY <1>1, <1>2 DEF Asked, SeenHolds, TargetRight
<1>5. request' \in [Requests -> RequestRecords]
  BY <1>2, <1>3 DEF RolloutTypeOK, RequestRecords
<1>6. RequestInv'
  <2> HIDE DEF asked
  <2> QED
    BY <1>2, <1>3, <1>4, RequestMoves
<1> QED
  BY <1>5, <1>6

(* The target of a request whose labels were all there is the newest build *)
(* of its version.                                                         *)
LEMMA ResolveFacts ==
    ASSUME RolloutTypeOK, RequestInv, Grows, NEW q \in Requests, Resolve(q)
    PROVE  /\ request' \in [Requests -> RequestRecords] /\ RequestInv'
           /\ cached' \subseteq published /\ faults' \in 0..MaxFaults
<1>1. request[q] \in RequestRecords /\ Asked(request[q]) /\ request[q].seen \in SeenRecords
  BY DEF RolloutTypeOK, RequestRecords, RequestInv
<1>2. PICK found \in SUBSET Builds :
          /\ FindLabels(request[q].seen, found)
          /\ LET b == TargetOf(request[q].version, request[q].seen, found) IN
             \/ b = 0 /\ Answered(q)
             \/ b # 0 /\ request' = [request EXCEPT ![q].target = b, ![q].at = "call"]
  BY DEF Resolve
<1>3. /\ cached' \subseteq published /\ faults' \in 0..MaxFaults
      /\ request[q].seen.sure \subseteq found
  BY <1>1, <1>2, FindLabelsFacts
<1> DEFINE b == TargetOf(request[q].version, request[q].seen, found)
<1>4. CASE Answered(q)
  BY <1>3, <1>4, AnsweredFacts
<1>5. CASE b # 0 /\ request' = [request EXCEPT ![q].target = b, ![q].at = "call"]
  <2>1. /\ b \in request[q].seen.builds /\ LabelOf(b, found) = request[q].version
        /\ \A c \in request[q].seen.builds :
              LabelOf(c, found) = request[q].version => c <= b
    BY <1>1, <1>5, TargetFacts
  <2>2. b \in 0..MaxBuilds
    BY <1>1, <2>1, RolloutAssumption DEF SeenRecords, Builds
  <2> HIDE DEF b
  <2>3. PICK asked \in RequestRecords : asked = [request[q] EXCEPT !.target = b, !.at = "call"]
    BY <1>1, <2>2 DEF RequestRecords
  <2>4. /\ asked.at = "call" /\ asked.target = b
        /\ asked.seen = request[q].seen /\ asked.version = request[q].version
        /\ request' = [request EXCEPT ![q] = asked]
    BY <1>1, <1>5, <2>3 DEF RolloutTypeOK, RequestRecords
  <2>5. TargetRight(asked)
    <3> SUFFICES ASSUME asked.seen.builds \subseteq asked.seen.sure
                 PROVE  /\ version[asked.target] = asked.version
                        /\ \A c \in asked.seen.builds :
                              version[c] = asked.version => c <= asked.target
      BY DEF TargetRight
    <3>1. \A c \in asked.seen.builds : LabelOf(c, found) = version[c]
      BY <1>3, <2>4 DEF LabelOf
    <3> QED
      BY <2>1, <2>4, <3>1
  <2>6. Asked(asked)
    BY <1>1, <2>1, <2>4, <2>5 DEF Asked
  <2>7. Asked(asked)'
    BY <2>6, AskedKept
  <2>8. request' \in [Requests -> RequestRecords]
    BY <2>4 DEF RolloutTypeOK, RequestRecords
  <2> QED
    BY <1>3, <2>4, <2>7, <2>8, RequestMoves
<1> QED
  BY <1>2, <1>4, <1>5

(* A request keeps types and never takes the last Current away. *)
LEMMA RequestStepFacts ==
    ASSUME RolloutTypeOK, RequestInv, Grows, NEW q \in Requests, RequestStep(q)
    PROVE  /\ request' \in [Requests -> RequestRecords] /\ RequestInv'
           /\ cached' \subseteq published /\ faults' \in 0..MaxFaults
           /\ current' \in 0..MaxBuilds /\ ramp' \in 0..MaxBuilds /\ pct' \in {0, 25, 50}
           /\ current # 0 => current' # 0
           /\ UNCHANGED <<version, published, boot>>
<1> USE DEF buildVars, routingVars
<1>0. /\ cached \subseteq published /\ faults \in 0..MaxFaults
      /\ current \in 0..MaxBuilds /\ ramp \in 0..MaxBuilds /\ pct \in {0, 25, 50}
  BY DEF RolloutTypeOK
<1>1. ASSUME NEW v \in Versions, NEW p \in Stops, Deploy(q, v, p)
      PROVE  request' \in [Requests -> RequestRecords] /\ RequestInv'
  <2>1. Seen \in SeenRecords /\ SeenHolds(Seen)
    BY SeenFacts
  <2>2. v \in 0..3 /\ 0 \in 0..MaxBuilds
    BY RolloutAssumption DEF Versions
  <2>3. PICK asked \in RequestRecords :
            asked = [at |-> "label", version |-> v, pct |-> p, seen |-> Seen, target |-> 0]
    BY <2>1, <2>2 DEF RequestRecords
  <2>4. /\ request' = [request EXCEPT ![q] = asked]
        /\ asked.at = "label" /\ asked.seen = Seen
    BY <1>1, <2>3 DEF Deploy
  <2>5. Asked(asked)
    BY <2>1, <2>4 DEF Asked, TargetRight
  <2>6. Asked(asked)'
    BY <2>5, AskedKept
  <2>7. request' \in [Requests -> RequestRecords]
    BY <2>4 DEF RolloutTypeOK, RequestRecords
  <2> QED
    BY <2>4, <2>6, <2>7, RequestMoves
<1>2. CASE \E v \in Versions, p \in Stops : Deploy(q, v, p)
  BY <1>0, <1>1, <1>2 DEF Deploy
<1>3. CASE Resolve(q)
  <2>1. UNCHANGED <<version, published, current, ramp, pct, boot>>
    BY <1>3 DEF Resolve
  <2> QED
    BY <1>0, <1>3, <2>1, ResolveFacts
<1>4. CASE Apply(q)
  <2>1. /\ request[q].target \in 0..MaxBuilds /\ request[q].target # 0
        /\ request[q].pct \in {0, 25, 50, 100}
    <3>1. request[q] \in RequestRecords /\ Asked(request[q]) /\ request[q].at = "call"
      BY <1>4 DEF Apply, RolloutTypeOK, RequestRecords, RequestInv
    <3>2. request[q].target \in Builds
      BY <3>1 DEF Asked, RequestRecords, SeenRecords
    <3> QED
      BY <3>1, <3>2, RolloutAssumption DEF RequestRecords, Stops, Builds
  <2>2. CASE SetCurrentVersion(request[q].target)
    BY <1>0, <1>4, <2>1, <2>2, SetCurrentFacts, AnsweredFacts DEF Apply
  <2>3. CASE request[q].pct # 100 /\ SetRampingVersion(request[q].target, request[q].pct)
    BY <1>0, <1>4, <2>1, <2>3, AnsweredFacts DEF Apply, SetRampingVersion
  <2> QED
    BY <1>4, <2>2, <2>3 DEF Apply
<1>5. CASE ApplyFails(q)
  BY <1>0, <1>5, AnsweredFacts DEF ApplyFails
<1>6. CASE Rollback(q)
  BY <1>0, <1>6, AnsweredFacts, RolloutAssumption DEF Rollback, SetRampingVersion
<1> QED
  BY <1>2, <1>3, <1>4, <1>5, <1>6 DEF RequestStep

(* A worker registers or publishes: the builds and their labels grow. *)
LEMMA WorkerStepFacts ==
    ASSUME RolloutTypeOK, BootInv, NEW b \in Builds,
           (\E v \in Versions : Register(b, v)) \/ Publish(b)
    PROVE  /\ version' \in [Builds -> 0..3] /\ published' \subseteq Registered'
           /\ cached \subseteq published' /\ BootInv'
           /\ UNCHANGED <<cached, current, ramp, pct, boot, request, faults>>
<1> USE DEF RolloutTypeOK, Registered, routingVars
<1>1. \A v \in Versions : v \in 0..3 /\ v # 0
  BY DEF Versions
<1>2. boot.at = "promote" => boot.target \in Builds
  BY RolloutAssumption DEF BootInv, Builds
<1>3. ASSUME NEW v \in Versions, Register(b, v)
      PROVE  /\ version' \in [Builds -> 0..3] /\ published' \subseteq Registered'
             /\ cached \subseteq published' /\ BootInv'
  BY <1>1, <1>2, <1>3 DEF Register, BootInv
<1>4. CASE Publish(b)
  BY <1>4 DEF Publish, BootInv
<1> QED
  BY <1>3, <1>4 DEF Register, Publish

(* Every step keeps the invariant. *)
LEMMA NextHolds == RolloutInv /\ [RolloutNext]_rolloutVars => RolloutInv'
<1> SUFFICES ASSUME RolloutInv, [RolloutNext]_rolloutVars
             PROVE  RolloutInv'
  OBVIOUS
<1>0. RolloutTypeOK /\ BootInv /\ RequestInv /\ Grows
  BY StepGrows DEF RolloutInv
<1>1. ASSUME NEW b \in Builds, (\E v \in Versions : Register(b, v)) \/ Publish(b)
      PROVE  RolloutInv'
  <2>1. /\ version' \in [Builds -> 0..3] /\ published' \subseteq Registered'
        /\ cached \subseteq published' /\ BootInv'
        /\ UNCHANGED <<cached, current, ramp, pct, boot, request, faults>>
    BY <1>0, <1>1, WorkerStepFacts
  <2>2. RequestInv'
    BY <1>0, <2>1, RequestsKept
  <2>3. RolloutTypeOK'
    BY <1>0, <2>1 DEF RolloutTypeOK
  <2> QED
    BY <2>1, <2>2, <2>3 DEF RolloutInv
<1>2. CASE BootStep \/ BootDescribeFails \/ BootPromoteFails \/ BootTimeout
  <2>1. /\ boot' \in BootRecords /\ BootInv' /\ cached' \subseteq published
        /\ current' \in 0..MaxBuilds /\ ramp' \in 0..MaxBuilds /\ pct' \in {0, 25, 50}
        /\ faults' \in 0..MaxFaults /\ UNCHANGED <<version, published, request>>
    BY <1>0, <1>2, BootKeepsInv DEF Rest
  <2>2. RequestInv'
    BY <1>0, <2>1, RequestsKept
  <2>3. RolloutTypeOK'
    BY <1>0, <2>1 DEF RolloutTypeOK, BootRecords, Registered
  <2> QED
    BY <2>1, <2>2, <2>3 DEF RolloutInv
<1>3. ASSUME NEW q \in Requests, RequestStep(q)
      PROVE  RolloutInv'
  <2>1. /\ request' \in [Requests -> RequestRecords] /\ RequestInv'
        /\ cached' \subseteq published /\ faults' \in 0..MaxFaults
        /\ current' \in 0..MaxBuilds /\ ramp' \in 0..MaxBuilds /\ pct' \in {0, 25, 50}
        /\ current # 0 => current' # 0
        /\ UNCHANGED <<version, published, boot>>
    BY <1>0, <1>3, RequestStepFacts
  <2>2. BootInv'
    BY <1>0, <2>1 DEF BootInv
  <2>3. RolloutTypeOK'
    BY <1>0, <2>1 DEF RolloutTypeOK, RequestRecords, Registered
  <2> QED
    BY <2>1, <2>2, <2>3 DEF RolloutInv
<1>4. CASE UNCHANGED rolloutVars
  <2>1. RequestInv'
    BY <1>0, <1>4, RequestsKept DEF rolloutVars
  <2>2. RolloutTypeOK' /\ BootInv'
    BY <1>0, <1>4 DEF rolloutVars, RolloutTypeOK, BootInv, Registered
  <2> QED
    BY <2>1, <2>2 DEF RolloutInv
<1> QED
  BY <1>1, <1>2, <1>3, <1>4 DEF RolloutNext, RequestStep

(* The invariant of the rollout, for any builds and requests. *)
LEMMA RolloutInvHolds == RolloutSpec => []RolloutInv
BY InitHolds, NextHolds, PTL DEF RolloutSpec
-----------------------------------------------------------------------------
(* The rollout is well typed: labels are published by registered builds    *)
(* and cached once published, and a ramp is at a stop below 100%.          *)
THEOREM RolloutTypeCorrect == RolloutSpec => []RolloutTypeOK
<1>1. RolloutInv => RolloutTypeOK
  BY DEF RolloutInv
<1> QED
  BY <1>1, RolloutInvHolds, PTL

(* The bootstrap loop only ends by itself with a Current version in place, *)
(* whatever calls fail and whatever the operator does.                     *)
THEOREM CurrentAfterBootstrap == RolloutSpec => []BootstrapLeavesACurrent
<1>1. RolloutInv => BootstrapLeavesACurrent
  BY DEF RolloutInv, BootInv, BootstrapLeavesACurrent
<1> QED
  BY <1>1, RolloutInvHolds, PTL

(* With every label cached when a request comes in, the request goes to    *)
(* the newest build of the version it names, whatever registers meanwhile. *)
THEOREM LabelledGoRight == RolloutSpec => []LabelledTargetsRight
<1>1. RolloutInv => LabelledTargetsRight
  BY DEF RolloutInv, RequestInv, Asked, TargetRight, LabelledTargetsRight
<1> QED
  BY <1>1, RolloutInvHolds, PTL

(* The bootstrap loop never makes a build Current that is not v1. *)
THEOREM BootstrapPicksV1 == RolloutSpec => BootstrapTargetsV1
<1>1. RolloutInv /\ [RolloutNext]_rolloutVars
      => [BootPromote \/ BootPromoteFails
          => current' = current \/ version[current'] = 1]_rolloutVars
  BY DEF RolloutInv, BootInv, BootPromote, BootPromoteFails, SetCurrentVersion, routingVars
<1> QED
  BY <1>1, RolloutInvHolds, PTL DEF RolloutSpec, BootstrapTargetsV1
=============================================================================
