------------------------- MODULE DeployModal_proofs -------------------------
(***************************************************************************)
(* What the dashboard makes of a rollout, for any number of builds and of  *)
(* requests and any faults: the cards are one per build, and opening the   *)
(* Deploy modal and applying what it proposes moves no traffic.            *)
(***************************************************************************)
EXTENDS DeployModal, Rollout_proofs, FiniteSetTheorems

(* Traffic goes to builds that are there, a ramp is not the Current build  *)
(* and has a stop below the last, and requests ask for a stop.             *)
Routed ==
    /\ current # 0 => current \in Registered
    /\ ramp # 0 => ramp \in Registered /\ ramp # current /\ pct \in {25, 50}
    /\ ramp = 0 => pct = 0

AskedStops == \A q \in Requests : request[q].at \in {"label", "call"} => request[q].pct \in Stops

RoutingInv == Routed /\ AskedStops

(* No traffic goes anywhere at first. *)
LEMMA InitRoutingInv == RolloutInit => RoutingInv
BY DEF RolloutInit, RoutingInv, Routed, AskedStops, NoRequest

(* Builds only register, so traffic that is not moved still has a build. *)
LEMMA RoutedKept ==
    ASSUME RolloutTypeOK, Grows, Routed, UNCHANGED routingVars
    PROVE  Routed'
<1>1. \A b \in Registered : b \in Registered'
  BY DEF Grows, Registered
<1> QED
  BY <1>1 DEF Routed, routingVars

(* A promote of a build that is there, which ends its own ramp. *)
LEMMA PromoteRouted ==
    ASSUME Routed, NEW b \in Registered, SetCurrentVersion(b), UNCHANGED version
    PROVE  Routed'
<1>1. Registered' = Registered
  BY DEF Registered
<1>2. b # 0
  BY RolloutAssumption DEF Registered, Builds
<1> QED
  BY <1>1, <1>2 DEF Routed, SetCurrentVersion

(* A ramp of a build that is there and not Current, or the end of the      *)
(* ramp.                                                                   *)
LEMMA RampRouted ==
    ASSUME Routed, NEW b, NEW p, SetRampingVersion(b, p), UNCHANGED version,
           (b \in Registered /\ p \in {25, 50}) \/ (b = 0 /\ p = 0)
    PROVE  Routed'
<1>1. Registered' = Registered
  BY DEF Registered
<1>2. b \in Registered => b # 0
  BY RolloutAssumption DEF Registered, Builds
<1> QED
  BY <1>1, <1>2 DEF Routed, SetRampingVersion

(* The bootstrap loop promotes a build that it has seen. *)
LEMMA BootRouted ==
    ASSUME RolloutInv, Routed, BootPromote \/ BootPromoteFails
    PROVE  Routed'
<1>1. UNCHANGED version
  BY DEF BootPromote, BootPromoteFails, buildVars
<1>2. boot.target \in Registered
  BY RolloutAssumption
  DEF BootPromote, BootPromoteFails, RolloutInv, BootInv, RolloutTypeOK, Registered, Builds
<1>3. SetCurrentVersion(boot.target) \/ UNCHANGED routingVars
  BY DEF BootPromote, BootPromoteFails
<1>4. CASE UNCHANGED routingVars
  BY <1>1, <1>4 DEF Routed, routingVars, Registered
<1> QED
  BY <1>1, <1>2, <1>3, <1>4, PromoteRouted

(* A request moves traffic to a build that it has seen, at a stop. *)
LEMMA ApplyRouted ==
    ASSUME RolloutInv, RoutingInv, NEW q \in Requests, Apply(q)
    PROVE  Routed'
<1>1. UNCHANGED version
  BY DEF Apply, buildVars
<1>2. request[q].target \in Registered
  BY DEF Apply, RolloutInv, RequestInv, Asked, SeenHolds
<1>3. request[q].pct \in Stops
  BY DEF Apply, RoutingInv, AskedStops
<1>4. CASE SetCurrentVersion(request[q].target)
  BY <1>1, <1>2, <1>4, PromoteRouted DEF RoutingInv
<1>5. CASE request[q].pct # 100 /\ SetRampingVersion(request[q].target, request[q].pct)
  BY <1>1, <1>2, <1>3, <1>5, RampRouted DEF RoutingInv, Stops
<1> QED
  BY <1>4, <1>5 DEF Apply

(* Every step of the rollout keeps the invariant. *)
LEMMA NextRoutingInv ==
    RolloutInv /\ RoutingInv /\ [RolloutNext]_rolloutVars => RoutingInv'
<1> SUFFICES ASSUME RolloutInv, RoutingInv, [RolloutNext]_rolloutVars
             PROVE  RoutingInv'
  OBVIOUS
<1>0. RolloutTypeOK /\ Grows /\ Routed /\ AskedStops
  BY StepGrows DEF RolloutInv, RoutingInv
<1>1. UNCHANGED request => AskedStops'
  BY <1>0 DEF AskedStops
<1>2. UNCHANGED routingVars => Routed'
  BY <1>0, RoutedKept
<1>3. ASSUME NEW b \in Builds, (\E v \in Versions : Register(b, v)) \/ Publish(b)
      PROVE  RoutingInv'
  BY <1>1, <1>2, <1>3 DEF RoutingInv, Register, Publish
<1>4. CASE BootPromote \/ BootPromoteFails
  BY <1>0, <1>1, <1>4, BootRouted DEF RoutingInv, BootPromote, BootPromoteFails
<1>5. CASE BootDescribe \/ BootDecide \/ BootTick \/ BootDescribeFails \/ BootTimeout
  BY <1>1, <1>2, <1>5
  DEF RoutingInv, BootDescribe, BootDecide, BootTick, BootDescribeFails, BootTimeout
<1>6. ASSUME NEW q \in Requests,
             \/ \E v \in Versions, p \in Stops : Deploy(q, v, p)
             \/ Resolve(q) \/ Apply(q) \/ ApplyFails(q) \/ Rollback(q)
      PROVE  RoutingInv'
  <2>1. AskedStops'
    <3>1. /\ \A p \in Requests : p # q => request'[p] = request[p]
          /\ request'[q].at \in {"label", "call"} => request'[q].pct \in Stops
      <4>1. request \in [Requests -> RequestRecords]
        BY <1>0 DEF RolloutTypeOK, RequestRecords
      <4>2. CASE \E v \in Versions, p \in Stops : Deploy(q, v, p)
        BY <4>1, <4>2 DEF Deploy
      <4>3. CASE Resolve(q)
        BY <1>0, <4>1, <4>3 DEF Resolve, Answered, NoRequest, AskedStops, RequestRecords
      <4>4. CASE Apply(q) \/ ApplyFails(q) \/ Rollback(q)
        BY <4>1, <4>4 DEF Apply, ApplyFails, Rollback, Answered, NoRequest
      <4> QED
        BY <1>6, <4>2, <4>3, <4>4
    <3> QED
      BY <1>0, <3>1 DEF AskedStops
  <2>2. Routed'
    <3>1. CASE Apply(q)
      BY <3>1, ApplyRouted
    <3>2. CASE Rollback(q)
      BY <1>0, <3>2, RampRouted DEF Rollback, buildVars
    <3>3. CASE UNCHANGED routingVars
      BY <1>2, <3>3
    <3> QED
      BY <1>6, <3>1, <3>2, <3>3 DEF Deploy, Resolve, ApplyFails
  <2> QED
    BY <2>1, <2>2 DEF RoutingInv
<1>7. CASE UNCHANGED rolloutVars
  BY <1>1, <1>2, <1>7 DEF rolloutVars, RoutingInv, routingVars
<1> QED
  BY <1>3, <1>4, <1>5, <1>6, <1>7 DEF RolloutNext, BootStep

(* The invariant of the routing, for any rollout. *)
LEMMA RoutingInvHolds == RolloutSpec => []RoutingInv
BY InitRoutingInv, NextRoutingInv, RolloutInvHolds, PTL DEF RolloutSpec
-----------------------------------------------------------------------------
(* The order of the cards.  The builds can be put in it, as each build's   *)
(* rank, the number of builds before it, is its own; and a function that   *)
(* is in this order reaches each build once.                               *)
InOrder(s, found) ==
    \A i, j \in 1..Cardinality(Registered) : i < j => Before(s[i], s[j], found)

(* There are as many places for cards as builds. *)
LEMMA RegisteredFinite ==
    /\ IsFiniteSet(Registered)
    /\ Cardinality(Registered) \in Nat
    /\ IsFiniteSet(1..Cardinality(Registered))
    /\ Cardinality(1..Cardinality(Registered)) = Cardinality(Registered)
<1>1. IsFiniteSet(Builds)
  BY RolloutAssumption, FS_Interval DEF Builds
<1>2. IsFiniteSet(Registered)
  BY <1>1, FS_Subset DEF Registered
<1>3. Cardinality(Registered) \in Nat
  BY <1>2, FS_CardinalityType
<1> QED
  BY <1>2, <1>3, FS_Interval

(* The order of the cards is a strict and total one. *)
LEMMA BeforeIsAnOrder ==
    ASSUME RolloutTypeOK, NEW found,
           NEW b \in Registered, NEW c \in Registered, NEW d \in Registered
    PROVE  /\ ~Before(b, b, found)
           /\ Before(b, c, found) /\ Before(c, d, found) => Before(b, d, found)
           /\ b = c \/ Before(b, c, found) \/ Before(c, b, found)
<1>1. \A e \in Registered : e \in Nat /\ LabelOf(e, found) \in Nat
  BY RolloutAssumption DEF RolloutTypeOK, Registered, Builds, LabelOf
<1> QED
  BY <1>1 DEF Before

(* The rank of a build, one more than the builds before it, is between 1   *)
(* and the number of builds and differs from that of any other build: what *)
(* has the rank is at the place of the rank.                               *)
LEMMA CanBeOrdered ==
    ASSUME RolloutTypeOK, NEW found
    PROVE  \E s \in [1..Cardinality(Registered) -> Registered] : InOrder(s, found)
<1> DEFINE n        == Cardinality(Registered)
           Lower(b) == {c \in Registered : Before(c, b, found)}
           rank     == [b \in Registered |-> Cardinality(Lower(b)) + 1]
<1>1. ASSUME NEW b \in Registered
      PROVE  IsFiniteSet(Lower(b)) /\ Cardinality(Lower(b)) \in 0..n - 1
  <2>1. Lower(b) \in SUBSET Registered /\ Lower(b) # Registered
    BY BeforeIsAnOrder
  <2>2. /\ IsFiniteSet(Lower(b))
        /\ Cardinality(Lower(b)) <= n
        /\ Cardinality(Lower(b)) # n
    BY <2>1, RegisteredFinite, FS_Subset
  <2>3. Cardinality(Lower(b)) \in Nat
    BY <2>2, FS_CardinalityType
  <2> HIDE DEF Lower
  <2> QED
    BY <2>2, <2>3, RegisteredFinite
<1>2. ASSUME NEW b \in Registered, NEW c \in Registered, Before(b, c, found)
      PROVE  rank[b] < rank[c]
  <2>1. Lower(b) \in SUBSET Lower(c) /\ Lower(b) # Lower(c)
    BY <1>2, BeforeIsAnOrder
  <2>2. /\ Cardinality(Lower(b)) <= Cardinality(Lower(c))
        /\ Cardinality(Lower(b)) # Cardinality(Lower(c))
    BY <1>1, <2>1, FS_Subset
  <2> HIDE DEF Lower
  <2> QED
    BY <1>1, <2>2, RegisteredFinite
<1>3. rank \in [Registered -> 1..n]
  <2>1. \A b \in Registered : Cardinality(Lower(b)) + 1 \in 1..n
    <3> HIDE DEF Lower
    <3> QED
      BY <1>1, RegisteredFinite
  <2> QED
    BY <2>1
<1> HIDE DEF Lower, rank
<1>4. \A b, c \in Registered : rank[b] = rank[c] => b = c
  <2>1. \A b, c \in Registered : Before(b, c, found) => rank[b] # rank[c]
    BY <1>2, <1>3, RegisteredFinite
  <2> QED
    BY <2>1, BeforeIsAnOrder
<1>5. rank \in Injection(Registered, 1..n)
  BY <1>3, <1>4 DEF Injection, IsInjective
<1>6. rank \in Surjection(Registered, 1..n)
  BY <1>5, RegisteredFinite, FS_Injection
<1>7. \A i \in 1..n : \E b \in Registered : rank[b] = i
  BY <1>6 DEF Surjection
<1> DEFINE s == [i \in 1..n |-> CHOOSE b \in Registered : rank[b] = i]
<1>8. s \in [1..n -> Registered] /\ \A i \in 1..n : rank[s[i]] = i
  BY <1>7
<1> HIDE DEF s
<1>9. ASSUME NEW i \in 1..n, NEW j \in 1..n, i < j
      PROVE  Before(s[i], s[j], found)
  <2>1. s[i] \in Registered /\ s[j] \in Registered /\ rank[s[i]] = i /\ rank[s[j]] = j
    BY <1>8
  <2>2. s[i] # s[j]
    BY <1>9, <2>1, RegisteredFinite
  <2>3. ~Before(s[j], s[i], found)
    <3>1. Before(s[j], s[i], found) => j < i
      BY <1>2, <2>1
    <3> QED
      BY <1>9, <3>1, RegisteredFinite
  <2> QED
    BY <2>1, <2>2, <2>3, BeforeIsAnOrder
<1> QED
  BY <1>8, <1>9 DEF InOrder

(* No build is before itself, so none is at two places; as there are as    *)
(* many places as builds, each is at one.                                  *)
LEMMA OrderedReachesAll ==
    ASSUME RolloutTypeOK, NEW found,
           NEW s \in [1..Cardinality(Registered) -> Registered], InOrder(s, found)
    PROVE  /\ \A i, j \in 1..Cardinality(Registered) : s[i] = s[j] => i = j
           /\ \A b \in Registered : \E i \in 1..Cardinality(Registered) : s[i] = b
<1> DEFINE n == Cardinality(Registered)
<1>1. ASSUME NEW i \in 1..n, NEW j \in 1..n, i # j
      PROVE  s[i] # s[j]
  <2>1. Before(s[i], s[j], found) \/ Before(s[j], s[i], found)
    <3>1. i < j \/ j < i
      BY <1>1, RegisteredFinite
    <3> QED
      BY <3>1 DEF InOrder
  <2> QED
    BY <2>1, BeforeIsAnOrder
<1>2. s \in Injection(1..n, Registered)
  BY <1>1 DEF Injection, IsInjective
<1>3. s \in Surjection(1..n, Registered)
  BY <1>2, RegisteredFinite, FS_Injection
<1> QED
  BY <1>1, <1>3 DEF Surjection

(* There is one card per build: cards[i] is that of builds[i]. *)
OneCardPerBuild(cards, builds, found) ==
    /\ builds \in [1..Cardinality(Registered) -> Registered]
    /\ \A i, j \in 1..Cardinality(Registered) : builds[i] = builds[j] => i = j
    /\ \A b \in Registered : \E i \in 1..Cardinality(Registered) : builds[i] = b
    /\ cards = [i \in 1..Cardinality(Registered) |-> Card(builds[i], found)]

(* The cards of a poll: one per build, whatever labels it has found. *)
LEMMA CardsAreBuilds ==
    ASSUME RolloutTypeOK, NEW found
    PROVE  \E builds : OneCardPerBuild(Cards(found), builds, found)
<1> DEFINE n      == Cardinality(Registered)
           builds == CHOOSE s \in [1..n -> Registered] :
                        \A i, j \in 1..n : i < j => Before(s[i], s[j], found)
<1>1. builds \in [1..n -> Registered] /\ InOrder(builds, found)
  BY CanBeOrdered DEF InOrder
<1>2. Cards(found) = [i \in 1..n |-> Card(builds[i], found)]
  BY DEF Cards
<1> HIDE DEF builds
<1>3. OneCardPerBuild(Cards(found), builds, found)
  BY <1>1, <1>2, OrderedReachesAll DEF OneCardPerBuild
<1> QED
  BY <1>3
-----------------------------------------------------------------------------
(* The modal.                                                              *)

(* The least and the greatest of one number. *)
LEMMA OfOne == ASSUME NEW x \in Nat PROVE Min({x}) = x /\ Max({x}) = x
BY DEF Min, Max

(* Where an opened modal finds the card that it selects. *)
LEMMA SelectedCard ==
    ASSUME RolloutTypeOK, Routed, current # 0 \/ ramp # 0,
           NEW found, NEW cards, NEW builds, OneCardPerBuild(cards, builds, found),
           NEW i \in 1..Cardinality(Registered),
           builds[i] = IF ramp # 0 THEN ramp ELSE current
    PROVE  /\ cards[i] = Card(builds[i], found)
           /\ defaultDeploySelection(cards) = LabelOf(builds[i], found)
<1> DEFINE places == 1..Cardinality(Registered)
<1>1. /\ \A j \in places : cards[j] = Card(builds[j], found) /\ builds[j] \in Registered
      /\ DOMAIN cards = places
  BY DEF OneCardPerBuild
<1>2. \A b \in Registered : b # 0
  BY RolloutAssumption DEF Registered, Builds
<1>3. \A j \in places : builds[j] = builds[i] => j = i
  BY DEF OneCardPerBuild
<1>4. i \in Nat
  BY RegisteredFinite
<1>5. cards[i].version = LabelOf(builds[i], found)
  BY <1>1 DEF Card
<1>6. \A j \in places : cards[j].status = Status(builds[j])
  BY <1>1 DEF Card
<1>7. CASE ramp # 0
  <2>1. \A j \in places : Status(builds[j]) = "ramping" <=> builds[j] = ramp
    BY <1>7 DEF Status, Routed
  <2>2. CardsWith(cards, "ramping") = {i}
    BY <1>1, <1>3, <1>6, <1>7, <2>1 DEF CardsWith
  <2> QED
    BY <1>1, <1>4, <1>5, <2>2, OfOne DEF defaultDeploySelection
<1>8. CASE ramp = 0
  <2>1. \A j \in places : Status(builds[j]) # "ramping"
    BY <1>1, <1>2, <1>8 DEF Status
  <2>2. \A j \in places : Status(builds[j]) = "current" <=> builds[j] = current
    BY DEF Status
  <2>3. CardsWith(cards, "ramping") = {}
    BY <1>1, <1>6, <2>1 DEF CardsWith
  <2>4. CardsWith(cards, "current") = {i}
    BY <1>1, <1>3, <1>6, <1>8, <2>2 DEF CardsWith
  <2> QED
    BY <1>1, <1>4, <1>5, <2>3, <2>4, OfOne DEF defaultDeploySelection
<1> QED
  BY <1>7, <1>8

(* With a label that no other build has, the modal's version leads back to *)
(* the build of the card, and its stop is the share the build has.         *)
LEMMA ModalProposes ==
    ASSUME RolloutTypeOK, Routed, current # 0 \/ ramp # 0, NEW found,
           Cardinality(Labelled(buildDeployModalView(Cards(found)).version, Seen, found)) = 1
    PROVE  LET view   == buildDeployModalView(Cards(found))
               target == TargetOf(view.version, Seen, found)
           IN  IF ramp # 0 THEN target = ramp /\ view.stop = pct
               ELSE target = current /\ view.stop = 100
<1> DEFINE chosen   == IF ramp # 0 THEN ramp ELSE current
           cards    == Cards(found)
           selected == defaultDeploySelection(cards)
           named    == {j \in DOMAIN cards : cards[j].version = selected}
<1>0. chosen \in Registered /\ chosen \in Nat
  BY RolloutAssumption DEF Routed, Registered, Builds
<1>1. PICK builds : OneCardPerBuild(cards, builds, found)
  BY CardsAreBuilds
<1>2. PICK i \in 1..Cardinality(Registered) : builds[i] = chosen
  BY <1>0, <1>1 DEF OneCardPerBuild
<1>3. cards[i] = Card(chosen, found) /\ selected = LabelOf(chosen, found)
  BY <1>1, <1>2, SelectedCard
<1>4. /\ DOMAIN cards = 1..Cardinality(Registered)
      /\ \A j \in DOMAIN cards : /\ cards[j].version = LabelOf(builds[j], found)
                                 /\ builds[j] \in Registered
                                 /\ builds[j] = chosen => j = i
  BY <1>1, <1>2 DEF OneCardPerBuild, Card
<1>5. /\ buildDeployModalView(cards).version = selected
      /\ buildDeployModalView(cards).stop = rampViewFor(cards, selected)
  BY DEF buildDeployModalView
<1> HIDE DEF cards, selected, chosen
<1>6. Labelled(selected, Seen, found) = {chosen}
  <2>1. Labelled(selected, Seen, found) \in SUBSET Registered
    BY DEF Labelled, Seen
  <2>2. IsFiniteSet(Labelled(selected, Seen, found))
    BY <2>1, RegisteredFinite, FS_Subset
  <2>3. PICK b : Labelled(selected, Seen, found) = {b}
    BY <1>5, <2>2, FS_Singleton DEF cards
  <2>4. chosen \in Labelled(selected, Seen, found)
    BY <1>0, <1>3 DEF Labelled, Seen
  <2> QED
    BY <2>3, <2>4
<1>7. TargetOf(selected, Seen, found) = chosen
  BY <1>0, <1>6, OfOne DEF TargetOf
<1>8. named = {i}
  <2>1. \A j \in DOMAIN cards : cards[j].version = selected => builds[j] = chosen
    BY <1>4, <1>6 DEF Labelled, Seen
  <2>2. cards[i].version = selected
    BY <1>3 DEF Card
  <2> QED
    BY <1>2, <1>4, <2>1, <2>2
<1>9. cards[Min(named)] = Card(chosen, found)
  BY <1>2, <1>3, <1>8, RegisteredFinite, OfOne
<1>10. rampViewFor(cards, selected) = IF ramp # 0 THEN pct ELSE 100
  <2>1. ramp # 0 => /\ Card(chosen, found).status = "ramping"
                    /\ Card(chosen, found).pct = pct
                    /\ pct \in Stops
    BY DEF chosen, Card, Status, TrafficPct, Routed, Stops
  <2>2. ramp = 0 => Card(chosen, found).status = "current"
    BY DEF chosen, Card, Status
  <2> QED
    BY <1>8, <1>9, <2>1, <2>2 DEF rampViewFor, Stops
<1> QED
  BY <1>5, <1>7, <1>10 DEF cards, chosen

(* For any rollout, however its requests and its bootstrap interleave and  *)
(* whatever the poll found: applying what the modal opens with, when its   *)
(* label is unique, neither moves traffic to another build nor changes a   *)
(* percentage (buildDeployModalView, resolveBuildID).                      *)
THEOREM ModalMovesNoTraffic == RolloutSpec => []ModalKeepsRouting
<1>1. RolloutInv /\ RoutingInv => ModalKeepsRouting
  BY ModalProposes DEF ModalKeepsRouting, RolloutInv, RoutingInv
<1> QED
  BY <1>1, RolloutInvHolds, RoutingInvHolds, PTL
-----------------------------------------------------------------------------
(* The percentages.                                                        *)

SumOf(cards, S) == MapThenSumSet(LAMBDA i : cards[i].pct, S)

AddsEachOnce(sum, cards, S) ==
    /\ sum = [s \in SUBSET S |-> sum[s]]
    /\ sum[{}] = 0
    /\ \A s \in SUBSET S : \A i \in s : sum[s] = cards[i].pct + sum[s \ {i}]

(* A function that takes each card of a set into account once gives the    *)
(* sum of the set's percentages: it agrees with the library's recursion on *)
(* every set, as there is no least set on which they differ.               *)
LEMMA SumOfPercentages ==
    ASSUME NEW cards, NEW S, IsFiniteSet(S),
           NEW sum, AddsEachOnce(sum, cards, S)
    PROVE  SumOf(cards, S) = sum[S]
<1> DEFINE Step(f, s) == IF s = {} THEN 0
                         ELSE LET i == CHOOSE i \in s : TRUE IN cards[i].pct + f[s \ {i}]
           Iterates(f) == f = [s \in SUBSET S |-> Step(f, s)]
           iter == CHOOSE f : Iterates(f)
<1>1. Iterates(sum)
  <2>1. \A s \in SUBSET S : sum[s] = Step(sum, s)
    BY DEF AddsEachOnce
  <2> QED
    BY <2>1 DEF AddsEachOnce
<1>2. SumOf(cards, S) = iter[S]
  BY DEF SumOf, MapThenSumSet, MapThenFoldSet
<1>3. Iterates(iter)
  <2> HIDE DEF Iterates
  <2> QED
    BY <1>1
<1> HIDE DEF iter
<1>4. \A s \in SUBSET S : iter[s] = Step(iter, s)
  BY <1>3
<1> DEFINE Wrong == {s \in SUBSET S : iter[s] # sum[s]}
<1>5. Wrong = {}
  <2> SUFFICES ASSUME Wrong # {} PROVE FALSE
    OBVIOUS
  <2>1. PICK s \in Wrong : \A t \in Wrong : <<t, s>> \notin StrictSubsetOrdering(S)
    <3>1. IsWellFoundedOn(StrictSubsetOrdering(S), SUBSET S)
      BY FS_StrictSubsetOrderingWellFounded, FS_FiniteSubsetsOfFinite
    <3>2. Wrong \subseteq SUBSET S
      OBVIOUS
    <3> HIDE DEF Wrong
    <3> QED
      BY <3>1, <3>2, WFMin
  <2>2. s # {}
    BY <1>4, <2>1 DEF AddsEachOnce
  <2>3. PICK i \in s : i = CHOOSE j \in s : TRUE
    BY <2>2
  <2>4. s \ {i} \notin Wrong
    BY <2>1, <2>3 DEF StrictSubsetOrdering
  <2>5. iter[s] = cards[i].pct + iter[s \ {i}]
    BY <1>4, <2>1, <2>2, <2>3
  <2> QED
    BY <2>1, <2>3, <2>4, <2>5 DEF AddsEachOnce
<1> QED
  BY <1>2, <1>5

(* Only the cards of the Current build and of the ramp count, each once. *)
LEMMA SharesAddUp ==
    ASSUME RolloutTypeOK, Routed, NEW found
    PROVE  SumOf(Cards(found), DOMAIN Cards(found)) = IF current # 0 THEN 100 ELSE pct
<1> DEFINE cards  == Cards(found)
           places == 1..Cardinality(Registered)
<1>1. PICK builds : OneCardPerBuild(cards, builds, found)
  BY CardsAreBuilds
<1>2. /\ DOMAIN cards = places
      /\ \A i \in places : cards[i].pct = TrafficPct(builds[i]) /\ builds[i] \in Registered
      /\ \A i, j \in places : builds[i] = builds[j] => i = j
      /\ \A b \in Registered : \E i \in places : builds[i] = b
  BY <1>1 DEF OneCardPerBuild, Card
<1> DEFINE Holds(s, b) == \E i \in s : builds[i] = b
           ofCurrent(s) == IF current # 0 /\ Holds(s, current) THEN 100 - pct ELSE 0
           ofRamp(s)    == IF ramp # 0 /\ Holds(s, ramp) THEN pct ELSE 0
           sum == [s \in SUBSET places |-> ofCurrent(s) + ofRamp(s)]
<1>3. pct \in {0, 25, 50} /\ \A b \in Registered : b # 0
  BY RolloutAssumption DEF RolloutTypeOK, Registered, Builds
<1>4. \A s \in SUBSET places : ofCurrent(s) \in {0, 100 - pct} /\ ofRamp(s) \in {0, pct}
  OBVIOUS
<1>5. ASSUME NEW s \in SUBSET places, NEW i \in s
      PROVE  ofCurrent(s) + ofRamp(s)
                 = cards[i].pct + (ofCurrent(s \ {i}) + ofRamp(s \ {i}))
  <2>1. /\ i \in places /\ builds[i] \in Registered
        /\ cards[i].pct = TrafficPct(builds[i])
    BY <1>2, <1>5
  <2>2. \A b \in Registered : b # builds[i] => (Holds(s, b) <=> Holds(s \ {i}, b))
    BY <1>5
  <2>3. Holds(s, builds[i]) /\ ~Holds(s \ {i}, builds[i])
    BY <1>2, <1>5
  <2> HIDE DEF Holds, cards
  <2>4. CASE builds[i] = current
    <3>1. ofCurrent(s) = 100 - pct /\ ofCurrent(s \ {i}) = 0
      BY <1>3, <2>1, <2>3, <2>4
    <3>2. ofRamp(s) = ofRamp(s \ {i})
      BY <2>2, <2>4 DEF Routed
    <3>3. cards[i].pct = 100 - pct
      BY <2>1, <2>4 DEF TrafficPct
    <3> HIDE DEF ofCurrent, ofRamp
    <3> QED
      BY <1>3, <1>4, <3>1, <3>2, <3>3
  <2>5. CASE builds[i] = ramp /\ builds[i] # current
    <3>1. ofRamp(s) = pct /\ ofRamp(s \ {i}) = 0
      BY <1>3, <2>1, <2>3, <2>5
    <3>2. ofCurrent(s) = ofCurrent(s \ {i})
      BY <2>2, <2>5 DEF Routed
    <3>3. cards[i].pct = pct
      BY <2>1, <2>5 DEF TrafficPct
    <3>4. s \ {i} \in SUBSET places
      OBVIOUS
    <3> HIDE DEF ofCurrent, ofRamp
    <3> QED
      BY <1>3, <1>4, <3>1, <3>2, <3>3, <3>4
  <2>6. CASE builds[i] # current /\ builds[i] # ramp
    <3>1. ofCurrent(s) = ofCurrent(s \ {i}) /\ ofRamp(s) = ofRamp(s \ {i})
      BY <2>2, <2>6 DEF Routed
    <3>2. cards[i].pct = 0
      BY <2>1, <2>6 DEF TrafficPct
    <3>3. s \ {i} \in SUBSET places
      OBVIOUS
    <3> HIDE DEF ofCurrent, ofRamp
    <3> QED
      BY <1>3, <1>4, <3>1, <3>2, <3>3
  <2> QED
    BY <2>4, <2>5, <2>6
<1>6. sum[{}] = 0
  OBVIOUS
<1>7. \A s \in SUBSET places : \A i \in s : sum[s] = cards[i].pct + sum[s \ {i}]
  <2> HIDE DEF cards, ofCurrent, ofRamp
  <2> QED
    BY <1>5
<1>8. sum = [s \in SUBSET places |-> sum[s]]
  OBVIOUS
<1>9. sum[places] = IF current # 0 THEN 100 ELSE pct
  <2>1. current # 0 => Holds(places, current)
    BY <1>2 DEF Routed
  <2>2. ramp # 0 => Holds(places, ramp)
    BY <1>2 DEF Routed
  <2> HIDE DEF Holds
  <2>3. ofCurrent(places) = (IF current # 0 THEN 100 - pct ELSE 0) /\ ofRamp(places) = pct
    BY <2>1, <2>2 DEF Routed
  <2> HIDE DEF ofCurrent, ofRamp
  <2> QED
    BY <1>3, <2>3
<1> HIDE DEF sum, cards
<1>10. SumOf(cards, places) = sum[places]
  <2>1. AddsEachOnce(sum, cards, places)
    BY <1>6, <1>7, <1>8 DEF AddsEachOnce
  <2> QED
    BY <2>1, RegisteredFinite, SumOfPercentages
<1> QED
  BY <1>2, <1>9, <1>10 DEF cards

(* For any number of builds and whatever labels are missing: the cards     *)
(* show all traffic once there is a Current build, and the ramp's share    *)
(* before (BuildState).                                                    *)
THEOREM CardsShowAllTraffic == RolloutSpec => []TrafficAddsUp
<1>1. RolloutInv /\ RoutingInv => TrafficAddsUp
  BY SharesAddUp DEF TrafficAddsUp, SumOf, RolloutInv, RoutingInv
<1> QED
  BY <1>1, RolloutInvHolds, RoutingInvHolds, PTL
=============================================================================
