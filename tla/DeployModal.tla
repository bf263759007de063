----------------------------- MODULE DeployModal -----------------------------
(***************************************************************************)
(* What the dashboard shows of a rollout, and what its Deploy modal        *)
(* proposes: the version cards of BuildState, and the selection and ramp   *)
(* that buildDeployModalView derives from them.                            *)
(*                                                                         *)
(* found is the set of builds whose label a poll has found: see FindLabels *)
(* in Rollout.  Draining builds count as inactive here.                    *)
(***************************************************************************)
EXTENDS Rollout

(* Mutant of TrafficPct: the ramp does not take from the Current build. *)
TrafficPctGross(b) == IF b = current THEN 100 ELSE IF b = ramp THEN pct ELSE 0

TrafficPct(b) == IF b = current THEN 100 - pct ELSE IF b = ramp THEN pct ELSE 0

Status(b) ==
    IF b = current THEN "current" ELSE IF b = ramp THEN "ramping" ELSE "inactive"

Card(b, found) ==
    [version |-> LabelOf(b, found), status |-> Status(b), pct |-> TrafficPct(b)]

(* The order of the cards: by label, and by age for ties. *)
Before(b, c, found) ==
    \/ LabelOf(b, found) < LabelOf(c, found)
    \/ LabelOf(b, found) = LabelOf(c, found) /\ b < c

(* BuildState: one card per build, in their order. *)
Cards(found) ==
    LET places == 1..Cardinality(Registered)
        builds == CHOOSE s \in [places -> Registered] :
                     \A i, j \in places : i < j => Before(s[i], s[j], found)
    IN  [i \in places |-> Card(builds[i], found)]

CardsWith(cards, what) == {i \in DOMAIN cards : cards[i].status = what}

(* The version that the modal selects when it opens, 0 without cards. *)
defaultDeploySelection(cards) ==
    LET ramping == CardsWith(cards, "ramping")
        now     == CardsWith(cards, "current")
    IN  IF ramping # {} THEN cards[Min(ramping)].version
        ELSE IF now # {} THEN cards[Max(now)].version
        ELSE IF cards # <<>> THEN cards[1].version ELSE 0

(* Mutant of rampViewFor: every card starts a new ramp. *)
rampViewNew(cards, selected) == 25

(* The stop for a version: the one its first card is at, or the first. *)
rampViewFor(cards, selected) ==
    LET named == {i \in DOMAIN cards : cards[i].version = selected}
        card  == cards[Min(named)]
        at    == IF named = {} \/ card.status = "inactive" THEN 25
                 ELSE IF card.status = "current" THEN 100 ELSE card.pct
    IN  IF at \in Stops THEN at ELSE 25

buildDeployModalView(cards) ==
    LET selected == defaultDeploySelection(cards)
    IN  [version |-> selected, stop |-> rampViewFor(cards, selected)]
-----------------------------------------------------------------------------
(* What a poll may have found: the labels that are cached, and maybe others *)
(* that are published.                                                     *)
MayFind == {found \in SUBSET published : cached \subseteq found}

(* The cards' percentages add up, whatever labels are missing and wherever *)
(* the routing has been moved: to all traffic once there is a Current      *)
(* build, and to the ramp before.                                          *)
TrafficAddsUp ==
    \A found \in MayFind :
        LET cards == Cards(found)
        IN  MapThenSumSet(LAMBDA i : cards[i].pct, DOMAIN cards)
                = IF current # 0 THEN 100 ELSE pct

(* Opening the modal and applying what it proposes moves no traffic: the   *)
(* version that is selected, resolved again to a build, is the build whose *)
(* card was selected, at the percentage it has.  It takes labels that are  *)
(* unique: of two builds with one label the modal reads the older one's    *)
(* card, and Deploy goes to the younger one.                               *)
ModalKeepsRouting ==
    \A found \in MayFind :
        LET view   == buildDeployModalView(Cards(found))
            target == TargetOf(view.version, Seen, found)
        IN  (current # 0 \/ ramp # 0) /\ Cardinality(Labelled(view.version, Seen, found)) = 1
            => IF ramp # 0 THEN target = ramp /\ view.stop = pct
               ELSE target = current /\ view.stop = 100
=============================================================================
