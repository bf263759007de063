------------------------------- MODULE OrderIds -------------------------------
(***************************************************************************)
(* The IDs of the orders that PublishOrders starts.  Every attempt seeds   *)
(* its counter from the clock in whole seconds and counts up once per tick *)
(* of its ticker.  A start with the ID of an open order starts nothing:    *)
(* the client is handed the order that is there.                           *)
(*                                                                         *)
(* Time is counted in fractions of a second, and every attempt, of any     *)
(* publishing run, reads the same clock.  Attempts are numbered in the     *)
(* order of their start.                                                   *)
(***************************************************************************)
EXTENDS Integers

CONSTANTS
    Second,         \* fractions in a second
    Intervals,      \* the settings of PIZZA_ORDER_INTERVAL, in fractions
    MaxAttempts,    \* bound: attempts
    MaxTime         \* bound: the clock

ASSUME IdsAssumption ==
    /\ Second \in Nat \ {0}
    /\ Intervals \subseteq Nat \ {0}        \* durEnv refuses the others
    /\ MaxAttempts \in Nat
    /\ MaxTime \in Nat

Attempts == 1..MaxAttempts

VARIABLES
    now,
    interval,
    latest,     \* the newest attempt, 0 before the first
    pc,         \* pc[a]: none, loop, ticked, checked or gone
    born,       \* born[a]: when a started its ticker
    seed,       \* seed[a]: the seconds it read
    id,         \* id[a]: its counter
    fired       \* fired[a]: the ticks that had fired when it took its last one

idsVars == <<now, interval, latest, pc, born, seed, id, fired>>

IdsInit ==
    /\ now = 0
    /\ interval \in Intervals
    /\ latest = 0
    /\ pc = [a \in Attempts |-> "none"]
    /\ born = [a \in Attempts |-> 0]
    /\ seed = [a \in Attempts |-> 0]
    /\ id = [a \in Attempts |-> 0]
    /\ fired = [a \in Attempts |-> 0]

Goto(a, step) == pc' = [pc EXCEPT ![a] = step]
-----------------------------------------------------------------------------
TimePasses ==
    /\ now < MaxTime
    /\ now' = now + 1
    /\ UNCHANGED <<interval, latest, pc, born, seed, id, fired>>

(* Mutant of StartAttempt: the counter starts at 0. *)
StartUnseeded(a) ==
    /\ a = latest + 1
    /\ latest' = a
    /\ Goto(a, "loop")
    /\ born' = [born EXCEPT ![a] = now]
    /\ \E s \in 0..now : s * Second <= now /\ now < (s + 1) * Second
                         /\ seed' = [seed EXCEPT ![a] = s]
    /\ UNCHANGED <<now, interval, id, fired>>

(* A retry or a new run's first attempt: the older ones may still be there. *)
StartAttempt(a) ==
    /\ a = latest + 1
    /\ latest' = a
    /\ Goto(a, "loop")
    /\ born' = [born EXCEPT ![a] = now]
    /\ \E s \in 0..now :
          /\ s * Second <= now /\ now < (s + 1) * Second
          /\ seed' = [seed EXCEPT ![a] = s]
          /\ id' = [id EXCEPT ![a] = s]
    /\ UNCHANGED <<now, interval, fired>>

(* The ticker holds one tick that fired since the last was taken, no more. *)
TakeTick(a) ==
    /\ pc[a] = "loop"
    /\ \E k \in (fired[a] + 1)..now :
          /\ born[a] + k * interval <= now /\ now < born[a] + (k + 1) * interval
          /\ fired' = [fired EXCEPT ![a] = k]
    /\ Goto(a, "ticked")
    /\ UNCHANGED <<now, interval, latest, born, seed, id>>

(* Mutant of CheckCurrent: nothing tells a superseded attempt. *)
CheckNothing(a) ==
    /\ pc[a] = "ticked"
    /\ Goto(a, "checked")
    /\ UNCHANGED <<now, interval, latest, born, seed, id, fired>>

CheckCurrent(a) ==
    /\ pc[a] = "ticked"
    /\ a = latest
    /\ Goto(a, "checked")
    /\ UNCHANGED <<now, interval, latest, born, seed, id, fired>>

(* A check that fails skips the tick, and burns no ID. *)
CheckFails(a) ==
    /\ pc[a] = "ticked"
    /\ Goto(a, "loop")
    /\ UNCHANGED <<now, interval, latest, born, seed, id, fired>>

(* The start may be late, and its failure burns the ID. *)
StartOrder(a) ==
    /\ pc[a] = "checked"
    /\ id' = [id EXCEPT ![a] = @ + 1]
    /\ Goto(a, "loop")
    /\ UNCHANGED <<now, interval, latest, born, seed, fired>>

(* Not current any more, stopped, cancelled or dead. *)
AttemptEnds(a) ==
    /\ pc[a] \in {"loop", "ticked", "checked"}
    /\ Goto(a, "gone")
    /\ UNCHANGED <<now, interval, latest, born, seed, id, fired>>
-----------------------------------------------------------------------------
IdsNext ==
    \/ TimePasses
    \/ \E a \in Attempts :
          \/ StartAttempt(a) \/ TakeTick(a) \/ CheckCurrent(a) \/ CheckFails(a)
          \/ StartOrder(a) \/ AttemptEnds(a)

IdsSpec == IdsInit /\ [][IdsNext]_idsVars
-----------------------------------------------------------------------------
(* Types.  A counter starts at its seed and only counts up. *)
IdsTypeOK ==
    /\ now \in Nat /\ interval \in Intervals /\ latest \in 0..MaxAttempts
    /\ pc \in [Attempts -> {"none", "loop", "ticked", "checked", "gone"}]
    /\ born \in [Attempts -> Nat]
    /\ seed \in [Attempts -> Nat]
    /\ id \in [Attempts -> Nat]
    /\ fired \in [Attempts -> Nat]
    /\ \A a \in Attempts : seed[a] <= id[a]

(* The IDs that an attempt has used. *)
UsedIds(a) == (seed[a] + 1)..id[a]

(* No two starts use one ID, whatever attempt they belong to, however soon *)
(* an attempt follows another and however late a checked start is done, as *)
(* long as the interval is a second or more.  Below, the counter overtakes *)
(* the clock it was seeded from, and the next attempt's first orders are   *)
(* silently not started.                                                   *)
FreshIds ==
    interval >= Second
    => \A a, b \in Attempts : a # b => UsedIds(a) \intersect UsedIds(b) = {}
=============================================================================
