--------------------------- MODULE OrderIds_proofs ---------------------------
(***************************************************************************)
(* That order IDs are fresh, for every length of the ticker's interval     *)
(* from a second on, and any number of attempts.                           *)
(***************************************************************************)
EXTENDS OrderIds, TLAPS

(* A tick that an attempt has taken and not yet turned into an ID. *)
Owed(a) == IF pc[a] \in {"ticked", "checked"} THEN 1 ELSE 0

(* A check that it has passed. *)
Due(a) == IF pc[a] = "checked" THEN 1 ELSE 0

(* An attempt that has not started has used no ID.  One that has counts    *)
(* ticks, no more than have fired since its seed.                          *)
BehindClock ==
    \A a \in Attempts :
        /\ a > latest => pc[a] = "none" /\ id[a] = 0 /\ seed[a] = 0 /\ fired[a] = 0
        /\ a <= latest => /\ seed[a] * Second <= born[a]
                          /\ born[a] + fired[a] * interval <= now
                          /\ id[a] + Owed(a) <= seed[a] + fired[a]

(* What an older attempt has used, or may still use, is below the seed of  *)
(* every newer one.                                                        *)
BelowNewerSeeds ==
    interval >= Second
    => \A a, b \in Attempts : a < b /\ b <= latest => id[a] + Due(a) <= seed[b]

IdsInv == BehindClock /\ BelowNewerSeeds
-----------------------------------------------------------------------------
(* Multiplication by a natural number keeps the order. *)
LEMMA TimesMonotone ==
    ASSUME NEW x \in Nat, NEW y \in Nat, NEW z \in Nat, x <= y
    PROVE  x * z <= y * z
<1> DEFINE d == y - x
<1>1. d \in Nat /\ y = x + d
  OBVIOUS
<1> HIDE DEF d
<1>2. d * z \in Nat
  BY <1>1
<1>3. (x + d) * z = x * z + d * z
  BY <1>1
<1> QED
  BY <1>1, <1>2, <1>3

(* A counter that was seeded from the clock, and has counted no more than  *)
(* the ticks since, has not passed the clock: s is what it reads now.      *)
LEMMA CounterBehindClock ==
    ASSUME NEW S \in Nat \ {0}, NEW I \in Nat, I >= S,
           NEW s0 \in Nat, NEW start \in Nat, s0 * S <= start,
           NEW ticks \in Nat, NEW time \in Nat, start + ticks * I <= time,
           NEW s \in Nat, time < (s + 1) * S
    PROVE  s0 + ticks <= s
<1>1. ticks * S <= ticks * I
  <2>1. S * ticks <= I * ticks
    BY TimesMonotone
  <2> QED
    BY <2>1
<1>2. (s0 + ticks) * S = s0 * S + ticks * S
  OBVIOUS
<1>3. /\ s0 * S \in Nat /\ ticks * S \in Nat /\ ticks * I \in Nat
      /\ (s0 + ticks) * S \in Nat /\ (s + 1) * S \in Nat
  OBVIOUS
<1>4. (s0 + ticks) * S < (s + 1) * S
  BY <1>1, <1>2, <1>3
<1>5. ASSUME s + 1 <= s0 + ticks
      PROVE  FALSE
  <2>1. (s + 1) * S <= (s0 + ticks) * S
    BY <1>5, TimesMonotone
  <2> QED
    BY <2>1, <1>3, <1>4
<1> QED
  BY <1>5
-----------------------------------------------------------------------------
(* Every variable of OrderIds keeps its type, and no counter falls below   *)
(* its seed.                                                               *)
THEOREM IdsTypeCorrect == IdsSpec => []IdsTypeOK
<1> USE IdsAssumption DEF Attempts
<1>1. IdsInit => IdsTypeOK
  BY DEF IdsInit, IdsTypeOK
<1>2. IdsTypeOK /\ [IdsNext]_idsVars => IdsTypeOK'
  <2> SUFFICES ASSUME IdsTypeOK, [IdsNext]_idsVars
               PROVE  IdsTypeOK'
    OBVIOUS
  <2> USE DEF IdsTypeOK, Goto
  <2>1. CASE TimePasses
    BY <2>1 DEF TimePasses
  <2>2. ASSUME NEW a \in Attempts, StartAttempt(a)
        PROVE  IdsTypeOK'
    <3>1. PICK s \in 0..now : seed' = [seed EXCEPT ![a] = s] /\ id' = [id EXCEPT ![a] = s]
      BY <2>2 DEF StartAttempt
    <3>2. /\ a = latest + 1 /\ latest' = a /\ now' = now /\ interval' = interval
          /\ fired' = fired /\ born' = [born EXCEPT ![a] = now] /\ Goto(a, "loop")
      BY <2>2 DEF StartAttempt
    <3>3. s \in Nat
      BY <3>1
    <3>4. seed' \in [Attempts -> Nat] /\ id' \in [Attempts -> Nat]
      BY <3>1, <3>3
    <3>5. \A c \in Attempts : seed'[c] <= id'[c]
      BY <3>1, <3>3
    <3>6. latest' \in 0..MaxAttempts /\ now' \in Nat /\ interval' \in Intervals
      BY <3>2
    <3>7. pc' \in [Attempts -> {"none", "loop", "ticked", "checked", "gone"}]
      BY <3>2
    <3>8. born' \in [Attempts -> Nat] /\ fired' \in [Attempts -> Nat]
      BY <3>2
    <3> QED
      BY <3>4, <3>5, <3>6, <3>7, <3>8
  <2>3. ASSUME NEW a \in Attempts, TakeTick(a)
        PROVE  IdsTypeOK'
    <3>1. PICK k \in (fired[a] + 1)..now : fired' = [fired EXCEPT ![a] = k]
      BY <2>3 DEF TakeTick
    <3>2. UNCHANGED <<now, interval, latest, born, seed, id>> /\ Goto(a, "ticked")
      BY <2>3 DEF TakeTick
    <3>3. k \in Nat
      BY <3>1
    <3>4. fired' \in [Attempts -> Nat]
      BY <3>1, <3>3
    <3> QED
      BY <3>2, <3>4
  <2>4. ASSUME NEW a \in Attempts, CheckCurrent(a) \/ CheckFails(a) \/ AttemptEnds(a)
        PROVE  IdsTypeOK'
    BY <2>4 DEF CheckCurrent, CheckFails, AttemptEnds
  <2>5. ASSUME NEW a \in Attempts, StartOrder(a)
        PROVE  IdsTypeOK'
    BY <2>5 DEF StartOrder
  <2>6. CASE UNCHANGED idsVars
    BY <2>6 DEF idsVars
  <2> QED
    BY <2>1, <2>2, <2>3, <2>4, <2>5, <2>6 DEF IdsNext
<1> QED
  BY <1>1, <1>2, PTL DEF IdsSpec
-----------------------------------------------------------------------------
(* No attempt has started at first. *)
LEMMA IdsInvInit == IdsInit => IdsInv
  BY IdsAssumption DEF IdsInit, IdsInv, BehindClock, BelowNewerSeeds, Attempts

(* A new attempt: the clock it reads is at or past every older counter. *)
LEMMA StartKeepsIdsInv ==
    ASSUME IdsTypeOK, IdsInv, NEW n \in Attempts, StartAttempt(n)
    PROVE  IdsInv'
<1> USE IdsAssumption DEF Attempts
<1>1. PICK s \in 0..now : /\ s * Second <= now /\ now < (s + 1) * Second
                          /\ seed' = [seed EXCEPT ![n] = s]
                          /\ id' = [id EXCEPT ![n] = s]
  BY DEF StartAttempt
<1>2. /\ n = latest + 1 /\ latest' = n /\ now' = now /\ interval' = interval /\ fired' = fired
      /\ pc' = [pc EXCEPT ![n] = "loop"] /\ born' = [born EXCEPT ![n] = now]
  BY DEF StartAttempt, Goto
<1>3. fired[n] = 0
  BY <1>2 DEF IdsInv, BehindClock, IdsTypeOK
<1>4. BehindClock'
  <2> SUFFICES ASSUME NEW a \in Attempts
               PROVE  /\ a > latest' => pc'[a] = "none" /\ id'[a] = 0
                                        /\ seed'[a] = 0 /\ fired'[a] = 0
                      /\ a <= latest' => /\ seed'[a] * Second <= born'[a]
                                         /\ born'[a] + fired'[a] * interval' <= now'
                                         /\ id'[a] + Owed(a)' <= seed'[a] + fired'[a]
    BY DEF BehindClock
  <2>1. CASE a = n
    <3>1. 0 * interval = 0
      BY DEF IdsTypeOK
    <3> QED
      BY <1>1, <1>2, <1>3, <2>1, <3>1 DEF IdsTypeOK, Owed
  <2>2. CASE a # n
    <3>1. /\ pc'[a] = pc[a] /\ id'[a] = id[a] /\ seed'[a] = seed[a] /\ born'[a] = born[a]
          /\ fired'[a] = fired[a] /\ Owed(a)' = Owed(a)
      BY <1>1, <1>2, <2>2 DEF IdsTypeOK, Owed
    <3>2. a > latest' => a > latest
      BY <1>2 DEF IdsTypeOK
    <3>3. a <= latest' => a <= latest
      BY <1>2, <2>2 DEF IdsTypeOK
    <3> QED
      BY <1>2, <3>1, <3>2, <3>3 DEF IdsInv, BehindClock
  <2> QED
    BY <2>1, <2>2
<1>5. BelowNewerSeeds'
  <2> SUFFICES ASSUME interval >= Second,
                      NEW a \in Attempts, NEW b \in Attempts, a < b, b <= latest'
               PROVE  id'[a] + Due(a)' <= seed'[b]
    BY <1>2 DEF BelowNewerSeeds
  <2>1. /\ a # n /\ id'[a] = id[a] /\ Due(a)' = Due(a) /\ a <= latest
    BY <1>1, <1>2 DEF IdsTypeOK, Due
  <2>2. CASE b = n
    <3>1. /\ id[a] + Owed(a) <= seed[a] + fired[a] /\ seed[a] * Second <= born[a]
          /\ born[a] + fired[a] * interval <= now
      BY <2>1 DEF IdsInv, BehindClock
    <3>2. seed[a] + fired[a] <= s
      <4>1. /\ seed[a] \in Nat /\ fired[a] \in Nat /\ born[a] \in Nat /\ now \in Nat
            /\ interval \in Nat /\ s \in Nat /\ Second \in Nat \ {0}
        BY DEF IdsTypeOK
      <4> QED
        BY <1>1, <3>1, <4>1, CounterBehindClock, Zenon
    <3>3. Due(a) <= Owed(a) /\ Due(a) \in Nat /\ Owed(a) \in Nat
      BY DEF Due, Owed
    <3>4. seed'[b] = s
      BY <1>1, <2>2 DEF IdsTypeOK
    <3>5. id[a] \in Nat /\ seed[a] \in Nat /\ fired[a] \in Nat /\ s \in Nat
      BY <1>1 DEF IdsTypeOK
    <3>6. id[a] + Due(a) <= s
      BY <3>1, <3>2, <3>3, <3>5
    <3> QED
      BY <2>1, <3>4, <3>6
  <2>3. CASE b # n
    <3>1. b <= latest /\ seed'[b] = seed[b]
      BY <1>1, <1>2, <2>3 DEF IdsTypeOK
    <3> QED
      BY <2>1, <3>1 DEF IdsInv, BelowNewerSeeds
  <2> QED
    BY <2>2, <2>3
<1> QED
  BY <1>4, <1>5 DEF IdsInv

(* An attempt's own steps: only the latest passes a check, and older ones  *)
(* keep to the IDs that they were due.                                     *)
LEMMA AttemptKeepsIdsInv ==
    ASSUME IdsTypeOK, IdsInv, NEW n \in Attempts,
           \/ TakeTick(n) \/ CheckCurrent(n) \/ CheckFails(n)
           \/ StartOrder(n) \/ AttemptEnds(n)
    PROVE  IdsInv'
<1> USE IdsAssumption DEF Attempts
<1>1. /\ now' = now /\ interval' = interval /\ latest' = latest
      /\ born' = born /\ seed' = seed
  BY DEF TakeTick, CheckCurrent, CheckFails, StartOrder, AttemptEnds
<1>2. /\ id'[n] \in Nat /\ fired'[n] \in Nat
      /\ \A a \in Attempts : a # n => /\ pc'[a] = pc[a] /\ id'[a] = id[a]
                                      /\ fired'[a] = fired[a]
  <2>1. CASE TakeTick(n)
    <3>1. PICK k \in (fired[n] + 1)..now : fired' = [fired EXCEPT ![n] = k]
      BY <2>1 DEF TakeTick
    <3> QED
      BY <2>1, <3>1 DEF TakeTick, Goto, IdsTypeOK
  <2>2. CASE StartOrder(n)
    BY <2>2 DEF StartOrder, Goto, IdsTypeOK
  <2>3. CASE CheckCurrent(n) \/ CheckFails(n) \/ AttemptEnds(n)
    BY <2>3 DEF CheckCurrent, CheckFails, AttemptEnds, Goto, IdsTypeOK
  <2> QED
    BY <2>1, <2>2, <2>3
<1>3. n <= latest
  BY DEF TakeTick, CheckCurrent, CheckFails, StartOrder, AttemptEnds, IdsInv, BehindClock,
         IdsTypeOK
<1>4. born[n] + fired'[n] * interval <= now
  <2>1. CASE TakeTick(n)
    BY <2>1 DEF TakeTick, IdsTypeOK
  <2>2. CASE ~TakeTick(n)
    BY <1>3, <2>2 DEF CheckCurrent, CheckFails, StartOrder, AttemptEnds, IdsInv, BehindClock
  <2> QED
    BY <2>1, <2>2
<1>5. id'[n] + Owed(n)' <= seed[n] + fired'[n]
  <2>0. id[n] + Owed(n) <= seed[n] + fired[n]
    BY <1>3 DEF IdsInv, BehindClock
  <2>1. CASE TakeTick(n)
    BY <2>0, <2>1 DEF TakeTick, Goto, IdsTypeOK, Owed
  <2>2. CASE CheckCurrent(n)
    BY <2>0, <2>2 DEF CheckCurrent, Goto, IdsTypeOK, Owed
  <2>3. CASE CheckFails(n) \/ AttemptEnds(n)
    <3>1. id' = id /\ fired' = fired /\ pc'[n] \in {"loop", "gone"}
      BY <2>3 DEF CheckFails, AttemptEnds, Goto, IdsTypeOK
    <3>2. Owed(n)' = 0 /\ Owed(n) \in Nat
      BY <3>1 DEF Owed
    <3> QED
      BY <2>0, <3>1, <3>2 DEF IdsTypeOK
  <2>4. CASE StartOrder(n)
    BY <2>0, <2>4 DEF StartOrder, Goto, IdsTypeOK, Owed
  <2> QED
    BY <2>1, <2>2, <2>3, <2>4
<1>6. n < latest => id'[n] + Due(n)' <= id[n] + Due(n)
  <2>1. CASE TakeTick(n)
    BY <2>1 DEF TakeTick, Goto, IdsTypeOK, Due
  <2>2. CASE CheckCurrent(n)
    BY <2>2 DEF CheckCurrent, IdsTypeOK
  <2>3. CASE CheckFails(n) \/ AttemptEnds(n)
    <3>1. id' = id /\ pc'[n] \in {"loop", "gone"}
      BY <2>3 DEF CheckFails, AttemptEnds, Goto, IdsTypeOK
    <3>2. Due(n)' = 0 /\ Due(n) \in Nat
      BY <3>1 DEF Due
    <3> QED
      BY <3>1, <3>2 DEF IdsTypeOK
  <2>4. CASE StartOrder(n)
    BY <2>4 DEF StartOrder, Goto, IdsTypeOK, Due
  <2> QED
    BY <2>1, <2>2, <2>3, <2>4
<1>7. BehindClock'
  <2> SUFFICES ASSUME NEW a \in Attempts
               PROVE  /\ a > latest => pc'[a] = "none" /\ id'[a] = 0
                                       /\ seed[a] = 0 /\ fired'[a] = 0
                      /\ a <= latest => /\ seed[a] * Second <= born[a]
                                        /\ born[a] + fired'[a] * interval <= now
                                        /\ id'[a] + Owed(a)' <= seed[a] + fired'[a]
    BY <1>1 DEF BehindClock
  <2>1. CASE a = n
    BY <1>3, <1>4, <1>5, <2>1 DEF IdsInv, BehindClock, IdsTypeOK
  <2>2. CASE a # n
    <3>1. /\ pc'[a] = pc[a] /\ id'[a] = id[a] /\ fired'[a] = fired[a] /\ Owed(a)' = Owed(a)
      BY <1>2, <2>2 DEF Owed
    <3> QED
      BY <3>1 DEF IdsInv, BehindClock
  <2> QED
    BY <2>1, <2>2
<1>8. BelowNewerSeeds'
  <2> SUFFICES ASSUME interval >= Second,
                      NEW a \in Attempts, NEW b \in Attempts, a < b, b <= latest
               PROVE  id'[a] + Due(a)' <= seed[b]
    BY <1>1 DEF BelowNewerSeeds
  <2>1. id[a] + Due(a) <= seed[b]
    BY DEF IdsInv, BelowNewerSeeds
  <2>2. CASE a = n
    <3>1. id'[a] + Due(a)' <= id[a] + Due(a)
      BY <1>6, <2>2 DEF IdsTypeOK
    <3>2. id'[a] \in Nat /\ Due(a)' \in Nat /\ Due(a) \in Nat /\ id[a] \in Nat /\ seed[b] \in Nat
      BY <1>2, <2>2 DEF Due, IdsTypeOK
    <3> QED
      BY <2>1, <3>1, <3>2
  <2>3. CASE a # n
    BY <1>2, <2>1, <2>3 DEF Due
  <2> QED
    BY <2>2, <2>3
<1> QED
  BY <1>7, <1>8 DEF IdsInv

(* Every step keeps the counters behind the clock and the newer seeds. *)
LEMMA IdsInvStep == IdsTypeOK /\ IdsInv /\ [IdsNext]_idsVars => IdsInv'
<1> SUFFICES ASSUME IdsTypeOK, IdsInv, [IdsNext]_idsVars
             PROVE  IdsInv'
  OBVIOUS
<1>1. CASE TimePasses
  <2>1. /\ now' = now + 1 /\ interval' = interval /\ latest' = latest /\ pc' = pc
        /\ born' = born /\ seed' = seed /\ id' = id /\ fired' = fired
    BY <1>1 DEF TimePasses
  <2>2. \A a \in Attempts : a <= latest => born[a] + fired[a] * interval <= now + 1
    <3> SUFFICES ASSUME NEW a \in Attempts, a <= latest
                 PROVE  born[a] + fired[a] * interval <= now + 1
      OBVIOUS
    <3>1. born[a] + fired[a] * interval <= now
      BY DEF IdsInv, BehindClock
    <3>2. /\ born[a] \in Nat /\ fired[a] * interval \in Nat /\ now \in Nat
      BY IdsAssumption DEF IdsTypeOK
    <3> QED
      BY <3>1, <3>2
  <2>3. \A a \in Attempts : Owed(a)' = Owed(a) /\ Due(a)' = Due(a)
    BY <2>1 DEF Owed, Due
  <2> QED
    BY <2>1, <2>2, <2>3 DEF IdsInv, BehindClock, BelowNewerSeeds
<1>2. CASE UNCHANGED idsVars
  <2>1. \A a \in Attempts : Owed(a)' = Owed(a) /\ Due(a)' = Due(a)
    BY <1>2 DEF Owed, Due, idsVars
  <2> QED
    BY <1>2, <2>1 DEF IdsInv, BehindClock, BelowNewerSeeds, idsVars
<1> QED
  BY <1>1, <1>2, StartKeepsIdsInv, AttemptKeepsIdsInv DEF IdsNext

(* A newer attempt's IDs are above its seed, and an older one's are not. *)
LEMMA IdsInvFresh == IdsTypeOK /\ IdsInv => FreshIds
<1> SUFFICES ASSUME IdsTypeOK, IdsInv, interval >= Second,
                    NEW a \in Attempts, NEW b \in Attempts, a < b
             PROVE  UsedIds(a) \intersect UsedIds(b) = {}
  BY DEF FreshIds, Attempts
<1>1. /\ id[a] \in Nat /\ id[b] \in Nat /\ seed[a] \in Nat /\ seed[b] \in Nat
  BY DEF IdsTypeOK
<1>2. CASE b <= latest
  <2>1. id[a] + Due(a) <= seed[b]
    BY <1>2 DEF IdsInv, BelowNewerSeeds
  <2>2. id[a] <= seed[b]
    BY <1>1, <2>1 DEF Due
  <2> QED
    BY <1>1, <2>2 DEF UsedIds
<1>3. CASE b > latest
  <2>1. id[b] = 0 /\ seed[b] = 0
    BY <1>3 DEF IdsInv, BehindClock
  <2> QED
    BY <1>1, <2>1 DEF UsedIds
<1> QED
  BY <1>2, <1>3, IdsAssumption DEF IdsTypeOK, Attempts

(* With an interval of a second or more no two orders are started with one *)
(* ID: a seed read from the clock is above every ID that was used before.  *)
THEOREM IdsAreFresh == IdsSpec => []FreshIds
<1>1. IdsInit => IdsInv
  BY IdsInvInit
<1>2. IdsTypeOK /\ IdsInv /\ [IdsNext]_idsVars => IdsInv'
  BY IdsInvStep
<1>3. IdsTypeOK /\ IdsInv => FreshIds
  BY IdsInvFresh
<1> QED
  BY <1>1, <1>2, <1>3, IdsTypeCorrect, PTL DEF IdsSpec
=============================================================================
