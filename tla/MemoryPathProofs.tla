-------------------------- MODULE MemoryPathProofs --------------------------
(****************************************************************************)
(* Proofs about MemoryPath, for any masters, weights, priorities, transfers *)
(* and any bus width and burst length.                                      *)
(*                                                                          *)
(* Equals take turns at the arbiter under every policy as long as there are *)
(* no tiers (SingleTier): the rotating policies because a master that asks  *)
(* comes before, from the cursor on, whoever has been granted since         *)
(* (InRotation); the weighted one because credits are replenished at most   *)
(* once while it asks (WithinCredits).                                      *)
(*                                                                          *)
(* calculate_bursts cuts every transfer into legal bursts that follow on    *)
(* each other (PlanCoversTransfer), and on their way through the bus, the   *)
(* memory and back they stay in that order (Carrying).                      *)
(*                                                                          *)
(* A recursive function is the one CHOOSE picks, so what it computes is     *)
(* shown in two inductions: there is a function that satisfies the          *)
(* definition, and every one that does has the property.                    *)
(****************************************************************************)
EXTENDS MemoryPath, QueueLemmas, TLAPS

----------------------------------------------------------------------------
(* The arbiter takes turns *)

\* How far x is from the cursor.
Gap(cursor, x) == IF x >= cursor THEN x - cursor ELSE x + NumMasters - cursor

Arbitration ==
  /\ policy \in Policies
  /\ asking \subseteq Masters
  /\ arbiter \in [cursor : Masters, credits : [Masters -> Nat]]
  /\ \A m \in Masters : arbiter.credits[m] <= FullCredits[m]
  /\ passed \in [Masters -> [Masters -> Nat]]
  /\ \A m \in Masters \ asking : passed[m] = NotPassed

\* No tier above another: everyone asks at the same level.
SingleTier ==
  /\ policy = "PriorityRR" => \A m, o \in Masters : Priority[m] = Priority[o]
  /\ policy = "QoSAware"   => \A m, o \in Masters : Qos[m] = Qos[o]

Rotating == {"RoundRobin", "PriorityRR", "QoSAware"}

\* While m asks, only who comes after m from the cursor has been granted, and once.
InRotation ==
  policy \in Rotating =>
    \A m \in asking : \A o \in Masters :
      passed[m][o] = 0 \/ (passed[m][o] = 1 /\ Gap(arbiter.cursor, m) < Gap(arbiter.cursor, o))

\* While m asks, credits are replenished at most once, and not after m has some.
WithinCredits ==
  policy = "WeightedRR" =>
    \A m \in asking : \A o \in Masters :
      /\ passed[m][o] + arbiter.credits[o] <= 2 * FullCredits[o]
      /\ arbiter.credits[m] = 0 => passed[m][o] + arbiter.credits[o] <= FullCredits[o]

LEMMA ModSmall ==
  ASSUME NEW N \in Nat \ {0}, NEW a \in 0 .. 2 * N - 1
  PROVE  a % N = IF a < N THEN a ELSE a - N
OBVIOUS

LEMMA Bounded ==
  ASSUME NEW f \in [Masters -> Nat]
  PROVE  \E top \in Nat : \A m \in Masters : f[m] <= top
<1> DEFINE Below(n) == \E top \in Nat : \A m \in 0 .. n - 1 : m \in Masters => f[m] <= top
           Bad == {n \in Nat : ~Below(n)}
<1>0. NumMasters \in Nat \ {0}
  BY ArbiterAssumption
<1>1. Bad = {}
  <2> SUFFICES ASSUME Bad # {} PROVE FALSE
    OBVIOUS
  <2>1. PICK n \in Bad : \A k \in Bad : n <= k
    <3> HIDE DEF Bad
    <3>1. Bad \subseteq Nat
      BY DEF Bad
    <3> QED
      BY <3>1, LeastNatural
  <2>2. n # 0
    <3> SUFFICES ASSUME n = 0 PROVE FALSE
      OBVIOUS
    <3>1. \A m \in 0 .. n - 1 : f[m] <= 0
      OBVIOUS
    <3> QED
      BY <3>1, <2>1
  <2>3. n \in Nat /\ n - 1 \in Nat /\ ~(n - 1 \in Bad) /\ ~Below(n)
    <3> HIDE DEF Below
    <3>1. n \in Nat /\ ~Below(n)
      BY <2>1
    <3>2. n - 1 \in Nat /\ ~(n <= n - 1)
      BY <3>1, <2>2
    <3> QED
      BY <3>1, <3>2, <2>1
  <2>4. PICK top \in Nat : \A m \in 0 .. n - 2 : m \in Masters => f[m] <= top
    <3>1. Below(n - 1)
      BY <2>3
    <3> QED
      BY <3>1, <2>3
  <2>6. n \in Nat /\ n - 1 \in Nat
    BY <2>3
  <2>5. Below(n)
    <3>1. CASE n - 1 \in Masters
      <4>1. PICK v \in Nat : v = f[n - 1]
        BY <3>1
      <4> DEFINE high == top + v
      <4>2. high \in Nat /\ high >= top /\ high >= v
        OBVIOUS
      <4> HIDE DEF high
      <4>3. \A m \in 0 .. n - 1 : m \in Masters => f[m] <= high
        <5> SUFFICES ASSUME NEW m \in 0 .. n - 1, m \in Masters PROVE f[m] <= high
          OBVIOUS
        <5>1. CASE m = n - 1
          BY <5>1, <4>1, <4>2
        <5>2. CASE m # n - 1
          <6>1. m \in 0 .. n - 2
            BY <5>2, <2>6
          <6>2. f[m] \in Nat /\ f[m] <= top
            BY <6>1, <2>4
          <6> QED
            BY <4>2, <6>2
        <5> QED
          BY <5>1, <5>2
      <4> QED
        BY <4>2, <4>3
    <3>2. CASE n - 1 \notin Masters
      <4>1. \A m \in 0 .. n - 1 : m \in Masters => m \in 0 .. n - 2
        <5> SUFFICES ASSUME NEW m \in 0 .. n - 1, m \in Masters PROVE m \in 0 .. n - 2
          OBVIOUS
        <5>1. m # n - 1
          BY <3>2
        <5> QED
          BY <2>6, <5>1
      <4>2. \A m \in 0 .. n - 1 : m \in Masters => f[m] <= top
        BY <2>4, <4>1
      <4> QED
        BY <4>2
    <3> QED
      BY <3>1, <3>2
  <2> QED
    BY <2>3, <2>5
<1>2. Below(NumMasters)
  BY <1>0, <1>1
<1> QED
  BY <1>0, <1>2 DEF Masters

\* Among masters there is one with the greatest value of f, and one with the least.
LEMMA Greatest ==
  ASSUME NEW f \in [Masters -> Nat], NEW S, S \subseteq Masters, S # {}
  PROVE  \E m \in S : \A o \in S : f[m] >= f[o]
<1>1. PICK top \in Nat : \A m \in Masters : f[m] <= top
  BY Bounded
<1> DEFINE T == {top - f[m] : m \in S}
<1>2. T \subseteq Nat /\ T # {}
  BY <1>1
<1>3. PICK x \in T : \A y \in T : x <= y
  <2> HIDE DEF T
  <2> QED
    BY <1>2, LeastNatural
<1>4. PICK m \in S : x = top - f[m]
  BY <1>3
<1>5. \A o \in S : f[m] >= f[o]
  <2> SUFFICES ASSUME NEW o \in S PROVE f[m] >= f[o]
    OBVIOUS
  <2>1. top - f[m] <= top - f[o] /\ f[m] \in Nat /\ f[o] \in Nat
    BY <1>3, <1>4
  <2> QED
    BY <2>1
<1> QED
  BY <1>5

LEMMA Smallest ==
  ASSUME NEW f \in [Masters -> Nat], NEW S, S \subseteq Masters, S # {}
  PROVE  \E m \in S : \A o \in S : f[m] <= f[o]
<1> DEFINE T == {f[m] : m \in S}
<1>2. T \subseteq Nat /\ T # {}
  OBVIOUS
<1>3. PICK x \in T : \A y \in T : x <= y
  <2> HIDE DEF T
  <2> QED
    BY <1>2, LeastNatural
<1> QED
  BY <1>3

LEMMA FullCreditsType ==
  /\ FullCredits \in [Masters -> Nat \ {0}]
  /\ Masters \subseteq Nat /\ 0 \in Masters /\ NumMasters \in Nat \ {0}
  /\ \A m \in Masters : m < NumMasters
BY ArbiterAssumption DEF FullCredits, Most, Masters

LEMMA MaxPassedType == MaxPassed \in Nat
<1> DEFINE R == Range(FullCredits)
<1>1. PICK m \in Masters : \A o \in Masters : FullCredits[m] >= FullCredits[o]
  BY FullCreditsType, Greatest
<1>2. R = {FullCredits[k] : k \in Masters}
  BY FullCreditsType DEF Range
<1>3. \E x \in R : \A y \in R : x >= y
  BY <1>1, <1>2
<1>4. Max(R) \in R
  <2> HIDE DEF R
  <2> QED
    BY <1>3 DEF Max
<1>5. Max(R) \in Nat
  BY <1>2, <1>4, FullCreditsType
<1> HIDE DEF R
<1>6. 1 + 2 * Max(R) \in Nat
  BY <1>5
<1> QED
  BY <1>6 DEF MaxPassed, R

\* FromCursor finds the nearest.
LEMMA Nearest ==
  ASSUME arbiter.cursor \in Masters, NEW S, S \subseteq Masters, S # {}
  PROVE  /\ FromCursor(S) \in S
         /\ \A x \in S : x = FromCursor(S) \/ Gap(arbiter.cursor, FromCursor(S)) < Gap(arbiter.cursor, x)
<1> DEFINE c == arbiter.cursor
           T == {k \in Masters : (c + k) % NumMasters \in S}
<1>0. NumMasters \in Nat \ {0} /\ c \in Nat /\ c < NumMasters
  BY FullCreditsType
<1>1. \A k \in Masters : (c + k) % NumMasters = IF c + k < NumMasters THEN c + k ELSE c + k - NumMasters
  <2> SUFFICES ASSUME NEW k \in Masters
               PROVE  (c + k) % NumMasters = IF c + k < NumMasters THEN c + k ELSE c + k - NumMasters
    OBVIOUS
  <2>1. c + k \in 0 .. 2 * NumMasters - 1
    BY <1>0, FullCreditsType DEF Masters
  <2>2. PICK a \in 0 .. 2 * NumMasters - 1 : a = c + k
    BY <2>1
  <2>3. a % NumMasters = IF a < NumMasters THEN a ELSE a - NumMasters
    BY <1>0, <2>2, ModSmall
  <2>4. c \in Nat /\ k \in Nat
    BY <1>0, FullCreditsType
  <2> HIDE DEF c
  <2> QED
    BY <1>0, <2>2, <2>3, <2>4
<1>2. \A x \in Masters : Gap(c, x) \in Masters /\ (c + Gap(c, x)) % NumMasters = x
  <2> SUFFICES ASSUME NEW x \in Masters PROVE Gap(c, x) \in Masters /\ (c + Gap(c, x)) % NumMasters = x
    OBVIOUS
  <2>1. x \in Nat /\ x < NumMasters
    BY FullCreditsType
  <2>2. Gap(c, x) \in Masters
    BY <1>0, <2>1 DEF Gap, Masters
  <2>3. c + Gap(c, x) = IF x >= c THEN x ELSE x + NumMasters
    BY <1>0, <2>1 DEF Gap
  <2>4. (c + Gap(c, x)) % NumMasters = IF c + Gap(c, x) < NumMasters THEN c + Gap(c, x) ELSE c + Gap(c, x) - NumMasters
    BY <1>1, <2>2
  <2> QED
    BY <1>0, <2>1, <2>2, <2>3, <2>4
<1>3. \A k \in Masters : Gap(c, (c + k) % NumMasters) = k
  <2> SUFFICES ASSUME NEW k \in Masters PROVE Gap(c, (c + k) % NumMasters) = k
    OBVIOUS
  <2>1. k \in Nat /\ k < NumMasters
    BY FullCreditsType
  <2>2. (c + k) % NumMasters = IF c + k < NumMasters THEN c + k ELSE c + k - NumMasters
    BY <1>1
  <2> QED
    BY <1>0, <2>1, <2>2 DEF Gap
<1>4. T \subseteq Nat /\ T # {}
  <2>1. PICK x \in S : TRUE
    OBVIOUS
  <2>2. Gap(c, x) \in T
    BY <1>2, <2>1
  <2> QED
    BY <2>2, FullCreditsType
<1>5. Min(T) \in T /\ \A y \in T : Min(T) <= y
  <2> HIDE DEF T
  <2>1. \E x \in T : \A y \in T : x <= y
    BY <1>4, LeastNatural
  <2> QED
    BY <2>1 DEF Min
<1> DEFINE i == Min(T)
<1>6. FromCursor(S) = (c + i) % NumMasters
  BY DEF FromCursor
<1>7. i \in T /\ \A y \in T : i <= y
  BY <1>5
<1> HIDE DEF i
<1>8. FromCursor(S) \in S /\ Gap(c, FromCursor(S)) = i
  BY <1>3, <1>6, <1>7
<1>9. ASSUME NEW x \in S, x # FromCursor(S) PROVE i < Gap(c, x)
  <2>1. Gap(c, x) \in T
    BY <1>2
  <2>2. i <= Gap(c, x)
    BY <1>7, <2>1
  <2>3. i # Gap(c, x)
    BY <1>2, <1>6, <1>9
  <2>4. i \in Nat /\ Gap(c, x) \in Nat
    BY <1>4, <1>7, <2>1
  <2> QED
    BY <2>2, <2>3, <2>4
<1> QED
  BY <1>8, <1>9
\* What a grant is: to a master that asks; the rotating policies grant the nearest and
\* put the cursor behind it, the weighted one takes a credit of the winner.
Grants(w, next) ==
  /\ w \in asking
  /\ next \in [cursor : Masters, credits : [Masters -> Nat]]
  /\ \A m \in Masters : next.credits[m] <= FullCredits[m]
  /\ policy \in Rotating /\ SingleTier => w = FromCursor(asking) /\ next.cursor = After(w)
  /\ policy = "WeightedRR" =>
       \E credits \in [Masters -> Nat] :
         /\ next.credits = [credits EXCEPT ![w] = @ - 1] /\ credits[w] > 0
         /\ \/ credits = arbiter.credits
            \/ credits = FullCredits /\ \A m \in asking : arbiter.credits[m] = 0

LEMMA AfterType ==
  ASSUME NEW m \in Masters
  PROVE  After(m) \in Masters /\ After(m) = IF m + 1 < NumMasters THEN m + 1 ELSE 0
<1>1. NumMasters \in Nat \ {0} /\ m \in Nat /\ m < NumMasters
  BY FullCreditsType
<1>2. PICK a \in 0 .. 2 * NumMasters - 1 : a = m + 1
  BY <1>1
<1>3. a % NumMasters = IF a < NumMasters THEN a ELSE a - NumMasters
  BY <1>1, <1>2, ModSmall
<1>4. After(m) = IF a < NumMasters THEN a ELSE a - NumMasters
  BY <1>2, <1>3 DEF After
<1> QED
  BY <1>1, <1>2, <1>4 DEF Masters

LEMMA RotatedGrants ==
  ASSUME Arbitration, NEW S, S \subseteq asking, S # {}, policy # "WeightedRR",
         policy \in Rotating /\ SingleTier => S = asking
  PROVE  Grants(Rotated(S).winner, Rotated(S).next)
<1> DEFINE w == FromCursor(S)
<1>1. arbiter.cursor \in Masters /\ arbiter.credits \in [Masters -> Nat]
  BY DEF Arbitration
<1>2. w \in S /\ w \in asking /\ w \in Masters
  BY <1>1, Nearest DEF Arbitration
<1>3. Rotated(S).winner = w /\ Rotated(S).next = [arbiter EXCEPT !.cursor = After(w)]
  BY DEF Rotated
<1> HIDE DEF w
<1>4. After(w) \in Masters
  BY <1>2, AfterType
<1>5. /\ Rotated(S).next \in [cursor : Masters, credits : [Masters -> Nat]]
      /\ Rotated(S).next.cursor = After(w) /\ Rotated(S).next.credits = arbiter.credits
  BY <1>3, <1>4 DEF Arbitration
<1>6. policy \in Rotating /\ SingleTier => w = FromCursor(asking)
  BY DEF w
<1> QED
  BY <1>2, <1>3, <1>5, <1>6 DEF Grants, Arbitration

LEMMA WeightedGrants ==
  ASSUME Arbitration, asking # {}, policy = "WeightedRR"
  PROVE  Grants(GrantWeightedRR(asking).winner, GrantWeightedRR(asking).next)
<1> DEFINE funded  == {m \in asking : arbiter.credits[m] > 0}
           credits == IF funded = {} THEN FullCredits ELSE arbiter.credits
           S == IF funded = {} THEN asking ELSE funded
           w == FromCursor(S)
           next == [cursor  |-> IF credits[w] = 1 THEN After(w) ELSE arbiter.cursor,
                    credits |-> [credits EXCEPT ![w] = @ - 1]]
<1>1. /\ arbiter.cursor \in Masters /\ arbiter.credits \in [Masters -> Nat]
      /\ asking \subseteq Masters /\ \A m \in Masters : arbiter.credits[m] <= FullCredits[m]
  BY DEF Arbitration
<1>2. S # {} /\ S \subseteq asking /\ S \subseteq Masters
  BY <1>1
<1>3. FullCredits \in [Masters -> Nat \ {0}]
  BY FullCreditsType
<1>4. credits \in [Masters -> Nat] /\ \A m \in Masters : credits[m] <= FullCredits[m]
  BY <1>1, <1>3
<1>5. GrantWeightedRR(asking).winner = w /\ GrantWeightedRR(asking).next = next
  <2>1. GrantWeightedRR(asking).winner = w
    BY DEF GrantWeightedRR
  <2>2. GrantWeightedRR(asking).next = next
    BY DEF GrantWeightedRR
  <2> QED
    BY <2>1, <2>2
<1>6. \A m \in S : credits[m] > 0
  BY <1>1, <1>3
<1>7. \/ credits = arbiter.credits
      \/ credits = FullCredits /\ \A m \in asking : arbiter.credits[m] = 0
  BY <1>1
<1> HIDE DEF S, credits
<1>8. w \in S /\ w \in asking /\ w \in Masters
  BY <1>1, <1>2, Nearest
<1> HIDE DEF w
<1>9. credits[w] \in Nat /\ credits[w] > 0 /\ After(w) \in Masters
  BY <1>4, <1>6, <1>8, AfterType
<1>10. next.credits \in [Masters -> Nat] /\ \A m \in Masters : next.credits[m] <= credits[m]
  <2> DEFINE less == [credits EXCEPT ![w] = @ - 1]
  <2>1. next.credits = less
    OBVIOUS
  <2>2. less \in [Masters -> Nat] /\ less[w] = credits[w] - 1 /\ \A m \in Masters \ {w} : less[m] = credits[m]
    BY <1>4, <1>8, <1>9
  <2> HIDE DEF less
  <2>3. \A m \in Masters : less[m] <= credits[m]
    BY <1>4, <1>9, <2>2
  <2> QED
    BY <2>1, <2>2, <2>3
<1>11. next \in [cursor : Masters, credits : [Masters -> Nat]]
  BY <1>1, <1>9, <1>10
<1>12. \A m \in Masters : next.credits[m] <= FullCredits[m]
  <2> HIDE DEF next
  <2> SUFFICES ASSUME NEW m \in Masters PROVE next.credits[m] <= FullCredits[m]
    OBVIOUS
  <2>1. next.credits[m] \in Nat /\ credits[m] \in Nat /\ FullCredits[m] \in Nat
    BY <1>3, <1>4, <1>10
  <2> QED
    BY <1>4, <1>10, <2>1
<1>13. next.credits = [credits EXCEPT ![w] = @ - 1]
  OBVIOUS
<1> HIDE DEF next
<1>14. Grants(w, next)
  BY <1>4, <1>7, <1>8, <1>9, <1>11, <1>12, <1>13 DEF Grants, Rotating
<1> QED
  BY <1>5, <1>14

LEMMA GrantGrants ==
  ASSUME Arbitration, asking # {}
  PROVE  Grants(Grant(asking).winner, Grant(asking).next)
<1>0. asking \subseteq Masters
  BY DEF Arbitration
<1>1. CASE policy = "RoundRobin"
  BY <1>1, RotatedGrants DEF Grant, GrantRoundRobin
<1>2. CASE policy = "WeightedRR"
  BY <1>2, WeightedGrants DEF Grant
<1>3. CASE policy = "FixedPriority"
  <2>1. PICK k \in asking : \A o \in asking : Priority[k] <= Priority[o]
    BY <1>0, Smallest, ArbiterAssumption
  <2> DEFINE T == MostUrgent(asking)
  <2>2. T \subseteq asking /\ T # {}
    BY <2>1 DEF MostUrgent
  <2> HIDE DEF T
  <2>3. T \subseteq Nat
    BY <1>0, <2>2, FullCreditsType
  <2>4. Min(T) \in T
    BY <2>2, <2>3, LeastNatural DEF Min
  <2>5. Grant(asking).winner = Min(T) /\ Grant(asking).next = arbiter
    BY <1>3 DEF Grant, GrantFixedPriority, T
  <2> QED
    BY <1>3, <2>2, <2>4, <2>5 DEF Grants, Arbitration, Rotating
<1>4. CASE policy = "PriorityRR"
  <2>1. PICK k \in asking : \A o \in asking : Priority[k] <= Priority[o]
    BY <1>0, Smallest, ArbiterAssumption
  <2>2. MostUrgent(asking) \subseteq asking /\ MostUrgent(asking) # {}
    BY <2>1 DEF MostUrgent
  <2>3. SingleTier => MostUrgent(asking) = asking
    <3>1. \A m \in Masters : Priority[m] \in Nat
      BY ArbiterAssumption
    <3> QED
      BY <1>0, <1>4, <3>1 DEF MostUrgent, SingleTier
  <2>4. Grant(asking) = Rotated(MostUrgent(asking))
    BY <1>4 DEF Grant, GrantPriorityRR
  <2> QED
    BY <1>4, <2>2, <2>3, <2>4, RotatedGrants
<1>5. CASE policy = "QoSAware"
  <2>1. PICK k \in asking : \A o \in asking : Qos[k] >= Qos[o]
    BY <1>0, Greatest, ArbiterAssumption
  <2>2. HighestQos(asking) \subseteq asking /\ HighestQos(asking) # {}
    BY <2>1 DEF HighestQos
  <2>3. SingleTier => HighestQos(asking) = asking
    <3>1. \A m \in Masters : Qos[m] \in Nat
      BY ArbiterAssumption
    <3> QED
      BY <1>0, <1>5, <3>1 DEF HighestQos, SingleTier
  <2>4. Grant(asking) = Rotated(HighestQos(asking))
    BY <1>5 DEF Grant, GrantQosAware
  <2> QED
    BY <1>5, <2>2, <2>3, <2>4, RotatedGrants
<1> QED
  BY <1>1, <1>2, <1>3, <1>4, <1>5, ArbiterAssumption DEF Arbitration

LEMMA ArbitrationInit == Init => Arbitration /\ InRotation /\ WithinCredits
<1> SUFFICES ASSUME Init PROVE Arbitration /\ InRotation /\ WithinCredits
  OBVIOUS
<1>1. NotPassed \in [Masters -> Nat]
  BY DEF NotPassed
<1>2. arbiter = [cursor |-> 0, credits |-> FullCredits] /\ asking = {} /\ policy \in Policies
  BY DEF Init
<1>3. passed = [m \in Masters |-> NotPassed]
  BY DEF Init
<1>4. arbiter \in [cursor : Masters, credits : [Masters -> Nat]]
  BY <1>2, FullCreditsType
<1>5. \A m \in Masters : arbiter.credits[m] <= FullCredits[m]
  BY <1>2, FullCreditsType
<1>6. Arbitration
  BY <1>1, <1>2, <1>3, <1>4, <1>5 DEF Arbitration
<1> QED
  BY <1>2, <1>6 DEF InRotation, WithinCredits

\* How a grant counts for those who go on asking.
LEMMA PassedOnGrant ==
  ASSUME Arbitration, NEW w \in asking,
         passed' = [o \in Masters |-> IF o \in asking \ {w}
                      THEN [passed[o] EXCEPT ![w] = Least(@ + 1, MaxPassed)] ELSE NotPassed]
  PROVE  /\ passed' \in [Masters -> [Masters -> Nat]]
         /\ \A m \in Masters \ (asking \ {w}) : passed'[m] = NotPassed
         /\ \A m \in asking \ {w} : \A o \in Masters :
              IF o = w THEN passed'[m][o] <= passed[m][o] + 1 ELSE passed'[m][o] = passed[m][o]
<1>1. asking \subseteq Masters /\ w \in Masters /\ passed \in [Masters -> [Masters -> Nat]]
  BY DEF Arbitration
<1>2. NotPassed \in [Masters -> Nat]
  BY DEF NotPassed
<1>3. ASSUME NEW m \in asking \ {w}
      PROVE  /\ passed'[m] \in [Masters -> Nat]
             /\ \A o \in Masters :
                  IF o = w THEN passed'[m][o] <= passed[m][o] + 1 ELSE passed'[m][o] = passed[m][o]
  <2> DEFINE v == Least(passed[m][w] + 1, MaxPassed)
  <2>1. passed[m] \in [Masters -> Nat] /\ passed[m][w] \in Nat
    BY <1>1
  <2>2. v \in Nat /\ v <= passed[m][w] + 1
    BY <2>1, MaxPassedType DEF Least
  <2>3. passed'[m] = [passed[m] EXCEPT ![w] = v]
    BY <1>1
  <2> HIDE DEF v
  <2> QED
    BY <1>1, <2>1, <2>2, <2>3
<1>4. \A m \in Masters \ (asking \ {w}) : passed'[m] = NotPassed
  OBVIOUS
<1>5. \A m \in Masters : passed'[m] \in [Masters -> Nat]
  BY <1>2, <1>3, <1>4
<1>6. passed' = [m \in Masters |-> passed'[m]]
  OBVIOUS
<1>7. passed' \in [Masters -> [Masters -> Nat]]
  BY <1>5, <1>6
<1> QED
  BY <1>3, <1>4, <1>7

LEMMA GrantKeepsTurns ==
  ASSUME Arbitration, SingleTier => InRotation, WithinCredits, GrantOne
  PROVE  Arbitration' /\ (SingleTier' => InRotation') /\ WithinCredits'
<1> DEFINE g == Grant(asking)
<1>1. PICK w, next : w = g.winner /\ next = g.next
  OBVIOUS
<1>2. Grants(w, next)
  BY <1>1, GrantGrants DEF GrantOne
<1>3. /\ arbiter' = next /\ asking' = asking \ {w} /\ policy' = policy
      /\ passed' = [o \in Masters |-> IF o \in asking \ {w}
                      THEN [passed[o] EXCEPT ![w] = Least(@ + 1, MaxPassed)] ELSE NotPassed]
  BY <1>1 DEF GrantOne
<1> HIDE DEF g
<1>4. /\ w \in asking /\ w \in Masters
      /\ next \in [cursor : Masters, credits : [Masters -> Nat]]
      /\ \A m \in Masters : next.credits[m] <= FullCredits[m]
  BY <1>2 DEF Grants, Arbitration
<1>5. /\ passed' \in [Masters -> [Masters -> Nat]]
      /\ \A m \in Masters \ (asking \ {w}) : passed'[m] = NotPassed
      /\ \A m \in asking \ {w} : \A o \in Masters :
           IF o = w THEN passed'[m][o] <= passed[m][o] + 1 ELSE passed'[m][o] = passed[m][o]
  BY <1>3, <1>4, PassedOnGrant
<1>6. Arbitration'
  <2>1. policy' \in Policies /\ asking' \subseteq Masters
    BY <1>3 DEF Arbitration
  <2>2. arbiter' \in [cursor : Masters, credits : [Masters -> Nat]]
    BY <1>3, <1>4
  <2>3. \A m \in Masters : arbiter'.credits[m] <= FullCredits[m]
    BY <1>3, <1>4
  <2>4. \A m \in Masters \ asking' : passed'[m] = NotPassed
    BY <1>3, <1>5
  <2> QED
    BY <1>5, <2>1, <2>2, <2>3, <2>4 DEF Arbitration
<1>7. ASSUME SingleTier' PROVE InRotation'
  <2> SUFFICES ASSUME policy \in Rotating, NEW m \in asking \ {w}, NEW o \in Masters
               PROVE  \/ passed'[m][o] = 0
                      \/ passed'[m][o] = 1 /\ Gap(next.cursor, m) < Gap(next.cursor, o)
    BY <1>3 DEF InRotation, Rotating
  <2>0. SingleTier
    BY <1>3, <1>7 DEF SingleTier
  <2> DEFINE c == arbiter.cursor
  <2>1. w = FromCursor(asking) /\ next.cursor = After(w)
    BY <1>2, <2>0 DEF Grants
  <2>2. c \in Masters /\ asking \subseteq Masters /\ asking # {} /\ m \in Masters
    BY DEF Arbitration
  <2>3. Gap(c, w) < Gap(c, m)
    BY <2>1, <2>2, Nearest
  <2>4. /\ c \in Nat /\ c < NumMasters /\ w \in Nat /\ w < NumMasters
        /\ m \in Nat /\ m < NumMasters /\ o \in Nat /\ o < NumMasters /\ NumMasters \in Nat
    BY <1>4, <2>2, FullCreditsType
  <2>5. next.cursor = IF w + 1 < NumMasters THEN w + 1 ELSE 0
    BY <1>4, <2>1, AfterType
  <2>6. passed[m][o] = 0 \/ (passed[m][o] = 1 /\ Gap(c, m) < Gap(c, o))
    BY <2>0 DEF InRotation, Rotating
  <2>7. passed[m][o] \in Nat /\ passed'[m][o] \in Nat
    BY <1>5, <2>2 DEF Arbitration
  <2> HIDE DEF c
  <2>8. CASE o = w
    <3>1. passed[m][o] = 0
      BY <2>3, <2>4, <2>6, <2>8 DEF Gap
    <3>2. passed'[m][o] <= 1
      BY <1>5, <2>7, <2>8, <3>1
    <3>3. Gap(next.cursor, m) < Gap(next.cursor, o)
      BY <2>3, <2>4, <2>5, <2>8 DEF Gap
    <3> QED
      BY <2>7, <3>2, <3>3
  <2>9. CASE o # w
    <3>1. passed'[m][o] = passed[m][o]
      BY <1>5, <2>9
    <3>2. Gap(c, m) < Gap(c, o) => Gap(next.cursor, m) < Gap(next.cursor, o)
      BY <2>3, <2>4, <2>5 DEF Gap
    <3> QED
      BY <2>6, <3>1, <3>2
  <2> QED
    BY <2>8, <2>9
<1>8. WithinCredits'
  <2> SUFFICES ASSUME policy = "WeightedRR", NEW m \in asking \ {w}, NEW o \in Masters
               PROVE  /\ passed'[m][o] + next.credits[o] <= 2 * FullCredits[o]
                      /\ next.credits[m] = 0 => passed'[m][o] + next.credits[o] <= FullCredits[o]
    BY <1>3 DEF WithinCredits
  <2>1. PICK credits \in [Masters -> Nat] :
          /\ next.credits = [credits EXCEPT ![w] = @ - 1] /\ credits[w] > 0
          /\ \/ credits = arbiter.credits
             \/ credits = FullCredits /\ \A k \in asking : arbiter.credits[k] = 0
    BY <1>2 DEF Grants
  <2>2. m \in Masters
    BY DEF Arbitration
  <2>3. next.credits[m] = credits[m] /\ next.credits[o] = IF o = w THEN credits[o] - 1 ELSE credits[o]
    BY <1>4, <2>1, <2>2
  <2>4. /\ passed[m][o] + arbiter.credits[o] <= 2 * FullCredits[o]
        /\ arbiter.credits[m] = 0 => passed[m][o] + arbiter.credits[o] <= FullCredits[o]
    BY DEF WithinCredits
  <2>5. /\ passed[m][o] \in Nat /\ passed'[m][o] \in Nat /\ credits[o] \in Nat /\ credits[m] \in Nat
        /\ arbiter.credits[o] \in Nat /\ FullCredits[o] \in Nat \ {0} /\ FullCredits[m] \in Nat \ {0}
    BY <1>5, <2>1, <2>2, FullCreditsType DEF Arbitration
  <2>6. passed'[m][o] + next.credits[o] <= passed[m][o] + credits[o]
    BY <1>5, <2>3, <2>5
  <2>7. CASE credits = arbiter.credits
    BY <2>3, <2>4, <2>5, <2>6, <2>7
  <2>8. CASE credits = FullCredits /\ \A k \in asking : arbiter.credits[k] = 0
    <3>1. passed[m][o] <= FullCredits[o]
      BY <2>4, <2>5, <2>8
    <3>2. next.credits[m] # 0
      BY <2>3, <2>5, <2>8
    <3>3. credits[o] = FullCredits[o]
      BY <2>8
    <3>4. next.credits[o] \in Nat
      BY <1>4
    <3> QED
      BY <2>5, <2>6, <3>1, <3>2, <3>3, <3>4
  <2> QED
    BY <2>1, <2>7, <2>8
<1> QED
  BY <1>6, <1>7, <1>8

LEMMA AskKeepsTurns ==
  ASSUME Arbitration, SingleTier => InRotation, WithinCredits, NEW k \in Masters, Ask(k)
  PROVE  Arbitration' /\ (SingleTier' => InRotation') /\ WithinCredits'
<1>1. /\ policy' = policy /\ arbiter' = arbiter /\ passed' = passed /\ asking' = asking \cup {k}
      /\ k \notin asking
  BY DEF Ask
<1>2. passed[k] = NotPassed /\ \A o \in Masters : passed[k][o] = 0
  BY <1>1 DEF Arbitration, NotPassed
<1>3. Arbitration'
  BY <1>1 DEF Arbitration
<1>4. ASSUME SingleTier' PROVE InRotation'
  <2>1. SingleTier
    BY <1>1, <1>4 DEF SingleTier
  <2> QED
    BY <1>1, <1>2, <2>1 DEF InRotation
<1>5. WithinCredits'
  <2>1. \A o \in Masters : /\ arbiter.credits[o] \in Nat /\ FullCredits[o] \in Nat
                           /\ arbiter.credits[o] <= FullCredits[o]
    BY FullCreditsType DEF Arbitration
  <2>2. \A o \in Masters : /\ passed[k][o] + arbiter.credits[o] <= 2 * FullCredits[o]
                           /\ passed[k][o] + arbiter.credits[o] <= FullCredits[o]
    BY <1>2, <2>1
  <2> QED
    BY <1>1, <2>2 DEF WithinCredits
<1> QED
  BY <1>3, <1>4, <1>5

LEMMA TurnsNext ==
  ASSUME Arbitration, SingleTier => InRotation, WithinCredits, [Next]_vars
  PROVE  Arbitration' /\ (SingleTier' => InRotation') /\ WithinCredits'
<1>1. CASE UNCHANGED <<policy, arbiter, asking, passed>>
  BY <1>1 DEF Arbitration, SingleTier, InRotation, WithinCredits
<1>2. CASE GrantOne
  BY <1>2, GrantKeepsTurns
<1>3. CASE GrantNone
  <2>1. /\ policy' = policy /\ asking' = asking /\ passed' = passed /\ asking = {}
        /\ arbiter' = [arbiter EXCEPT !.credits = FullCredits]
    BY <1>3 DEF GrantNone
  <2>2. arbiter' \in [cursor : Masters, credits : [Masters -> Nat]] /\ arbiter'.credits = FullCredits
    BY <2>1, FullCreditsType DEF Arbitration
  <2>3. \A m \in Masters : arbiter'.credits[m] <= FullCredits[m]
    BY <2>2, FullCreditsType
  <2> QED
    BY <2>1, <2>2, <2>3 DEF Arbitration, InRotation, WithinCredits
<1>4. CASE \E m \in Masters : Ask(m)
  BY <1>4, AskKeepsTurns
<1>5. CASE \E m \in Masters : (\E t \in Transfers[m] : Submit(m, t)) \/ Complete(m)
  BY <1>1, <1>5 DEF Submit, Complete
<1>6. CASE Tick \/ Answer
  BY <1>1, <1>6 DEF Tick, Answer
<1>7. CASE UNCHANGED vars
  BY <1>1, <1>7 DEF vars
<1> QED
  BY <1>2, <1>3, <1>4, <1>5, <1>6, <1>7 DEF Next

LEMMA TurnsKept == Spec => [](Arbitration /\ (SingleTier => InRotation) /\ WithinCredits)
<1> DEFINE Inv == Arbitration /\ (SingleTier => InRotation) /\ WithinCredits
<1>1. Init => Inv
  BY ArbitrationInit
<1>2. Inv /\ [Next]_vars => Inv'
  BY TurnsNext
<1> QED
  BY <1>1, <1>2, PTL DEF Spec

\* Equals take turns at the arbiter (Arbiter::grant), for every number of masters.  With
\* tiers they do not: one cursor serves all of them.
THEOREM EqualsAlwaysTakeTurns == Spec => [](SingleTier => EqualsTakeTurns)
<1> DEFINE Inv == Arbitration /\ (SingleTier => InRotation) /\ WithinCredits
<1>1. Inv => (SingleTier => EqualsTakeTurns)
  <2> SUFFICES ASSUME Inv, SingleTier, NEW m \in asking, NEW o \in Masters \ {m}, Equals(m, o)
               PROVE  passed[m][o] <= Turns(o)
    BY DEF EqualsTakeTurns
  <2>1. policy \in {"RoundRobin", "WeightedRR", "PriorityRR", "QoSAware"}
    BY ArbiterAssumption DEF Arbitration, Equals
  <2>2. CASE policy = "WeightedRR"
    <3>1. m \in Masters /\ passed[m][o] + arbiter.credits[o] <= 2 * FullCredits[o]
      BY <2>2 DEF WithinCredits, Arbitration
    <3>2. passed[m][o] \in Nat /\ arbiter.credits[o] \in Nat /\ FullCredits[o] \in Nat
      BY <3>1, FullCreditsType DEF Arbitration
    <3> QED
      BY <2>2, <3>1, <3>2 DEF Turns
  <2>3. CASE policy # "WeightedRR"
    BY <2>1, <2>3 DEF InRotation, Rotating, Turns
  <2> QED
    BY <2>2, <2>3
<1> QED
  BY <1>1, TurnsKept, PTL

----------------------------------------------------------------------------
(* calculate_bursts *)

BeatSizes == {1, 2, 4, 8, 16, 32, 64, 128}

LEMMA PowersOfTwo == {2 ^ n : n \in 0 .. 7} = BeatSizes /\ BytesPerBeat \in BeatSizes
<1>1. 2^0 = 1 /\ 2^1 = 2 /\ 2^2 = 4 /\ 2^3 = 8 /\ 2^4 = 16 /\ 2^5 = 32 /\ 2^6 = 64 /\ 2^7 = 128
  OBVIOUS
<1>2. 0 .. 7 = {0, 1, 2, 3, 4, 5, 6, 7}
  OBVIOUS
<1>3. {2 ^ n : n \in 0 .. 7} = BeatSizes
  BY <1>1, <1>2 DEF BeatSizes
<1>4. PICK n \in 0 .. 7 : BytesPerBeat = 2 ^ n
  BY TransferAssumption
<1> QED
  BY <1>3, <1>4

\* The beat divides the address.
LEMMA BeatFits ==
  ASSUME NEW addr \in Nat
  PROVE  BeatAt(addr) \in BeatSizes /\ addr % BeatAt(addr) = 0
<1> DEFINE Ok(b) == b <= BytesPerBeat /\ addr % b = 0 /\ (b = BytesPerBeat \/ addr % (2 * b) # 0)
<1>1. \E b \in BeatSizes : Ok(b)
  <2>1. addr % 1 = 0
    OBVIOUS
  <2> SUFFICES ASSUME \A b \in BeatSizes : ~Ok(b) PROVE FALSE
    OBVIOUS
  <2>2. ~Ok(1) /\ ~Ok(2) /\ ~Ok(4) /\ ~Ok(8) /\ ~Ok(16) /\ ~Ok(32) /\ ~Ok(64) /\ ~Ok(128)
    <3> HIDE DEF Ok
    <3> QED
      BY DEF BeatSizes
  <2> QED
    BY <2>1, <2>2, PowersOfTwo DEF BeatSizes
<1>2. BeatAt(addr) = CHOOSE b \in BeatSizes : Ok(b)
  BY PowersOfTwo DEF BeatAt
<1> HIDE DEF Ok
<1>3. BeatAt(addr) \in BeatSizes /\ Ok(BeatAt(addr))
  BY <1>1, <1>2
<1> QED
  BY <1>3 DEF Ok

\* Rounding up to whole beats stays within room of whole beats.
LEMMA WholeBeats ==
  ASSUME NEW beat \in BeatSizes, NEW cap \in Nat \ {0}, NEW room \in Nat, room % beat = 0, cap <= room
  PROVE  LET beats == (cap + beat - 1) \div beat IN
         beats \in Nat \ {0} /\ cap <= beats * beat /\ beats * beat <= room
<1>1. CASE beat = 1
  BY <1>1
<1>2. CASE beat = 2
  BY <1>2
<1>3. CASE beat = 4
  BY <1>3
<1>4. CASE beat = 8
  BY <1>4
<1>5. CASE beat = 16
  BY <1>5
<1>6. CASE beat = 32
  BY <1>6
<1>7. CASE beat = 64
  BY <1>7
<1>8. CASE beat = 128
  BY <1>8
<1> QED
  BY <1>1, <1>2, <1>3, <1>4, <1>5, <1>6, <1>7, <1>8 DEF BeatSizes

\* A burst of calculate_bursts stays in its page, whatever the address and the bytes left.
LEMMA BurstIsLegal ==
  ASSUME NEW addr \in Nat, NEW n \in Nat \ {0}
  PROVE  LET b == Burst(addr, n) IN
         /\ b \in [addr : Nat, beats : Nat, bytes : Nat, beat : Nat]
         /\ Legal(b) /\ b.addr = addr /\ b.bytes \in 1 .. n
<1> DEFINE beat == BeatAt(addr)
           room == PageBytes - (addr % PageBytes)
           cap == Least(Least(n, MaxBeats * BytesPerBeat), room)
           beats == (cap + beat - 1) \div beat
<1>1. beat \in BeatSizes /\ addr % beat = 0
  BY BeatFits
<1>2. PICK p \in Nat : p = addr % 4096
  OBVIOUS
<1>3. p < 4096 /\ p % beat = 0
  BY <1>1, <1>2 DEF BeatSizes
<1>4. room = 4096 - p /\ room \in 1 .. 4096 /\ room % beat = 0
  BY <1>1, <1>2, <1>3 DEF BeatSizes, PageBytes
<1>5. BytesPerBeat \in Nat \ {0} /\ MaxBeats \in Nat \ {0}
  BY PowersOfTwo, TransferAssumption DEF BeatSizes
<1>6. MaxBeats * BytesPerBeat \in Nat \ {0}
  BY <1>5
<1> HIDE DEF room, beat
<1>7. cap \in Nat \ {0} /\ cap <= n /\ cap <= room
  BY <1>4, <1>6 DEF Least
<1> HIDE DEF cap
<1>8. beats \in Nat \ {0} /\ cap <= beats * beat /\ beats * beat <= room
  BY <1>1, <1>4, <1>7, WholeBeats
<1>9. beat \in Nat \ {0} /\ 4096 % beat = 0
  BY <1>1 DEF BeatSizes
<1>10. Burst(addr, n) = IF beats > MaxBeats
         THEN [addr |-> addr, beats |-> MaxBeats, bytes |-> MaxBeats * beat, beat |-> beat]
         ELSE [addr |-> addr, beats |-> beats, bytes |-> cap, beat |-> beat]
  BY DEF Burst, beat, cap, room
<1> HIDE DEF beats
<1>11. CASE beats > MaxBeats
  <2>1. MaxBeats * beat \in Nat \ {0} /\ MaxBeats * beat < cap /\ MaxBeats * beat <= room
    <3>1. MaxBeats <= beats - 1
      BY <1>5, <1>8, <1>11
    <3>2. MaxBeats * beat \in Nat \ {0} /\ MaxBeats * beat <= (beats - 1) * beat
      BY <1>1, <1>5, <1>8, <3>1 DEF BeatSizes
    <3>3. (beats - 1) * beat < cap
      BY <1>1, <1>7 DEF BeatSizes, beats
    <3> QED
      BY <1>4, <1>7, <1>8, <1>9, <3>2, <3>3
  <2> QED
    BY <1>1, <1>2, <1>4, <1>5, <1>7, <1>9, <1>10, <1>11, <2>1 DEF Legal, PageBytes
<1>12. CASE ~(beats > MaxBeats)
  <2>1. beats \in 1 .. MaxBeats
    BY <1>5, <1>8, <1>12
  <2>2. beats * beat \in Nat
    BY <1>8, <1>9
  <2> QED
    BY <1>1, <1>2, <1>4, <1>5, <1>7, <1>8, <1>9, <1>10, <1>12, <2>1, <2>2 DEF Legal, PageBytes
<1> QED
  BY <1>11, <1>12

BurstRec == [addr : Nat, beats : Nat, bytes : Nat, beat : Nat]

LEMMA Prepend ==
  ASSUME NEW S, NEW s \in Seq(S), NEW b \in S
  PROVE  /\ <<b>> \o s \in Seq(S) /\ Len(<<b>> \o s) = Len(s) + 1 /\ (<<b>> \o s)[1] = b
         /\ Len(s) \in Nat
         /\ \A i \in 1 .. Len(s) : (<<b>> \o s)[i + 1] = s[i]
<1>1. <<b>> \in Seq(S) /\ Len(<<b>>) = 1 /\ <<b>>[1] = b
  OBVIOUS
<1>2. Len(s) \in Nat
  OBVIOUS
<1>3. <<b>> \o s \in Seq(S) /\ Len(<<b>> \o s) = Len(<<b>>) + Len(s)
      /\ \A i \in 1 .. Len(<<b>>) + Len(s) :
           (<<b>> \o s)[i] = IF i <= Len(<<b>>) THEN <<b>>[i] ELSE s[i - Len(<<b>>)]
  BY <1>1, ConcatProperties
<1> QED
  BY <1>1, <1>2, <1>3

\* A burst before contiguous ones that begin where it ends.
LEMMA PrependContiguous ==
  ASSUME NEW s \in Seq(BurstRec), NEW b \in BurstRec, NEW end,
         IF s = <<>> THEN b.addr + b.bytes = end ELSE Contiguous(s, b.addr + b.bytes, end)
  PROVE  Contiguous(<<b>> \o s, b.addr, end)
<1> DEFINE q == <<b>> \o s
<1>1. /\ q \in Seq(BurstRec) /\ Len(q) = Len(s) + 1 /\ q[1] = b /\ Len(s) \in Nat
      /\ \A i \in 1 .. Len(s) : q[i + 1] = s[i]
  BY Prepend
<1> HIDE DEF q
<1>2. q # <<>> /\ DOMAIN q = 1 .. Len(s) + 1 /\ DOMAIN s = 1 .. Len(s)
  BY <1>1
<1>3. s # <<>> <=> Len(s) > 0
  BY <1>1
<1>4. ASSUME NEW i \in DOMAIN q
      PROVE  q[i].addr + q[i].bytes = IF i = Len(q) THEN end ELSE q[i + 1].addr
  <2>1. CASE i = 1
    <3>1. CASE s = <<>>
      BY <1>1, <1>2, <1>3, <2>1, <3>1
    <3>2. CASE s # <<>>
      <4>1. Len(s) > 0 /\ s[1].addr = b.addr + b.bytes
        BY <1>3, <3>2 DEF Contiguous
      <4> QED
        BY <1>1, <2>1, <4>1
    <3> QED
      BY <3>1, <3>2
  <2>2. CASE i # 1
    <3>1. i - 1 \in DOMAIN s /\ s # <<>>
      BY <1>1, <1>2, <1>3, <2>2
    <3>2. s[i - 1].addr + s[i - 1].bytes = IF i - 1 = Len(s) THEN end ELSE s[(i - 1) + 1].addr
      BY <3>1 DEF Contiguous
    <3>3. i \in Nat /\ q[i] = s[i - 1] /\ (i - 1) + 1 = i
      BY <1>1, <1>2, <3>1
    <3>4. i # Len(q) => q[i + 1] = s[i]
      BY <1>1, <1>2
    <3> QED
      BY <1>1, <3>2, <3>3, <3>4
  <2> QED
    BY <2>1, <2>2
<1>5. Contiguous(q, b.addr, end)
  BY <1>1, <1>2, <1>4 DEF Contiguous
<1> QED
  BY <1>5 DEF q

\* calculate_bursts ends for every address and size, and its bursts cover the transfer from
\* its first byte to its last.
THEOREM PlanCoversTransfer ==
  ASSUME NEW t, t.addr \in Nat, t.size \in Nat \ {0}
  PROVE  /\ BurstPlan(t) \in Seq(BurstRec)
         /\ Contiguous(BurstPlan(t), t.addr, t.addr + t.size)
         /\ \A i \in DOMAIN BurstPlan(t) : Legal(BurstPlan(t)[i])
<1> DEFINE z == t.size
           B(n) == Burst(t.addr + z - n, n)
           Rest(n) == n - Least(n, B(n).bytes)
           Body(f) == [n \in 0 .. z |-> IF n = 0 THEN <<>> ELSE <<B(n)>> \o f[Rest(n)]]
<1>1. ASSUME NEW n \in 1 .. z
      PROVE  /\ B(n) \in BurstRec /\ Legal(B(n)) /\ B(n).addr = t.addr + z - n
             /\ Rest(n) \in 0 .. n - 1 /\ B(n).addr + B(n).bytes = t.addr + z - Rest(n)
  <2>1. t.addr + z - n \in Nat /\ n \in Nat \ {0}
    OBVIOUS
  <2>2. /\ B(n) \in BurstRec /\ Legal(B(n)) /\ B(n).addr = t.addr + z - n
        /\ B(n).bytes \in 1 .. n
    BY <2>1, BurstIsLegal DEF BurstRec
  <2> HIDE DEF B
  <2>3. Least(n, B(n).bytes) = B(n).bytes
    BY <2>2 DEF Least
  <2> QED
    BY <2>1, <2>2, <2>3
<1> HIDE DEF B, Rest
<1> DEFINE Upto(k) == \E f \in [0 .. k -> Seq(BurstRec)] :
                        \A n \in 0 .. k : f[n] = IF n = 0 THEN <<>> ELSE <<B(n)>> \o f[Rest(n)]
           Bad == {k \in 0 .. z : ~Upto(k)}
<1>2. Bad = {}
  <2> SUFFICES ASSUME Bad # {} PROVE FALSE
    OBVIOUS
  <2>1. PICK k \in Bad : \A j \in Bad : k <= j
    <3> HIDE DEF Upto
    <3>1. Bad \subseteq Nat
      OBVIOUS
    <3> HIDE DEF Bad
    <3> QED
      BY <3>1, LeastNatural
  <2>2. k \in 0 .. z /\ ~Upto(k)
    <3> HIDE DEF Upto
    <3> QED
      BY <2>1
  <2>3. Upto(0)
    <3> DEFINE f == [n \in 0 .. 0 |-> <<>>]
    <3>1. f \in [0 .. 0 -> Seq(BurstRec)] /\ \A n \in 0 .. 0 : n = 0 /\ f[n] = <<>>
      OBVIOUS
    <3> QED
      BY <3>1
  <2>4. k # 0
    <3> HIDE DEF Upto
    <3> QED
      BY <2>2, <2>3
  <2>5. k - 1 \in 0 .. z /\ k \in 1 .. z
    BY <2>2, <2>4
  <2>6. Upto(k - 1)
    <3> HIDE DEF Upto
    <3> QED
      BY <2>1, <2>5
  <2>7. PICK f \in [0 .. k - 1 -> Seq(BurstRec)] :
          \A n \in 0 .. k - 1 : f[n] = IF n = 0 THEN <<>> ELSE <<B(n)>> \o f[Rest(n)]
    BY <2>6
  <2>8. Rest(k) \in 0 .. k - 1 /\ B(k) \in BurstRec
    BY <1>1, <2>5
  <2>9. <<B(k)>> \o f[Rest(k)] \in Seq(BurstRec)
    <3>1. f[Rest(k)] \in Seq(BurstRec)
      BY <2>7, <2>8
    <3> QED
      BY <2>8, <3>1, Prepend
  <2> DEFINE g == [n \in 0 .. k |-> IF n = k THEN <<B(k)>> \o f[Rest(k)] ELSE f[n]]
  <2>10. \A n \in 0 .. k : n = k \/ n \in 0 .. k - 1
    BY <2>5
  <2>11. g \in [0 .. k -> Seq(BurstRec)]
    BY <2>7, <2>9, <2>10
  <2>12. g[k] = <<B(k)>> \o f[Rest(k)] /\ \A n \in 0 .. k - 1 : g[n] = f[n]
    BY <2>5
  <2> HIDE DEF g
  <2>13. ASSUME NEW n \in 0 .. k PROVE g[n] = IF n = 0 THEN <<>> ELSE <<B(n)>> \o g[Rest(n)]
    <3>1. CASE n = k
      <4>1. g[Rest(k)] = f[Rest(k)]
        BY <2>8, <2>12
      <4> QED
        BY <2>4, <2>12, <3>1, <4>1
    <3>2. CASE n # k /\ n # 0
      <4>1. n \in 0 .. k - 1 /\ n \in 1 .. z
        BY <2>5, <3>2
      <4>2. Rest(n) \in 0 .. k - 1
        BY <1>1, <2>5, <4>1
      <4> QED
        BY <2>7, <2>12, <3>2, <4>1, <4>2
    <3>3. CASE n # k /\ n = 0
      <4>1. n \in 0 .. k - 1
        BY <2>5, <3>3
      <4> QED
        BY <2>7, <2>12, <3>3, <4>1
    <3> QED
      BY <3>1, <3>2, <3>3
  <2>14. Upto(k)
    BY <2>11, <2>13
  <2> QED
    BY <2>2, <2>14
<1>3. Upto(z)
  <2>1. z \in 0 .. z
    OBVIOUS
  <2> HIDE DEF Upto
  <2> QED
    BY <1>2, <2>1
<1> DEFINE after == CHOOSE f : f = Body(f)
<1>4. after = Body(after)
  <2>1. PICK f \in [0 .. z -> Seq(BurstRec)] :
          \A n \in 0 .. z : f[n] = IF n = 0 THEN <<>> ELSE <<B(n)>> \o f[Rest(n)]
    BY <1>3
  <2>2. f = Body(f)
    BY <2>1
  <2> HIDE DEF Body
  <2> QED
    BY <2>2
<1>5. BurstPlan(t) = after[z]
  BY DEF BurstPlan, B, Rest
<1>6. \A n \in 0 .. z : after[n] = IF n = 0 THEN <<>> ELSE <<B(n)>> \o after[Rest(n)]
  <2> DEFINE h == after
  <2>1. h = Body(h)
    BY <1>4
  <2> HIDE DEF h
  <2>2. \A n \in 0 .. z : h[n] = IF n = 0 THEN <<>> ELSE <<B(n)>> \o h[Rest(n)]
    BY <2>1
  <2> QED
    BY <2>2 DEF h
<1> HIDE DEF after
<1> DEFINE Covered(n) == /\ after[n] \in Seq(BurstRec)
                         /\ n # 0 => Contiguous(after[n], t.addr + z - n, t.addr + z)
                         /\ n = 0 => after[n] = <<>>
                         /\ \A i \in DOMAIN after[n] : Legal(after[n][i])
           Left == {n \in 0 .. z : ~Covered(n)}
<1>7. Left = {}
  <2> SUFFICES ASSUME Left # {} PROVE FALSE
    OBVIOUS
  <2>1. PICK n \in Left : \A j \in Left : n <= j
    <3> HIDE DEF Covered
    <3>1. Left \subseteq Nat
      OBVIOUS
    <3> HIDE DEF Left
    <3> QED
      BY <3>1, LeastNatural
  <2>2. n \in 0 .. z /\ ~Covered(n) /\ \A j \in 0 .. n - 1 : Covered(j)
    <3> HIDE DEF Covered
    <3>1. n \in 0 .. z /\ ~Covered(n)
      BY <2>1
    <3>2. ASSUME NEW j \in 0 .. n - 1 PROVE Covered(j)
      <4>1. j \in 0 .. z /\ ~(n <= j)
        BY <3>1
      <4> QED
        BY <2>1, <4>1
    <3> QED
      BY <3>1, <3>2
  <2>3. n # 0
    <3>1. 0 \in 0 .. z
      OBVIOUS
    <3>2. after[0] = <<>>
      BY <1>6, <3>1
    <3>3. Covered(0)
      BY <3>2
    <3> HIDE DEF Covered
    <3> QED
      BY <2>2, <3>3
  <2>4. n \in 1 .. z
    BY <2>2, <2>3
  <2> DEFINE k == Rest(n)  s == after[k]  b == B(n)
  <2>5. /\ b \in BurstRec /\ Legal(b) /\ b.addr = t.addr + z - n /\ k \in 0 .. n - 1
        /\ b.addr + b.bytes = t.addr + z - k
    BY <1>1, <2>4
  <2>6. after[n] = <<b>> \o s
    BY <1>6, <2>2, <2>3
  <2>7. Covered(k)
    <3> HIDE DEF Covered
    <3> QED
      BY <2>2, <2>5
  <2> HIDE DEF k, b
  <2>8. /\ s \in Seq(BurstRec)
        /\ k # 0 => Contiguous(s, t.addr + z - k, t.addr + z)
        /\ k = 0 => s = <<>>
        /\ \A i \in DOMAIN s : Legal(s[i])
    BY <2>7
  <2> HIDE DEF s
  <2>9. k # 0 => s # <<>>
    BY <2>8 DEF Contiguous
  <2>10. IF s = <<>> THEN b.addr + b.bytes = t.addr + z ELSE Contiguous(s, b.addr + b.bytes, t.addr + z)
    BY <2>5, <2>8, <2>9
  <2>11. Contiguous(<<b>> \o s, b.addr, t.addr + z)
    BY <2>5, <2>8, <2>10, PrependContiguous
  <2>12. /\ <<b>> \o s \in Seq(BurstRec) /\ Len(<<b>> \o s) = Len(s) + 1 /\ (<<b>> \o s)[1] = b
         /\ Len(s) \in Nat /\ \A i \in 1 .. Len(s) : (<<b>> \o s)[i + 1] = s[i]
    BY <2>5, <2>8, Prepend
  <2>13. ASSUME NEW i \in DOMAIN (<<b>> \o s) PROVE Legal((<<b>> \o s)[i])
    <3>1. i \in 1 .. Len(s) + 1
      BY <2>12
    <3>2. CASE i = 1
      BY <2>5, <2>12, <3>2
    <3>3. CASE i # 1
      <4>1. i - 1 \in 1 .. Len(s) /\ (i - 1) + 1 = i
        BY <2>12, <3>1, <3>3
      <4>2. (<<b>> \o s)[i] = s[i - 1]
        BY <2>12, <4>1
      <4>3. i - 1 \in DOMAIN s
        BY <2>8, <4>1
      <4> QED
        BY <2>8, <4>2, <4>3
    <3> QED
      BY <3>2, <3>3
  <2>14. Covered(n)
    BY <2>3, <2>5, <2>6, <2>11, <2>12, <2>13
  <2> HIDE DEF Covered
  <2> QED
    BY <2>2, <2>14
<1>8. Covered(z)
  <2>1. z \in 0 .. z
    OBVIOUS
  <2> HIDE DEF Covered
  <2> QED
    BY <1>7, <2>1
<1>9. t.addr + z - z = t.addr
  OBVIOUS
<1> QED
  BY <1>5, <1>8, <1>9

----------------------------------------------------------------------------
(* The bursts of a master among the requests of all *)

Req == [master : Masters, burst : BurstRec, wait : Nat]

\* u lists, for every n up to k, the bursts of m among the first n requests of q.
Sifts(u, q, m, k) ==
  /\ u \in [0 .. k -> Seq(BurstRec)]
  /\ u[0] = <<>>
  /\ \A n \in 1 .. k : u[n] = IF q[n].master = m THEN Append(u[n - 1], q[n].burst) ELSE u[n - 1]

LEMMA SiftsAlike ==
  ASSUME NEW u, NEW v, NEW q, NEW r, NEW m, NEW k \in Nat, NEW kv \in Nat, k <= kv,
         Sifts(u, q, m, k), Sifts(v, r, m, kv),
         \A i \in 1 .. k : q[i].master = r[i].master /\ q[i].burst = r[i].burst
  PROVE  \A n \in 0 .. k : u[n] = v[n]
<1> DEFINE Bad == {n \in 0 .. k : u[n] # v[n]}
<1> SUFFICES ASSUME Bad # {} PROVE FALSE
  OBVIOUS
<1>1. PICK n \in Bad : \A j \in Bad : n <= j
  <2>1. Bad \subseteq Nat
    OBVIOUS
  <2> HIDE DEF Bad
  <2> QED
    BY <2>1, LeastNatural
<1>2. n \in 0 .. k /\ u[n] # v[n]
  OBVIOUS
<1>3. n # 0
  BY <1>2 DEF Sifts
<1>4. n \in 1 .. k /\ n \in 1 .. kv /\ n - 1 \in 0 .. k /\ ~(n <= n - 1)
  BY <1>2, <1>3
<1>5. u[n - 1] = v[n - 1]
  BY <1>1, <1>4
<1>6. /\ u[n] = IF q[n].master = m THEN Append(u[n - 1], q[n].burst) ELSE u[n - 1]
      /\ v[n] = IF r[n].master = m THEN Append(v[n - 1], r[n].burst) ELSE v[n - 1]
  BY <1>4 DEF Sifts
<1>7. q[n].master = r[n].master /\ q[n].burst = r[n].burst
  BY <1>4
<1> QED
  BY <1>2, <1>5, <1>6, <1>7

LEMMA SiftExists ==
  ASSUME NEW q \in Seq(Req), NEW m
  PROVE  \E u : Sifts(u, q, m, Len(q)) /\ BurstsOf(q, m) = u[Len(q)]
<1> DEFINE z == Len(q)
           Upto(k) == \E u : Sifts(u, q, m, k)
           Bad == {k \in 0 .. z : ~Upto(k)}
<1>0. z \in Nat /\ \A i \in 1 .. z : q[i] \in Req
  BY ElementOfSeq
<1> HIDE DEF z
<1>1. Bad = {}
  <2> SUFFICES ASSUME Bad # {} PROVE FALSE
    OBVIOUS
  <2>1. PICK k \in Bad : \A j \in Bad : k <= j
    <3> HIDE DEF Upto
    <3>1. Bad \subseteq Nat
      OBVIOUS
    <3> HIDE DEF Bad
    <3> QED
      BY <3>1, LeastNatural
  <2>2. k \in 0 .. z /\ ~Upto(k)
    <3> HIDE DEF Upto
    <3> QED
      BY <2>1
  <2>3. Upto(0)
    <3> DEFINE u == [n \in 0 .. 0 |-> <<>>]
    <3>1. Sifts(u, q, m, 0)
      BY DEF Sifts
    <3> QED
      BY <3>1
  <2>4. k # 0
    <3> HIDE DEF Upto
    <3> QED
      BY <2>2, <2>3
  <2>5. k - 1 \in 0 .. z /\ k \in 1 .. z /\ k - 1 \in Nat /\ ~(k <= k - 1)
    BY <1>0, <2>2, <2>4
  <2>6. Upto(k - 1)
    <3> HIDE DEF Upto
    <3> QED
      BY <2>1, <2>5
  <2>7. PICK u : Sifts(u, q, m, k - 1)
    BY <2>6
  <2>8. /\ u \in [0 .. k - 1 -> Seq(BurstRec)] /\ u[0] = <<>>
        /\ \A n \in 1 .. k - 1 : u[n] = IF q[n].master = m THEN Append(u[n - 1], q[n].burst) ELSE u[n - 1]
    BY <2>7 DEF Sifts
  <2> DEFINE e == IF q[k].master = m THEN Append(u[k - 1], q[k].burst) ELSE u[k - 1]
             w == [n \in 0 .. k |-> IF n = k THEN e ELSE u[n]]
  <2>9. e \in Seq(BurstRec)
    <3>1. q[k].burst \in BurstRec
      BY <1>0, <2>5 DEF Req
    <3>2. u[k - 1] \in Seq(BurstRec)
      BY <2>5, <2>8
    <3> QED
      BY <3>1, <3>2
  <2>10. w[k] = e /\ \A n \in 0 .. k - 1 : w[n] = u[n]
    BY <2>5
  <2>11. w \in [0 .. k -> Seq(BurstRec)]
    <3> HIDE DEF e
    <3>1. \A n \in 0 .. k : n = k \/ n \in 0 .. k - 1
      BY <2>5
    <3> QED
      BY <2>8, <2>9, <3>1
  <2> HIDE DEF w
  <2>12. ASSUME NEW n \in 1 .. k
         PROVE  w[n] = IF q[n].master = m THEN Append(w[n - 1], q[n].burst) ELSE w[n - 1]
    <3>1. n - 1 \in 0 .. k - 1 /\ w[n - 1] = u[n - 1]
      BY <2>5, <2>10
    <3>2. CASE n = k
      BY <2>10, <3>1, <3>2
    <3>3. CASE n # k
      <4>1. n \in 1 .. k - 1 /\ n \in 0 .. k - 1
        BY <2>5, <3>3
      <4> QED
        BY <2>8, <2>10, <3>1, <4>1
    <3> QED
      BY <3>2, <3>3
  <2>13. w[0] = <<>>
    BY <2>5, <2>8, <2>10
  <2>14. Sifts(w, q, m, k)
    BY <2>11, <2>12, <2>13 DEF Sifts
  <2> QED
    BY <2>2, <2>14
<1>2. PICK u : Sifts(u, q, m, z)
  <2>1. z \in 0 .. z
    BY <1>0
  <2> HIDE DEF Upto
  <2>2. Upto(z)
    BY <1>1, <2>1
  <2> QED
    BY <2>2 DEF Upto
<1> DEFINE Body(f) == [n \in 0 .. z |-> IF n = 0 THEN <<>>
              ELSE IF q[n].master = m THEN Append(f[n - 1], q[n].burst) ELSE f[n - 1]]
           after == CHOOSE f : f = Body(f)
<1>3. BurstsOf(q, m) = after[z]
  BY DEF BurstsOf, z
<1>4. after = Body(after)
  <2>1. /\ u \in [0 .. z -> Seq(BurstRec)] /\ u[0] = <<>>
        /\ \A n \in 1 .. z : u[n] = IF q[n].master = m THEN Append(u[n - 1], q[n].burst) ELSE u[n - 1]
    BY <1>2 DEF Sifts
  <2>2. ASSUME NEW n \in 0 .. z PROVE u[n] = Body(u)[n]
    <3>1. CASE n = 0
      BY <2>1, <3>1
    <3>2. CASE n # 0
      <4>1. n \in 1 .. z
        BY <1>0, <3>2
      <4> QED
        BY <2>1, <3>2, <4>1
    <3> QED
      BY <3>1, <3>2
  <2>3. u = [n \in 0 .. z |-> u[n]] /\ Body(u) = [n \in 0 .. z |-> Body(u)[n]]
    BY <2>1
  <2> HIDE DEF Body
  <2>4. u = Body(u)
    BY <2>2, <2>3
  <2> QED
    BY <2>4
<1>5. \A n \in 0 .. z : after[n] = u[n]
  <2> DEFINE h == after
  <2>1. h = Body(h)
    BY <1>4
  <2> HIDE DEF h
  <2>2. h[0] = <<>> /\ \A n \in 1 .. z : h[n] = IF q[n].master = m THEN Append(h[n - 1], q[n].burst) ELSE h[n - 1]
    <3>1. \A n \in 0 .. z : h[n] = IF n = 0 THEN <<>>
                                   ELSE IF q[n].master = m THEN Append(h[n - 1], q[n].burst) ELSE h[n - 1]
      BY <2>1
    <3>2. 0 \in 0 .. z /\ \A n \in 1 .. z : n \in 0 .. z /\ n # 0
      BY <1>0
    <3> QED
      BY <3>1, <3>2
  <2> DEFINE Differ == {n \in 0 .. z : h[n] # u[n]}
  <2>3. Differ = {}
    <3> SUFFICES ASSUME Differ # {} PROVE FALSE
      OBVIOUS
    <3>1. PICK n \in Differ : \A j \in Differ : n <= j
      <4>1. Differ \subseteq Nat
        BY <1>0
      <4> HIDE DEF Differ
      <4> QED
        BY <4>1, LeastNatural
    <3>2. n \in 0 .. z /\ h[n] # u[n]
      OBVIOUS
    <3>3. n # 0
      BY <1>2, <2>2, <3>2 DEF Sifts
    <3>4. n \in 1 .. z /\ n - 1 \in 0 .. z /\ ~(n <= n - 1)
      BY <1>0, <3>2, <3>3
    <3>5. h[n - 1] = u[n - 1]
      BY <3>1, <3>4
    <3>6. u[n] = IF q[n].master = m THEN Append(u[n - 1], q[n].burst) ELSE u[n - 1]
      BY <1>2, <3>4 DEF Sifts
    <3> QED
      BY <2>2, <3>2, <3>4, <3>5, <3>6
  <2> QED
    BY <2>3, SMTT(30) DEF h
<1> HIDE DEF after
<1>6. BurstsOf(q, m) = u[z]
  BY <1>0, <1>3, <1>5
<1> QED
  BY <1>2, <1>6 DEF z

LEMMA BurstsOfType ==
  ASSUME NEW q \in Seq(Req), NEW m
  PROVE  BurstsOf(q, m) \in Seq(BurstRec)
<1>1. PICK u : Sifts(u, q, m, Len(q)) /\ BurstsOf(q, m) = u[Len(q)]
  BY SiftExists
<1>2. Len(q) \in 0 .. Len(q)
  OBVIOUS
<1> QED
  BY <1>1, <1>2 DEF Sifts

\* Only masters and bursts count, not how long a request still takes.
LEMMA BurstsOfAlike ==
  ASSUME NEW q \in Seq(Req), NEW r \in Seq(Req), NEW m, Len(q) = Len(r),
         \A i \in 1 .. Len(q) : q[i].master = r[i].master /\ q[i].burst = r[i].burst
  PROVE  BurstsOf(q, m) = BurstsOf(r, m)
<1>1. PICK u : Sifts(u, q, m, Len(q)) /\ BurstsOf(q, m) = u[Len(q)]
  BY SiftExists
<1>2. PICK v : Sifts(v, r, m, Len(r)) /\ BurstsOf(r, m) = v[Len(r)]
  BY SiftExists
<1>3. Len(q) \in Nat /\ Len(r) \in Nat /\ Len(q) <= Len(r) /\ Len(q) \in 0 .. Len(q)
  OBVIOUS
<1>4. \A i \in 1 .. Len(q) : q[i].master = r[i].master /\ q[i].burst = r[i].burst
  OBVIOUS
<1>5. PICK k \in Nat : k = Len(q) /\ k = Len(r) /\ k <= k /\ k \in 0 .. k
  BY <1>3
<1>6. Sifts(u, q, m, k) /\ Sifts(v, r, m, k) /\ \A i \in 1 .. k : q[i].master = r[i].master /\ q[i].burst = r[i].burst
  BY <1>1, <1>2, <1>4, <1>5
<1>7. \A n \in 0 .. k : u[n] = v[n]
  BY <1>5, <1>6, SiftsAlike
<1> QED
  BY <1>1, <1>2, <1>5, <1>7

LEMMA BurstsOfAppend ==
  ASSUME NEW q \in Seq(Req), NEW r \in Req, NEW m
  PROVE  BurstsOf(Append(q, r), m) = IF r.master = m THEN Append(BurstsOf(q, m), r.burst) ELSE BurstsOf(q, m)
<1> DEFINE p == Append(q, r)
<1>1. p \in Seq(Req) /\ Len(p) = Len(q) + 1 /\ p[Len(q) + 1] = r /\ \A i \in 1 .. Len(q) : p[i] = q[i]
  OBVIOUS
<1> HIDE DEF p
<1>2. PICK u : Sifts(u, q, m, Len(q)) /\ BurstsOf(q, m) = u[Len(q)]
  BY SiftExists
<1>3. PICK v : Sifts(v, p, m, Len(p)) /\ BurstsOf(p, m) = v[Len(p)]
  BY <1>1, SiftExists
<1>4. Len(q) \in Nat /\ Len(p) \in Nat /\ Len(q) <= Len(p) /\ Len(q) \in 0 .. Len(q) /\ Len(p) \in 1 .. Len(p)
      /\ Len(p) - 1 = Len(q)
  BY <1>1
<1>5. \A i \in 1 .. Len(q) : q[i].master = p[i].master /\ q[i].burst = p[i].burst
  BY <1>1
<1>6. u[Len(q)] = v[Len(q)]
  BY <1>2, <1>3, <1>4, <1>5, SiftsAlike
<1>7. v[Len(p)] = IF p[Len(p)].master = m THEN Append(v[Len(p) - 1], p[Len(p)].burst) ELSE v[Len(p) - 1]
  BY <1>3, <1>4 DEF Sifts
<1>8. p[Len(p)] = r
  BY <1>1
<1> QED
  BY <1>2, <1>3, <1>4, <1>6, <1>7, <1>8 DEF p

LEMMA PrependAppend ==
  ASSUME NEW b \in BurstRec, NEW s \in Seq(BurstRec), NEW e \in BurstRec
  PROVE  Append(<<b>> \o s, e) = <<b>> \o Append(s, e)
<1>1. /\ <<b>> \in Seq(BurstRec) /\ <<e>> \in Seq(BurstRec) /\ <<b>> \o s \in Seq(BurstRec)
      /\ Append(<<b>> \o s, e) = (<<b>> \o s) \o <<e>> /\ Append(s, e) = s \o <<e>>
  BY Prepend, AppendIsConcat
<1> QED
  BY <1>1, ConcatAssociative

LEMMA BurstsOfTail ==
  ASSUME NEW q \in Seq(Req), q # <<>>, NEW m
  PROVE  BurstsOf(q, m) = IF Head(q).master = m THEN <<Head(q).burst>> \o BurstsOf(Tail(q), m)
                          ELSE BurstsOf(Tail(q), m)
<1> DEFINE t == Tail(q)
<1>1. /\ t \in Seq(Req) /\ Len(t) = Len(q) - 1 /\ Len(q) \in Nat \ {0} /\ Head(q) = q[1] /\ q[1] \in Req
      /\ \A i \in 1 .. Len(t) : t[i] = q[i + 1]
  OBVIOUS
<1> HIDE DEF t
<1>2. PICK u : Sifts(u, q, m, Len(q)) /\ BurstsOf(q, m) = u[Len(q)]
  BY SiftExists
<1>3. PICK v : Sifts(v, t, m, Len(t)) /\ BurstsOf(t, m) = v[Len(t)]
  BY <1>1, SiftExists
<1> DEFINE First(s) == IF q[1].master = m THEN <<q[1].burst>> \o s ELSE s
           Bad == {n \in 0 .. Len(t) : u[n + 1] # First(v[n])}
<1>4. q[1].burst \in BurstRec
  BY <1>1 DEF Req
<1>5. Bad = {}
  <2> SUFFICES ASSUME Bad # {} PROVE FALSE
    OBVIOUS
  <2>1. PICK n \in Bad : \A j \in Bad : n <= j
    <3>1. Bad \subseteq Nat
      OBVIOUS
    <3> HIDE DEF Bad
    <3> QED
      BY <3>1, LeastNatural
  <2>2. n \in 0 .. Len(t) /\ u[n + 1] # First(v[n])
    OBVIOUS
  <2>3. n # 0
    <3> SUFFICES ASSUME n = 0 PROVE FALSE
      OBVIOUS
    <3>1. u[0] = <<>> /\ v[0] = <<>> /\ 1 \in 1 .. Len(q)
      BY <1>1, <1>2, <1>3 DEF Sifts
    <3>2. u[1] = IF q[1].master = m THEN Append(<<>>, q[1].burst) ELSE <<>>
      <4>1. u[1] = IF q[1].master = m THEN Append(u[1 - 1], q[1].burst) ELSE u[1 - 1]
        BY <1>2, <3>1 DEF Sifts
      <4>2. 1 - 1 = 0
        OBVIOUS
      <4> QED
        BY <3>1, <4>1, <4>2
    <3>3. Append(<<>>, q[1].burst) = <<q[1].burst>> \o <<>>
      OBVIOUS
    <3> QED
      BY <2>2, <3>1, <3>2, <3>3
  <2>4. /\ n \in 1 .. Len(t) /\ n + 1 \in 1 .. Len(q) /\ n - 1 \in 0 .. Len(t) /\ ~(n <= n - 1)
        /\ (n + 1) - 1 = n /\ (n - 1) + 1 = n
    BY <1>1, <2>2, <2>3
  <2>5. u[n] = First(v[n - 1])
    BY <2>1, <2>4
  <2>6. u[n + 1] = IF q[n + 1].master = m THEN Append(u[n], q[n + 1].burst) ELSE u[n]
    BY <1>2, <2>4 DEF Sifts
  <2>7. v[n] = IF t[n].master = m THEN Append(v[n - 1], t[n].burst) ELSE v[n - 1]
    BY <1>3, <2>4 DEF Sifts
  <2>8. t[n] = q[n + 1] /\ q[n + 1] \in Req
    BY <1>1, <2>4, ElementOfSeq
  <2>9. v[n - 1] \in Seq(BurstRec) /\ q[n + 1].burst \in BurstRec
    BY <1>3, <2>4, <2>8 DEF Sifts, Req
  <2>10. Append(<<q[1].burst>> \o v[n - 1], q[n + 1].burst) = <<q[1].burst>> \o Append(v[n - 1], q[n + 1].burst)
    BY <1>4, <2>9, PrependAppend
  <2> QED
    BY <2>2, <2>5, <2>6, <2>7, <2>8, <2>10
<1>6. Len(t) \in 0 .. Len(t) /\ Len(t) + 1 = Len(q)
  BY <1>1
<1>7. u[Len(q)] = First(v[Len(t)])
  BY <1>5, <1>6
<1> QED
  BY <1>1, <1>2, <1>3, <1>7 DEF t

----------------------------------------------------------------------------
(* A transfer on its way *)

\* What was answered to m, is in flight for m and is still planned covers its transfer.
All(m) == got[m] \o InFlight(m) \o plan[m]
Covered(all, t) ==
  Contiguous(all, t.addr, t.addr + t.size) /\ \A i \in DOMAIN all : Legal(all[i])

Carrying ==
  /\ queue \in Seq(Req) /\ asking \subseteq Masters
  /\ DOMAIN job = Masters /\ plan \in [Masters -> Seq(BurstRec)] /\ got \in [Masters -> Seq(BurstRec)]
  /\ \A m \in asking : plan[m] # <<>>
  /\ \A m \in Masters : IF job[m] = Idle THEN plan[m] = <<>> /\ InFlight(m) = <<>> /\ got[m] = <<>>
                                         ELSE Covered(All(m), job[m])

\* A burst that moves from one list to the next stays where it is in the transfer.
LEMMA BurstMoves ==
  ASSUME NEW g \in Seq(BurstRec), NEW b \in BurstRec, NEW f \in Seq(BurstRec)
  PROVE  Append(g, b) \o f = g \o (<<b>> \o f)
<1>1. <<b>> \in Seq(BurstRec) /\ Append(g, b) = g \o <<b>>
  BY AppendIsConcat
<1> QED
  BY <1>1, ConcatAssociative

LEMMA BurstsAssociate ==
  ASSUME NEW x \in Seq(BurstRec), NEW y \in Seq(BurstRec), NEW z \in Seq(BurstRec)
  PROVE  (x \o y) \o z = x \o (y \o z)
BY ConcatAssociative

LEMMA CarryingInit == Init => Carrying
<1> SUFFICES ASSUME Init PROVE Carrying
  OBVIOUS
<1>1. /\ queue = <<>> /\ asking = {} /\ job = [m \in Masters |-> Idle]
      /\ plan = [m \in Masters |-> <<>>] /\ got = [m \in Masters |-> <<>>]
  BY DEF Init
<1>2. <<>> \in Seq(BurstRec) /\ <<>> \in Seq(Req)
  OBVIOUS
<1>3. ASSUME NEW m PROVE InFlight(m) = <<>>
  <2>1. PICK u : Sifts(u, queue, m, Len(queue)) /\ BurstsOf(queue, m) = u[Len(queue)]
    BY <1>1, <1>2, SiftExists
  <2>2. Len(queue) = 0
    BY <1>1
  <2> QED
    BY <2>1, <2>2 DEF Sifts, InFlight
<1> QED
  BY <1>1, <1>2, <1>3 DEF Carrying

LEMMA SubmitCarries ==
  ASSUME Carrying, NEW k \in Masters, NEW t \in Transfers[k], Submit(k, t)
  PROVE  Carrying'
<1>1. /\ job[k] = Idle /\ job' = [job EXCEPT ![k] = t] /\ plan' = [plan EXCEPT ![k] = BurstPlan(t)]
      /\ asking' = asking /\ queue' = queue /\ got' = got
  BY DEF Submit
<1>2. t.addr \in Nat /\ t.size \in Nat \ {0} /\ t # Idle
  BY TransferAssumption DEF Idle
<1>3. BurstPlan(t) \in Seq(BurstRec) /\ Covered(BurstPlan(t), t) /\ BurstPlan(t) # <<>>
  BY <1>2, PlanCoversTransfer DEF Covered, Contiguous
<1>4. DOMAIN job' = Masters /\ plan' \in [Masters -> Seq(BurstRec)] /\ \A m \in asking' : plan'[m] # <<>>
  BY <1>1, <1>3 DEF Carrying
<1>5. \A m \in Masters : InFlight(m)' = InFlight(m)
  BY <1>1 DEF InFlight
<1>6. All(k)' = BurstPlan(t)
  <2>1. got'[k] = <<>> /\ InFlight(k)' = <<>> /\ plan'[k] = BurstPlan(t)
    BY <1>1, <1>5 DEF Carrying
  <2>2. <<>> \o <<>> = <<>> /\ <<>> \o BurstPlan(t) = BurstPlan(t)
    BY <1>3
  <2> QED
    BY <2>1, <2>2 DEF All
<1>7. job'[k] = t /\ \A m \in Masters \ {k} : job'[m] = job[m] /\ plan'[m] = plan[m] /\ got'[m] = got[m]
  BY <1>1 DEF Carrying
<1>8. \A m \in Masters \ {k} : All(m)' = All(m)
  BY <1>5, <1>7 DEF All
<1>9. ASSUME NEW m \in Masters
      PROVE  IF job'[m] = Idle THEN plan'[m] = <<>> /\ InFlight(m)' = <<>> /\ got'[m] = <<>>
             ELSE Covered(All(m)', job'[m])
  <2>1. CASE m = k
    BY <1>2, <1>3, <1>6, <1>7, <2>1
  <2>2. CASE m # k
    BY <1>5, <1>7, <1>8, <2>2 DEF Carrying
  <2> QED
    BY <2>1, <2>2
<1> QED
  BY <1>1, <1>4, <1>9 DEF Carrying

LEMMA GrantCarries ==
  ASSUME Carrying, Arbitration, GrantOne
  PROVE  Carrying'
<1> DEFINE g == Grant(asking)
<1>1. PICK w : w = g.winner
  OBVIOUS
<1>2. w \in asking
  BY <1>1, GrantGrants DEF GrantOne, Grants
<1>3. PICK b : b = Head(plan[w])
  OBVIOUS
<1>4. PICK r : r = [master |-> w, burst |-> b, wait |-> AccessLatency(b.addr)]
  OBVIOUS
<1>5. /\ asking' = asking \ {w} /\ plan' = [plan EXCEPT ![w] = Tail(plan[w])] /\ queue' = Append(queue, r)
      /\ job' = job /\ got' = got
  BY <1>1, <1>3, <1>4 DEF GrantOne
<1> HIDE DEF g
<1>6. w \in Masters /\ plan[w] \in Seq(BurstRec) /\ plan[w] # <<>> /\ queue \in Seq(Req) /\ got[w] \in Seq(BurstRec)
  BY <1>2 DEF Carrying
<1>7. b \in BurstRec /\ Tail(plan[w]) \in Seq(BurstRec) /\ <<b>> \o Tail(plan[w]) = plan[w]
  BY <1>3, <1>6
<1>8. r \in Req /\ r.master = w /\ r.burst = b
  <2>1. AccessLatency(b.addr) \in Nat
    BY MemoryAssumption DEF AccessLatency
  <2> QED
    BY <1>4, <1>6, <1>7, <2>1 DEF Req
<1>9. queue' \in Seq(Req) /\ plan' \in [Masters -> Seq(BurstRec)] /\ asking' \subseteq Masters /\ DOMAIN job' = Masters
  BY <1>5, <1>6, <1>7, <1>8 DEF Carrying
<1>10. \A m \in Masters : InFlight(m)' = IF m = w THEN Append(InFlight(m), b) ELSE InFlight(m)
  BY <1>5, <1>6, <1>8, BurstsOfAppend DEF InFlight
<1>11. plan'[w] = Tail(plan[w]) /\ \A m \in Masters \ {w} : plan'[m] = plan[m]
  BY <1>5, <1>6 DEF Carrying
<1>12. All(w)' = All(w)
  <2>1. InFlight(w) \in Seq(BurstRec)
    BY <1>6, BurstsOfType DEF InFlight
  <2>2. Append(InFlight(w), b) \in Seq(BurstRec)
    BY <1>7, <2>1
  <2>3. (got[w] \o Append(InFlight(w), b)) \o Tail(plan[w]) = got[w] \o (Append(InFlight(w), b) \o Tail(plan[w]))
    BY <1>6, <1>7, <2>2, BurstsAssociate
  <2>4. Append(InFlight(w), b) \o Tail(plan[w]) = InFlight(w) \o plan[w]
    <3>1. PICK f \in Seq(BurstRec) : f = InFlight(w)
      BY <2>1
    <3>2. PICK p \in Seq(BurstRec) : p = Tail(plan[w])
      BY <1>7
    <3>3. Append(f, b) \o p = f \o (<<b>> \o p)
      BY <1>7, BurstMoves
    <3> QED
      BY <1>7, <3>1, <3>2, <3>3
  <2>5. got[w] \o (InFlight(w) \o plan[w]) = (got[w] \o InFlight(w)) \o plan[w]
    BY <1>6, <2>1, BurstsAssociate
  <2>6. All(w)' = (got[w] \o Append(InFlight(w), b)) \o Tail(plan[w])
    BY <1>5, <1>6, <1>10, <1>11 DEF All
  <2> QED
    BY <2>3, <2>4, <2>5, <2>6 DEF All
<1>13. \A m \in Masters : All(m)' = All(m)
  BY <1>5, <1>10, <1>11, <1>12 DEF All
<1>14. job[w] # Idle
  BY <1>6 DEF Carrying
<1>15. ASSUME NEW m \in Masters
      PROVE  IF job'[m] = Idle THEN plan'[m] = <<>> /\ InFlight(m)' = <<>> /\ got'[m] = <<>>
             ELSE Covered(All(m)', job'[m])
  <2>1. CASE m = w
    BY <1>5, <1>13, <1>14, <2>1 DEF Carrying
  <2>2. CASE m # w
    BY <1>5, <1>10, <1>11, <1>13, <2>2 DEF Carrying
  <2> QED
    BY <2>1, <2>2
<1>16. \A m \in asking' : plan'[m] # <<>>
  BY <1>5, <1>11 DEF Carrying
<1> QED
  BY <1>5, <1>9, <1>15, <1>16 DEF Carrying

LEMMA AnswerCarries ==
  ASSUME Carrying, Answer
  PROVE  Carrying'
<1>1. PICK r : r = Head(queue)
  OBVIOUS
<1>2. PICK w : w = r.master
  OBVIOUS
<1>3. PICK b : b = r.burst
  OBVIOUS
<1>4. /\ queue # <<>> /\ got' = [got EXCEPT ![w] = Append(got[w], b)] /\ queue' = Tail(queue)
      /\ job' = job /\ plan' = plan /\ asking' = asking
  BY <1>1, <1>2, <1>3 DEF Answer
<1>5. queue \in Seq(Req) /\ r \in Req /\ w \in Masters /\ b \in BurstRec /\ queue' \in Seq(Req)
  <2>1. queue \in Seq(Req)
    BY DEF Carrying
  <2>2. r \in Req /\ queue' \in Seq(Req)
    BY <1>1, <1>4, <2>1
  <2> QED
    BY <1>2, <1>3, <2>1, <2>2 DEF Req
<1>6. plan[w] \in Seq(BurstRec) /\ got[w] \in Seq(BurstRec) /\ Append(got[w], b) \in Seq(BurstRec)
  BY <1>5 DEF Carrying
<1>7. \A m \in Masters : InFlight(m) = IF m = w THEN <<b>> \o InFlight(m)' ELSE InFlight(m)'
  <2>1. \A m \in Masters : BurstsOf(queue, m) = IF r.master = m THEN <<r.burst>> \o BurstsOf(Tail(queue), m)
                                                ELSE BurstsOf(Tail(queue), m)
    BY <1>1, <1>4, <1>5, BurstsOfTail
  <2> QED
    BY <1>2, <1>3, <1>4, <2>1 DEF InFlight
<1>8. InFlight(w)' \in Seq(BurstRec) /\ InFlight(w) = <<b>> \o InFlight(w)' /\ InFlight(w) # <<>>
  <2>1. InFlight(w)' \in Seq(BurstRec)
    BY <1>5, BurstsOfType DEF InFlight
  <2>2. InFlight(w) = <<b>> \o InFlight(w)'
    BY <1>5, <1>7
  <2> QED
    BY <1>5, <2>1, <2>2
<1>9. got'[w] = Append(got[w], b) /\ \A m \in Masters \ {w} : got'[m] = got[m]
  BY <1>4, <1>5 DEF Carrying
<1>10. All(w)' = All(w)
  <2>1. PICK f \in Seq(BurstRec) : f = InFlight(w)'
    BY <1>8
  <2>2. Append(got[w], b) \o f = got[w] \o (<<b>> \o f)
    BY <1>5, <1>6, BurstMoves
  <2> QED
    BY <1>4, <1>8, <1>9, <2>1, <2>2 DEF All
<1>11. \A m \in Masters : All(m)' = All(m)
  BY <1>4, <1>7, <1>9, <1>10 DEF All
<1>12. job[w] # Idle
  BY <1>5, <1>8 DEF Carrying
<1>13. ASSUME NEW m \in Masters
      PROVE  IF job'[m] = Idle THEN plan'[m] = <<>> /\ InFlight(m)' = <<>> /\ got'[m] = <<>>
             ELSE Covered(All(m)', job'[m])
  <2>1. CASE m = w
    BY <1>4, <1>11, <1>12, <2>1 DEF Carrying
  <2>2. CASE m # w
    BY <1>4, <1>7, <1>9, <1>11, <2>2 DEF Carrying
  <2> QED
    BY <2>1, <2>2
<1>14. got' \in [Masters -> Seq(BurstRec)] /\ DOMAIN job' = Masters /\ plan' \in [Masters -> Seq(BurstRec)]
  BY <1>4, <1>5, <1>6 DEF Carrying
<1> QED
  BY <1>4, <1>5, <1>13, <1>14 DEF Carrying

LEMMA TickCarries ==
  ASSUME Carrying, Tick
  PROVE  Carrying'
<1>1. /\ queue' = [i \in DOMAIN queue |-> [queue[i] EXCEPT !.wait = Most(@ - 1, 0)]]
      /\ job' = job /\ plan' = plan /\ asking' = asking /\ got' = got
  BY DEF Tick
<1>2. queue \in Seq(Req) /\ DOMAIN queue = 1 .. Len(queue) /\ Len(queue) \in Nat
  BY DEF Carrying
<1>3. ASSUME NEW i \in 1 .. Len(queue)
      PROVE  queue'[i] \in Req /\ queue'[i].master = queue[i].master /\ queue'[i].burst = queue[i].burst
  <2>1. queue[i] \in Req
    BY <1>2, ElementOfSeq
  <2>2. queue'[i] = [queue[i] EXCEPT !.wait = Most(queue[i].wait - 1, 0)]
    BY <1>1, <1>2
  <2>3. queue[i].wait \in Nat /\ Most(queue[i].wait - 1, 0) \in Nat
    BY <2>1 DEF Req, Most
  <2> QED
    BY <2>1, <2>2, <2>3 DEF Req
<1>4. queue' \in [1 .. Len(queue) -> Req]
  BY <1>1, <1>2, <1>3
<1>5. queue' \in Seq(Req) /\ Len(queue') = Len(queue)
  BY <1>2, <1>4
<1>6. \A m \in Masters : InFlight(m)' = InFlight(m)
  BY <1>2, <1>3, <1>5, BurstsOfAlike DEF InFlight
<1>7. \A m \in Masters : All(m)' = All(m)
  BY <1>1, <1>6 DEF All
<1> QED
  BY <1>1, <1>5, <1>6, <1>7 DEF Carrying

LEMMA CompleteCarries ==
  ASSUME Carrying, NEW k \in Masters, Complete(k)
  PROVE  Carrying'
<1>1. /\ plan[k] = <<>> /\ InFlight(k) = <<>> /\ job' = [job EXCEPT ![k] = Idle] /\ got' = [got EXCEPT ![k] = <<>>]
      /\ plan' = plan /\ asking' = asking /\ queue' = queue
  BY DEF Complete
<1>2. job'[k] = Idle /\ got'[k] = <<>> /\ \A m \in Masters \ {k} : job'[m] = job[m] /\ got'[m] = got[m]
  BY <1>1 DEF Carrying
<1>3. \A m \in Masters : InFlight(m)' = InFlight(m)
  BY <1>1 DEF InFlight
<1>4. \A m \in Masters \ {k} : All(m)' = All(m)
  BY <1>1, <1>2, <1>3 DEF All
<1>5. got' \in [Masters -> Seq(BurstRec)] /\ DOMAIN job' = Masters
  BY <1>1 DEF Carrying
<1>6. ASSUME NEW m \in Masters
      PROVE  IF job'[m] = Idle THEN plan'[m] = <<>> /\ InFlight(m)' = <<>> /\ got'[m] = <<>>
             ELSE Covered(All(m)', job'[m])
  <2>1. CASE m = k
    BY <1>1, <1>2, <1>3, <2>1
  <2>2. CASE m # k
    BY <1>1, <1>2, <1>3, <1>4, <2>2 DEF Carrying
  <2> QED
    BY <2>1, <2>2
<1> QED
  BY <1>1, <1>5, <1>6 DEF Carrying

LEMMA CarryingNext ==
  ASSUME Carrying, Arbitration, [Next]_vars
  PROVE  Carrying'
<1>1. ASSUME UNCHANGED <<queue, asking, job, plan, got>> PROVE Carrying'
  <2>1. \A m : InFlight(m)' = InFlight(m)
    BY <1>1 DEF InFlight
  <2>2. \A m : All(m)' = All(m)
    BY <1>1, <2>1 DEF All
  <2> QED
    BY <1>1, <2>1, <2>2 DEF Carrying
<1>2. ASSUME NEW k \in Masters, Ask(k) PROVE Carrying'
  <2>0. /\ queue' = queue /\ job' = job /\ plan' = plan /\ got' = got
        /\ asking' = asking \cup {k} /\ plan[k] # <<>>
    BY <1>2 DEF Ask
  <2>1. \A m : InFlight(m)' = InFlight(m)
    BY <2>0 DEF InFlight
  <2>2. \A m : All(m)' = All(m)
    BY <2>0, <2>1 DEF All
  <2> QED
    BY <2>0, <2>1, <2>2 DEF Carrying
<1>3. CASE \E k \in Masters : (\E t \in Transfers[k] : Submit(k, t)) \/ Complete(k)
  BY <1>3, SubmitCarries, CompleteCarries
<1>4. CASE GrantOne
  BY <1>4, GrantCarries
<1>5. CASE GrantNone \/ UNCHANGED vars
  BY <1>1, <1>5 DEF GrantNone, vars
<1>6. CASE Tick
  BY <1>6, TickCarries
<1>7. CASE Answer
  BY <1>7, AnswerCarries
<1> QED
  BY <1>2, <1>3, <1>4, <1>5, <1>6, <1>7 DEF Next

\* What is answered, in flight and planned is the transfer, in order (calculate_bursts,
\* ar_thread, r_thread), under every policy and whatever the memory's latencies.
THEOREM BurstsAlwaysCover == Spec => []BurstsCoverTransfer
<1>1. Carrying => BurstsCoverTransfer
  BY DEF Carrying, All, Covered, BurstsCoverTransfer
<1>2. Init => Carrying
  BY CarryingInit
<1>3. Carrying /\ Arbitration /\ [Next]_vars => Carrying'
  BY CarryingNext
<1> QED
  BY <1>1, <1>2, <1>3, TurnsKept, PTL DEF Spec
============================================================================
