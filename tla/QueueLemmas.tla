---------------------------- MODULE QueueLemmas ----------------------------
(***************************************************************************)
(* Facts about finite queues and natural numbers that the proofs about     *)
(* several components need: what Append and Tail do to the entries of a    *)
(* queue, how many different entries two queues have, the least number     *)
(* principle, by which the proofs do induction, and what that gives for    *)
(* the recursive functions the models define; then sums over finite sets   *)
(* (SumFunctionOnSet of the community modules).                            *)
(***************************************************************************)
EXTENDS Integers, Sequences, FiniteSets, FiniteSetsExt,
        SequenceTheorems, FunctionTheorems, FiniteSetTheorems, WellFoundedInduction, TLAPS

LEMMA LeastNatural ==
  ASSUME NEW T, T \subseteq Nat, T # {}
  PROVE  \E x \in T : \A y \in T : x <= y
<1>1. PICK x \in T : \A y \in T : ~ (<<y, x>> \in OpToRel(<, Nat))
  BY NatLessThanWellFounded, WFMin, Zenon
<1>2. \A y \in T : ~(y < x)
  BY <1>1 DEF OpToRel
<1> QED
  BY <1>2

\* What holds at the start and is kept by every step up to z holds up to z.
LEMMA StaysIn ==
  ASSUME NEW S, NEW z \in Nat, NEW h, h[0] \in S,
         \A n \in 1 .. z : h[n - 1] \in S => h[n] \in S
  PROVE  \A n \in 0 .. z : h[n] \in S
<1> DEFINE Out == {n \in 0 .. z : h[n] \notin S}
<1> SUFFICES ASSUME Out # {} PROVE FALSE
  OBVIOUS
<1>1. PICK n \in Out : \A k \in Out : n <= k
  <2>1. Out \subseteq Nat
    OBVIOUS
  <2> HIDE DEF Out
  <2> QED
    BY <2>1, LeastNatural
<1>2. n \in 0 .. z /\ h[n] \notin S
  OBVIOUS
<1>3. n # 0
  BY <1>2
<1>4. n \in 1 .. z /\ n - 1 \in 0 .. z /\ ~(n <= n - 1)
  BY <1>2, <1>3
<1>5. h[n - 1] \in S
  BY <1>1, <1>4
<1> QED
  BY <1>2, <1>4, <1>5

\* Steps from S to S have a function that takes them one after the other.
LEMMA StepsCompose ==
  ASSUME NEW S, NEW b \in S, NEW z \in Nat, NEW g \in [1 .. z -> [S -> S]]
  PROVE  \E u \in [0 .. z -> S] : u[0] = b /\ \A n \in 1 .. z : u[n] = g[n][u[n - 1]]
<1> DEFINE Composes(u, k) ==
             u \in [0 .. k -> S] /\ u[0] = b /\ \A n \in 1 .. k : u[n] = g[n][u[n - 1]]
           Bad == {k \in 0 .. z : ~\E u : Composes(u, k)}
<1>1. Bad = {}
  <2> SUFFICES ASSUME Bad # {} PROVE FALSE
    OBVIOUS
  <2>1. PICK k \in Bad : \A j \in Bad : k <= j
    <3>1. Bad \subseteq Nat
      OBVIOUS
    <3> HIDE DEF Bad
    <3> QED
      BY <3>1, LeastNatural
  <2>2. k \in 0 .. z /\ ~\E u : Composes(u, k)
    <3> HIDE DEF Composes
    <3> QED
      BY <2>1
  <2>3. k # 0
    <3> SUFFICES ASSUME k = 0 PROVE FALSE
      OBVIOUS
    <3> DEFINE u == [n \in 0 .. 0 |-> b]
    <3>1. Composes(u, 0)
      OBVIOUS
    <3> HIDE DEF Composes
    <3> QED
      BY <2>2, <3>1
  <2>4. k - 1 \in 0 .. z /\ k \in 1 .. z /\ ~(k <= k - 1) /\ k \in Nat /\ k - 1 \in Nat
    BY <2>2, <2>3
  <2>5. PICK u : Composes(u, k - 1)
    <3> HIDE DEF Composes
    <3> QED
      BY <2>1, <2>4
  <2> DEFINE e == g[k][u[k - 1]]
             w == [n \in 0 .. k |-> IF n = k THEN e ELSE u[n]]
  <2>6. e \in S
    <3>1. u[k - 1] \in S
      BY <2>4, <2>5
    <3>2. g[k] \in [S -> S]
      BY <2>4
    <3> QED
      BY <3>1, <3>2
  <2>7. w[k] = e /\ \A n \in 0 .. k - 1 : w[n] = u[n]
    BY <2>4
  <2>8. w \in [0 .. k -> S]
    <3> HIDE DEF e
    <3>1. \A n \in 0 .. k : n = k \/ n \in 0 .. k - 1
      BY <2>4
    <3> QED
      BY <2>5, <2>6, <3>1
  <2> HIDE DEF w
  <2>9. ASSUME NEW n \in 1 .. k PROVE w[n] = g[n][w[n - 1]]
    <3>1. n - 1 \in 0 .. k - 1 /\ w[n - 1] = u[n - 1]
      BY <2>4, <2>7
    <3>2. CASE n = k
      BY <2>7, <3>1, <3>2
    <3>3. CASE n # k
      <4>1. n \in 1 .. k - 1 /\ n \in 0 .. k - 1
        BY <2>4, <3>3
      <4> QED
        BY <2>5, <2>7, <3>1, <4>1
    <3> QED
      BY <3>2, <3>3
  <2>10. w[0] = b
    <3>1. 0 \in 0 .. k - 1
      BY <2>4
    <3> QED
      BY <2>5, <2>7, <3>1
  <2>11. Composes(w, k)
    BY <2>8, <2>9, <2>10
  <2> HIDE DEF Composes
  <2> QED
    BY <2>2, <2>11
<1>2. z \in 0 .. z
  OBVIOUS
<1>3. \E u : Composes(u, z)
  <2> HIDE DEF Composes
  <2> QED
    BY <1>1, <1>2
<1> QED
  BY <1>3

Holds(q, k) == \E i \in 1 .. Len(q) : q[i] = k
ValuesOf(q) == {q[k] : k \in DOMAIN q}
Distinct(q) == \A i, j \in 1 .. Len(q) : q[i] = q[j] => i = j

LEMMA EmptyQueue == Distinct(<<>>) /\ \A k : ~Holds(<<>>, k)
BY DEF Distinct, Holds

LEMMA AppendQueue ==
  ASSUME NEW S, NEW q \in Seq(S), NEW k \in S
  PROVE  /\ Append(q, k) \in Seq(S) /\ Len(q) \in Nat
         /\ Len(Append(q, k)) = Len(q) + 1 /\ Append(q, k)[Len(q) + 1] = k
         /\ \A i \in 1 .. Len(q) : Append(q, k)[i] = q[i]
         /\ \A x : Holds(Append(q, k), x) <=> Holds(q, x) \/ x = k
         /\ Distinct(q) /\ ~Holds(q, k) => Distinct(Append(q, k))
<1>1. /\ Append(q, k) \in Seq(S) /\ Len(q) \in Nat
      /\ Len(Append(q, k)) = Len(q) + 1 /\ Append(q, k)[Len(q) + 1] = k
  OBVIOUS
<1>2. \A i \in 1 .. Len(q) : Append(q, k)[i] = q[i]
  OBVIOUS
<1>3. /\ \A i \in 1 .. Len(q) + 1 : i \in 1 .. Len(q) \/ i = Len(q) + 1
      /\ \A i \in 1 .. Len(q) : i \in 1 .. Len(q) + 1
      /\ Len(q) + 1 \in 1 .. Len(q) + 1
  BY <1>1
<1>4. \A x : Holds(Append(q, k), x) <=> Holds(q, x) \/ x = k
  BY <1>1, <1>2, <1>3 DEF Holds
<1>5. Distinct(q) /\ ~Holds(q, k) => Distinct(Append(q, k))
  BY <1>1, <1>2, <1>3 DEF Distinct, Holds
<1> QED
  BY <1>1, <1>2, <1>4, <1>5

LEMMA TailQueue ==
  ASSUME NEW S, NEW q \in Seq(S), q # <<>>
  PROVE  /\ Tail(q) \in Seq(S) /\ Head(q) \in S /\ Head(q) = q[1]
         /\ Len(q) \in Nat \ {0} /\ Len(Tail(q)) = Len(q) - 1
         /\ \A i \in 1 .. Len(q) - 1 : Tail(q)[i] = q[i + 1]
         /\ Holds(q, Head(q))
         /\ Distinct(q) => /\ Distinct(Tail(q))
                           /\ \A x : Holds(Tail(q), x) <=> Holds(q, x) /\ x # Head(q)
<1>1. Len(q) \in Nat \ {0}
  OBVIOUS
<1>2. Tail(q) \in Seq(S) /\ Head(q) \in S /\ Head(q) = q[1] /\ Len(Tail(q)) = Len(q) - 1
  BY <1>1
<1>3. \A i \in 1 .. Len(q) - 1 : Tail(q)[i] = q[i + 1]
  BY <1>1
<1>4. /\ \A i \in 1 .. Len(q) - 1 : i + 1 \in 1 .. Len(q) /\ i + 1 # 1
      /\ \A i \in 1 .. Len(q) : i = 1 \/ (i - 1 \in 1 .. Len(q) - 1 /\ (i - 1) + 1 = i)
      /\ 1 \in 1 .. Len(q)
      /\ \A i, j \in 1 .. Len(q) - 1 : i + 1 = j + 1 => i = j
  BY <1>1
<1>5. Holds(q, Head(q))
  BY <1>2, <1>4 DEF Holds
<1>6. Distinct(q) => Distinct(Tail(q))
  BY <1>2, <1>3, <1>4 DEF Distinct
<1>7. ASSUME Distinct(q), NEW x PROVE Holds(Tail(q), x) <=> Holds(q, x) /\ x # Head(q)
  <2>1. ASSUME Holds(Tail(q), x) PROVE Holds(q, x) /\ x # Head(q)
    <3>1. PICK i \in 1 .. Len(q) - 1 : Tail(q)[i] = x
      BY <2>1, <1>2 DEF Holds
    <3>2. q[i + 1] = x /\ i + 1 \in 1 .. Len(q) /\ i + 1 # 1
      BY <3>1, <1>3, <1>4
    <3> QED
      BY <3>2, <1>2, <1>4, <1>7 DEF Holds, Distinct
  <2>2. ASSUME Holds(q, x), x # Head(q) PROVE Holds(Tail(q), x)
    <3>1. PICK i \in 1 .. Len(q) : q[i] = x
      BY <2>2 DEF Holds
    <3>2. i - 1 \in 1 .. Len(q) - 1 /\ Tail(q)[i - 1] = x
      BY <3>1, <2>2, <1>2, <1>3, <1>4
    <3> QED
      BY <3>2, <1>2 DEF Holds
  <2> QED
    BY <2>1, <2>2
<1> QED
  BY <1>1, <1>2, <1>3, <1>5, <1>6, <1>7

\* Two queues without repetition or common entry hold, one after the other, as many
\* values as there are entries.
LEMMA QueuesCount ==
  ASSUME NEW S, NEW q \in Seq(S), NEW r \in Seq(S), NEW T,
         Distinct(q), Distinct(r), \A k \in S : ~(Holds(q, k) /\ Holds(r, k)),
         \A k : k \in T <=> Holds(q, k) \/ Holds(r, k)
  PROVE  /\ T = ValuesOf(q \o r)
         /\ IsFiniteSet(T) /\ Len(q \o r) = Cardinality(T)
<1> DEFINE h == q \o r  n == Len(q)  m == Len(r)
<1>1. /\ h \in Seq(S) /\ Len(h) = n + m /\ n \in Nat /\ m \in Nat
      /\ DOMAIN h = 1 .. n + m
  OBVIOUS
<1>2. /\ \A i \in 1 .. n : h[i] = q[i] /\ i \in 1 .. n + m /\ q[i] \in S
      /\ \A i \in 1 .. m : h[n + i] = r[i] /\ n + i \in 1 .. n + m /\ r[i] \in S
  OBVIOUS
<1>3. \A i \in 1 .. n + m : i \in 1 .. n \/ (i - n \in 1 .. m /\ i = n + (i - n))
  BY <1>1
<1>4. ASSUME NEW k \in T PROVE \E i \in 1 .. n + m : h[i] = k
  BY <1>2 DEF Holds
<1>5. ASSUME NEW i \in 1 .. n + m PROVE h[i] \in T
  BY <1>2, <1>3 DEF Holds
<1>6. ASSUME NEW i \in 1 .. n + m, NEW j \in 1 .. n + m, h[i] = h[j] PROVE i = j
  <2>1. CASE i \in 1 .. n /\ j \in 1 .. n
    BY <2>1, <1>2, <1>6 DEF Distinct
  <2>2. CASE i \in 1 .. n /\ j - n \in 1 .. m /\ j = n + (j - n)
    BY <2>2, <1>2, <1>6, SMTT(30) DEF Holds
  <2>3. CASE j \in 1 .. n /\ i - n \in 1 .. m /\ i = n + (i - n)
    BY <2>3, <1>2, <1>6 DEF Holds
  <2>4. CASE i - n \in 1 .. m /\ i = n + (i - n) /\ j - n \in 1 .. m /\ j = n + (j - n)
    <3>1. h[i] = r[i - n] /\ h[j] = r[j - n]
      BY <2>4, <1>2
    <3>2. i - n = j - n
      BY <3>1, <2>4, <1>6 DEF Distinct
    <3> QED
      BY <3>2, <2>4
  <2> QED
    BY <2>1, <2>2, <2>3, <2>4, <1>3
<1>7. T = ValuesOf(h)
  BY <1>1, <1>4, <1>5 DEF ValuesOf
<1>8. h \in [1 .. n + m -> T]
  <2>1. h \in [1 .. n + m -> S]
    BY <1>1, LenProperties, Zenon
  <2> HIDE DEF h, n, m
  <2> QED
    BY <2>1, <1>5
<1>9. h \in Bijection(1 .. n + m, T)
  <2>1. h \in Injection(1 .. n + m, T)
    BY <1>6, <1>8, Fun_IsInj, Zenon
  <2>2. h \in Surjection(1 .. n + m, T)
    BY <1>4, <1>8, Fun_IsSurj, Zenon
  <2> QED
    BY <2>1, <2>2 DEF Bijection
<1>10. IsFiniteSet(1 .. n + m) /\ Cardinality(1 .. n + m) = n + m
  <2>1. 1 \in Int /\ n + m \in Int /\ (1 > n + m => n + m = 0)
    BY <1>1
  <2>2. /\ IsFiniteSet(1 .. n + m)
        /\ Cardinality(1 .. n + m) = IF 1 > n + m THEN 0 ELSE (n + m) - 1 + 1
    BY <2>1, FS_Interval
  <2> HIDE DEF h, n, m
  <2> QED
    BY <2>1, <2>2
<1>11. IsFiniteSet(T) /\ Cardinality(T) = n + m
  BY <1>9, <1>10, FS_Bijection, Fun_ExistsBij
<1> QED
  BY <1>1, <1>7, <1>11

\* As many pairs of a master and a ticket as there are masters times tickets.
LEMMA PlacesCount ==
  ASSUME NEW a \in Nat \ {0}, NEW b \in Nat \ {0}
  PROVE  /\ IsFiniteSet((0 .. a - 1) \X (1 .. b))
         /\ Cardinality((0 .. a - 1) \X (1 .. b)) = a * b
<1>1. 0 \in Int /\ a - 1 \in Int /\ 1 \in Int /\ b \in Int /\ ~(0 > a - 1) /\ ~(1 > b)
  OBVIOUS
<1>2. IsFiniteSet(0 .. a - 1) /\ Cardinality(0 .. a - 1) = IF 0 > a - 1 THEN 0 ELSE (a - 1) - 0 + 1
  BY <1>1, FS_Interval
<1>3. IsFiniteSet(1 .. b) /\ Cardinality(1 .. b) = IF 1 > b THEN 0 ELSE b - 1 + 1
  BY <1>1, FS_Interval
<1>4. Cardinality(0 .. a - 1) = a /\ Cardinality(1 .. b) = b
  BY <1>1, <1>2, <1>3
<1>5. /\ IsFiniteSet((0 .. a - 1) \X (1 .. b))
      /\ Cardinality((0 .. a - 1) \X (1 .. b)) = Cardinality(0 .. a - 1) * Cardinality(1 .. b)
  <2> DEFINE A == 0 .. a - 1  B == 1 .. b
  <2>1. IsFiniteSet(A) /\ IsFiniteSet(B)
    BY <1>2, <1>3
  <2> HIDE DEF A, B
  <2>2. IsFiniteSet(A \X B) /\ Cardinality(A \X B) = Cardinality(A) * Cardinality(B)
    BY <2>1, FS_Product
  <2> QED
    BY <2>2 DEF A, B
<1> QED
  BY <1>4, <1>5

-----------------------------------------------------------------------------
\* The recursive function behind a sum over a finite set.
Pick(s) == CHOOSE x \in s : TRUE
SumBody(F, S, g) == [s \in SUBSET S |-> IF s = {} THEN 0 ELSE F[Pick(s)] + g[s \ {Pick(s)}]]

LEMMA SumUnfolds ==
  ASSUME NEW F, NEW S
  PROVE  SumFunctionOnSet(F, S) = (CHOOSE g : g = SumBody(F, S, g))[S]
BY DEF SumFunctionOnSet, FoldFunctionOnSet, MapThenFoldSet, SumBody, Pick

LEMMA Picked ==
  ASSUME NEW s, s # {}
  PROVE  Pick(s) \in s
BY DEF Pick

\* One element less.
LEMMA OneLess ==
  ASSUME NEW S, IsFiniteSet(S), NEW s \in SUBSET S, NEW x \in s
  PROVE  /\ s \ {x} \in SUBSET S /\ IsFiniteSet(s) /\ IsFiniteSet(s \ {x})
         /\ Cardinality(s) \in Nat /\ Cardinality(s) # 0
         /\ Cardinality(s \ {x}) \in Nat /\ Cardinality(s \ {x}) = Cardinality(s) - 1
<1>1. IsFiniteSet(s)
  BY FS_Subset
<1>2. IsFiniteSet(s \ {x}) /\ Cardinality(s \ {x}) = Cardinality(s) - 1
  BY <1>1, FS_RemoveElement
<1>3. Cardinality(s) \in Nat /\ Cardinality(s \ {x}) \in Nat
  BY <1>1, <1>2, FS_CardinalityType
<1> QED
  BY <1>1, <1>2, <1>3

\* What every subset inherits from those with fewer elements holds for every subset.
LEMMA SubsetInduction ==
  ASSUME NEW S, IsFiniteSet(S), NEW T, T \subseteq SUBSET S,
         \A s \in SUBSET S :
           (\A r \in SUBSET S : Cardinality(r) < Cardinality(s) => r \in T) => s \in T
  PROVE  T = SUBSET S
<1> DEFINE Sizes == {Cardinality(s) : s \in (SUBSET S) \ T}
<1> SUFFICES ASSUME (SUBSET S) \ T # {} PROVE FALSE
  OBVIOUS
<1>1. \A s \in SUBSET S : Cardinality(s) \in Nat
  BY FS_Subset, FS_CardinalityType
<1>2. Sizes \subseteq Nat /\ Sizes # {}
  BY <1>1
<1>3. PICK n \in Sizes : \A m \in Sizes : n <= m
  <2> HIDE DEF Sizes
  <2> QED
    BY <1>2, LeastNatural
<1>4. PICK s \in (SUBSET S) \ T : Cardinality(s) = n
  BY <1>3
<1>5. ASSUME NEW r \in SUBSET S, Cardinality(r) < Cardinality(s) PROVE r \in T
  <2> SUFFICES ASSUME r \notin T PROVE FALSE
    OBVIOUS
  <2>1. Cardinality(r) \in Sizes
    OBVIOUS
  <2>2. n <= Cardinality(r) /\ n \in Nat /\ Cardinality(r) \in Nat
    BY <1>1, <1>2, <1>3, <2>1
  <2> QED
    BY <1>4, <1>5, <2>2
<1> QED
  BY <1>4, <1>5

\* Two functions with the recursive definition agree where both are defined.
LEMMA SumsAgree ==
  ASSUME NEW F, NEW S, IsFiniteSet(S), NEW T \in SUBSET S,
         NEW g, g = SumBody(F, S, g), NEW h, h = SumBody(F, T, h)
  PROVE  \A s \in SUBSET T : g[s] = h[s]
<1> DEFINE Good == {s \in SUBSET T : g[s] = h[s]}
<1>0. IsFiniteSet(T)
  BY FS_Subset
<1>1. ASSUME NEW s \in SUBSET T,
             \A r \in SUBSET T : Cardinality(r) < Cardinality(s) => r \in Good
      PROVE  s \in Good
  <2>1. /\ g[s] = IF s = {} THEN 0 ELSE F[Pick(s)] + g[s \ {Pick(s)}]
        /\ h[s] = IF s = {} THEN 0 ELSE F[Pick(s)] + h[s \ {Pick(s)}]
    <3>1. s \in SUBSET S
      OBVIOUS
    <3>2. SumBody(F, S, g)[s] = IF s = {} THEN 0 ELSE F[Pick(s)] + g[s \ {Pick(s)}]
      BY <3>1 DEF SumBody
    <3>3. SumBody(F, T, h)[s] = IF s = {} THEN 0 ELSE F[Pick(s)] + h[s \ {Pick(s)}]
      BY DEF SumBody
    <3> QED
      BY <3>2, <3>3
  <2>2. CASE s = {}
    BY <2>1, <2>2
  <2>3. CASE s # {}
    <3>1. Pick(s) \in s
      BY <2>3, Picked
    <3>2. s \ {Pick(s)} \in SUBSET T /\ Cardinality(s \ {Pick(s)}) < Cardinality(s)
      <4>1. /\ s \ {Pick(s)} \in SUBSET T /\ Cardinality(s) \in Nat
            /\ Cardinality(s \ {Pick(s)}) = Cardinality(s) - 1
        BY <1>0, <3>1, OneLess
      <4> QED
        BY <4>1
    <3>3. g[s \ {Pick(s)}] = h[s \ {Pick(s)}]
      BY <1>1, <3>2
    <3> QED
      BY <2>1, <2>3, <3>3
  <2> QED
    BY <2>2, <2>3
<1>2. Good = SUBSET T
  <2>1. Good \subseteq SUBSET T
    OBVIOUS
  <2> HIDE DEF Good
  <2> QED
    BY <1>0, <1>1, <2>1, SubsetInduction
<1> QED
  BY <1>2

LEMMA SumBodyStays ==
  ASSUME NEW S, NEW F, \A x \in S : F[x] \in Int, NEW g \in [SUBSET S -> Int]
  PROVE  SumBody(F, S, g) \in [SUBSET S -> Int]
<1>1. ASSUME NEW s \in SUBSET S
      PROVE  (IF s = {} THEN 0 ELSE F[Pick(s)] + g[s \ {Pick(s)}]) \in Int
  <2>1. CASE s = {}
    BY <2>1
  <2>2. CASE s # {}
    <3>1. Pick(s) \in S /\ s \ {Pick(s)} \in SUBSET S
      BY <2>2, Picked
    <3>2. F[Pick(s)] \in Int /\ g[s \ {Pick(s)}] \in Int
      BY <3>1
    <3> QED
      BY <2>2, <3>2
  <2> QED
    BY <2>1, <2>2
<1> QED
  BY <1>1 DEF SumBody

LEMMA SumExists ==
  ASSUME NEW S, IsFiniteSet(S), NEW F, \A x \in S : F[x] \in Int
  PROVE  \E g \in [SUBSET S -> Int] : g = SumBody(F, S, g)
<1> DEFINE G == [SUBSET S -> Int]
           z == Cardinality(S) + 1
           g == [n \in 1 .. z |-> [f \in G |-> SumBody(F, S, f)]]
           b == [s \in SUBSET S |-> 0]
<1>1. z \in Nat \ {0} /\ \A s \in SUBSET S : Cardinality(s) \in Nat /\ Cardinality(s) < z
  <2>1. \A s \in SUBSET S : IsFiniteSet(s) /\ Cardinality(s) <= Cardinality(S)
    BY FS_Subset
  <2> QED
    BY <2>1, FS_CardinalityType
<1>2. g \in [1 .. z -> [G -> G]] /\ b \in G
  <2>1. \A f \in G : SumBody(F, S, f) \in G
    BY SumBodyStays
  <2>2. b \in G
    OBVIOUS
  <2> HIDE DEF G, b
  <2> QED
    BY <2>1, <2>2
<1>3. PICK u \in [0 .. z -> G] : u[0] = b /\ \A n \in 1 .. z : u[n] = g[n][u[n - 1]]
  <2>1. z \in Nat
    BY <1>1
  <2> HIDE DEF g, b, G, z
  <2> QED
    BY <1>2, <2>1, StepsCompose
<1>4. ASSUME NEW n \in 1 .. z PROVE u[n] = SumBody(F, S, u[n - 1])
  <2>1. n - 1 \in 0 .. z /\ u[n - 1] \in G
    <3> HIDE DEF G, z
    <3> QED
      BY <1>1, <1>3
  <2>2. u[n] = g[n][u[n - 1]]
    BY <1>3
  <2>3. g[n][u[n - 1]] = SumBody(F, S, u[n - 1])
    <3> HIDE DEF G
    <3> QED
      BY <2>1
  <2> QED
    BY <2>2, <2>3
<1> HIDE DEF g, b, z
<1>5. ASSUME NEW n \in 1 .. z, NEW s \in SUBSET S, s # {}
      PROVE  u[n][s] = F[Pick(s)] + u[n - 1][s \ {Pick(s)}]
  BY <1>4, <1>5 DEF SumBody
<1>6. ASSUME NEW n \in 1 .. z PROVE u[n][{}] = 0
  BY <1>4 DEF SumBody
<1> DEFINE Settled == {s \in SUBSET S : \A n, m \in 1 .. z :
                         n > Cardinality(s) /\ m > Cardinality(s) => u[n][s] = u[m][s]}
<1>7. ASSUME NEW s \in SUBSET S,
             \A r \in SUBSET S : Cardinality(r) < Cardinality(s) => r \in Settled
      PROVE  s \in Settled
  <2> SUFFICES ASSUME NEW n \in 1 .. z, NEW m \in 1 .. z, n > Cardinality(s), m > Cardinality(s)
               PROVE  u[n][s] = u[m][s]
    OBVIOUS
  <2>1. CASE s = {}
    BY <1>6, <2>1
  <2>2. CASE s # {}
    <3>1. Pick(s) \in s
      BY <2>2, Picked
    <3>2. /\ s \ {Pick(s)} \in SUBSET S /\ Cardinality(s) \in Nat /\ Cardinality(s) # 0
          /\ Cardinality(s \ {Pick(s)}) = Cardinality(s) - 1
      BY <3>1, OneLess
    <3>3. s \ {Pick(s)} \in Settled
      BY <1>7, <3>2
    <3>4. /\ n - 1 \in 1 .. z /\ m - 1 \in 1 .. z
          /\ n - 1 > Cardinality(s \ {Pick(s)}) /\ m - 1 > Cardinality(s \ {Pick(s)})
      BY <1>1, <3>2
    <3>5. u[n - 1][s \ {Pick(s)}] = u[m - 1][s \ {Pick(s)}]
      BY <3>3, <3>4
    <3> QED
      BY <1>5, <2>2, <3>5
  <2> QED
    BY <2>1, <2>2
<1>8. Settled = SUBSET S
  <2>1. Settled \subseteq SUBSET S
    OBVIOUS
  <2> HIDE DEF Settled
  <2> QED
    BY <1>7, <2>1, SubsetInduction
<1> DEFINE w == u[z]
<1>9. w \in G /\ z \in 1 .. z
  <2>1. z \in 0 .. z /\ z \in 1 .. z
    BY <1>1
  <2> HIDE DEF G
  <2> QED
    BY <1>3, <2>1
<1>10. ASSUME NEW s \in SUBSET S
       PROVE  w[s] = IF s = {} THEN 0 ELSE F[Pick(s)] + w[s \ {Pick(s)}]
  <2>1. CASE s = {}
    BY <1>6, <1>9, <2>1
  <2>2. CASE s # {}
    <3>1. Pick(s) \in s
      BY <2>2, Picked
    <3>2. /\ s \ {Pick(s)} \in SUBSET S /\ Cardinality(s) \in Nat /\ Cardinality(s) # 0
          /\ Cardinality(s \ {Pick(s)}) = Cardinality(s) - 1 /\ Cardinality(s) < z
      BY <1>1, <3>1, OneLess
    <3>3. z - 1 \in 1 .. z /\ z - 1 > Cardinality(s \ {Pick(s)}) /\ z > Cardinality(s \ {Pick(s)})
      BY <1>1, <3>2
    <3>4. u[z - 1][s \ {Pick(s)}] = u[z][s \ {Pick(s)}]
      BY <1>8, <1>9, <3>2, <3>3
    <3> QED
      BY <1>5, <1>9, <2>2, <3>4
  <2> QED
    BY <2>1, <2>2
<1>11. w = SumBody(F, S, w)
  <2> HIDE DEF w
  <2> QED
    BY <1>9, <1>10 DEF SumBody
<1> QED
  BY <1>9, <1>11

LEMMA SumOfPart ==
  ASSUME NEW S, IsFiniteSet(S), NEW F, \A x \in S : F[x] \in Int,
         NEW g, g = SumBody(F, S, g), NEW T \in SUBSET S
  PROVE  g[T] = SumFunctionOnSet(F, T)
<1>1. IsFiniteSet(T) /\ \A x \in T : F[x] \in Int
  BY FS_Subset
<1> DEFINE k == CHOOSE k : k = SumBody(F, T, k)
<1>2. k = SumBody(F, T, k)
  BY <1>1, SumExists
<1>3. SumFunctionOnSet(F, T) = k[T]
  BY SumUnfolds
<1> HIDE DEF k
<1>4. \A s \in SUBSET T : g[s] = k[s]
  BY <1>2, SumsAgree
<1> QED
  BY <1>3, <1>4

\* A sum is what its recursion says: nothing of the empty set, and one element and
\* the sum of the others.
LEMMA SumIsRecursive ==
  ASSUME NEW S, IsFiniteSet(S), NEW F, \A x \in S : F[x] \in Int
  PROVE  /\ SumFunctionOnSet(F, S) \in Int
         /\ S = {} => SumFunctionOnSet(F, S) = 0
         /\ S # {} => SumFunctionOnSet(F, S) = F[Pick(S)] + SumFunctionOnSet(F, S \ {Pick(S)})
<1> DEFINE g == CHOOSE g : g = SumBody(F, S, g)
<1>1. g = SumBody(F, S, g)
  BY SumExists
<1>2. PICK h \in [SUBSET S -> Int] : h = SumBody(F, S, h)
  BY SumExists
<1>3. SumFunctionOnSet(F, S) = g[S]
  BY SumUnfolds
<1> HIDE DEF g
<1>4. g[S] = h[S]
  BY <1>1, <1>2, SumsAgree
<1>5. g[S] = IF S = {} THEN 0 ELSE F[Pick(S)] + g[S \ {Pick(S)}]
  <2>1. SumBody(F, S, g)[S] = IF S = {} THEN 0 ELSE F[Pick(S)] + g[S \ {Pick(S)}]
    BY DEF SumBody
  <2> QED
    BY <1>1, <2>1
<1>6. ASSUME S # {} PROVE g[S \ {Pick(S)}] = SumFunctionOnSet(F, S \ {Pick(S)})
  <2>1. S \ {Pick(S)} \in SUBSET S
    OBVIOUS
  <2> QED
    BY <1>1, <2>1, SumOfPart
<1> QED
  BY <1>2, <1>3, <1>4, <1>5, <1>6

\* What holds of the empty set and of a set when it holds without one of its elements.
LEMMA ElementByElement ==
  ASSUME NEW S, IsFiniteSet(S), NEW T, T \subseteq SUBSET S, {} \in T,
         \A s \in SUBSET S : \A x \in s : s \ {x} \in T => s \in T
  PROVE  S \in T
<1>1. ASSUME NEW s \in SUBSET S,
             \A r \in SUBSET S : Cardinality(r) < Cardinality(s) => r \in T
      PROVE  s \in T
  <2>1. CASE s = {}
    BY <2>1
  <2>2. CASE s # {}
    <3>1. PICK x \in s : TRUE
      BY <2>2
    <3>2. s \ {x} \in SUBSET S /\ Cardinality(s) \in Nat /\ Cardinality(s \ {x}) = Cardinality(s) - 1
      BY OneLess
    <3>3. Cardinality(s \ {x}) < Cardinality(s)
      BY <3>2
    <3> QED
      BY <1>1, <3>2, <3>3
  <2> QED
    BY <2>1, <2>2
<1>2. T = SUBSET S
  BY <1>1, SubsetInduction
<1> QED
  BY <1>2

\* Any element can be the one that is taken out.
LEMMA SumTakes ==
  ASSUME NEW S, IsFiniteSet(S), NEW F, \A x \in S : F[x] \in Int, NEW y \in S
  PROVE  /\ SumFunctionOnSet(F, S) \in Int /\ SumFunctionOnSet(F, S \ {y}) \in Int
         /\ SumFunctionOnSet(F, S) = F[y] + SumFunctionOnSet(F, S \ {y})
<1> DEFINE Sum(s) == SumFunctionOnSet(F, s)
           Good == {s \in SUBSET S : \A x \in s : Sum(s) = F[x] + Sum(s \ {x})}
<1>1. ASSUME NEW s \in SUBSET S
      PROVE  /\ Sum(s) \in Int /\ IsFiniteSet(s)
             /\ s # {} => Pick(s) \in s /\ Sum(s) = F[Pick(s)] + Sum(s \ {Pick(s)})
  <2>1. IsFiniteSet(s) /\ \A x \in s : F[x] \in Int
    BY FS_Subset
  <2>2. Sum(s) \in Int /\ (s # {} => Sum(s) = F[Pick(s)] + Sum(s \ {Pick(s)}))
    BY <2>1, SumIsRecursive
  <2> QED
    BY <2>1, <2>2, Picked
<1> HIDE DEF Sum
<1>2. ASSUME NEW s \in SUBSET S,
             \A r \in SUBSET S : Cardinality(r) < Cardinality(s) => r \in Good
      PROVE  s \in Good
  <2> SUFFICES ASSUME NEW x \in s, x # Pick(s) PROVE Sum(s) = F[x] + Sum(s \ {x})
    BY <1>1
  <2> DEFINE c == Pick(s)
  <2>1. c \in s /\ Sum(s) = F[c] + Sum(s \ {c})
    BY <1>1
  <2> HIDE DEF c
  <2>2. /\ s \ {c} \in SUBSET S /\ s \ {x} \in SUBSET S /\ Cardinality(s) \in Nat
        /\ Cardinality(s \ {c}) = Cardinality(s) - 1 /\ Cardinality(s \ {x}) = Cardinality(s) - 1
    BY <2>1, OneLess
  <2>3. Cardinality(s \ {c}) < Cardinality(s) /\ Cardinality(s \ {x}) < Cardinality(s)
    BY <2>2
  <2>4. s \ {c} \in Good /\ s \ {x} \in Good
    BY <1>2, <2>2, <2>3
  <2>5. x \in s \ {c} /\ c \in s \ {x}
    BY <2>1 DEF c
  <2>6. Sum(s \ {c}) = F[x] + Sum((s \ {c}) \ {x}) /\ Sum(s \ {x}) = F[c] + Sum((s \ {x}) \ {c})
    BY <2>4, <2>5
  <2>7. (s \ {c}) \ {x} = (s \ {x}) \ {c} /\ (s \ {x}) \ {c} \in SUBSET S
    OBVIOUS
  <2>8. Sum((s \ {x}) \ {c}) \in Int /\ F[x] \in Int /\ F[c] \in Int
    BY <1>1, <2>1, <2>7
  <2> HIDE DEF Good
  <2> DEFINE rest == Sum((s \ {x}) \ {c})
  <2>9. Sum(s \ {c}) = F[x] + rest /\ Sum(s \ {x}) = F[c] + rest /\ rest \in Int
    BY <2>6, <2>7, <2>8
  <2> HIDE DEF rest
  <2> QED
    BY <2>1, <2>8, <2>9
<1>3. Good = SUBSET S
  <2>1. Good \subseteq SUBSET S
    OBVIOUS
  <2> HIDE DEF Good
  <2> QED
    BY <1>2, <2>1, SubsetInduction
<1>4. S \in Good /\ S \in SUBSET S /\ S \ {y} \in SUBSET S
  BY <1>3
<1>5. Sum(S) = F[y] + Sum(S \ {y})
  BY <1>4
<1> QED
  BY <1>1, <1>4, <1>5 DEF Sum

LEMMA SumEmpty == \A F : SumFunctionOnSet(F, {}) = 0
<1>1. ASSUME NEW F PROVE SumFunctionOnSet(F, {}) = 0
  <2>1. IsFiniteSet({}) /\ \A x \in {} : F[x] \in Int
    BY FS_EmptySet
  <2> QED
    BY <2>1, SumIsRecursive
<1> QED
  BY <1>1

LEMMA SumInt ==
  ASSUME NEW S, IsFiniteSet(S), NEW F, \A x \in S : F[x] \in Int
  PROVE  SumFunctionOnSet(F, S) \in Int
BY SumIsRecursive

\* Sums are compared, and scaled, term by term.
LEMMA SumMono ==
  ASSUME NEW S, IsFiniteSet(S), NEW F, NEW G, \A x \in S : F[x] \in Int,
         \A x \in S : G[x] \in Int, \A x \in S : F[x] <= G[x]
  PROVE  SumFunctionOnSet(F, S) <= SumFunctionOnSet(G, S)
<1> DEFINE Good == {s \in SUBSET S : SumFunctionOnSet(F, s) <= SumFunctionOnSet(G, s)}
<1>1. Good \subseteq SUBSET S /\ {} \in Good
  <2>1. SumFunctionOnSet(F, {}) = 0 /\ SumFunctionOnSet(G, {}) = 0
    BY SumEmpty
  <2> QED
    BY <2>1
<1>2. ASSUME NEW s \in SUBSET S, NEW x \in s, s \ {x} \in Good PROVE s \in Good
  <2>1. IsFiniteSet(s) /\ (\A y \in s : F[y] \in Int) /\ (\A y \in s : G[y] \in Int)
    BY FS_Subset
  <2>2. /\ SumFunctionOnSet(F, s) = F[x] + SumFunctionOnSet(F, s \ {x})
        /\ SumFunctionOnSet(F, s \ {x}) \in Int
    BY <2>1, SumTakes
  <2>3. /\ SumFunctionOnSet(G, s) = G[x] + SumFunctionOnSet(G, s \ {x})
        /\ SumFunctionOnSet(G, s \ {x}) \in Int
    BY <2>1, SumTakes
  <2>4. F[x] \in Int /\ G[x] \in Int /\ F[x] <= G[x]
    OBVIOUS
  <2>5. SumFunctionOnSet(F, s \ {x}) <= SumFunctionOnSet(G, s \ {x})
    BY <1>2
  <2>6. SumFunctionOnSet(F, s) <= SumFunctionOnSet(G, s)
    BY <2>2, <2>3, <2>4, <2>5
  <2> QED
    BY <2>6
<1> HIDE DEF Good
<1>3. S \in Good
  BY <1>1, <1>2, ElementByElement
<1> QED
  BY <1>3 DEF Good

LEMMA SumSame ==
  ASSUME NEW S, IsFiniteSet(S), NEW F, NEW G, \A x \in S : F[x] \in Int, \A x \in S : F[x] = G[x]
  PROVE  SumFunctionOnSet(F, S) = SumFunctionOnSet(G, S)
<1>1. (\A x \in S : G[x] \in Int) /\ (\A x \in S : F[x] <= G[x]) /\ (\A x \in S : G[x] <= F[x])
  OBVIOUS
<1>2. SumFunctionOnSet(F, S) <= SumFunctionOnSet(G, S) /\ SumFunctionOnSet(G, S) <= SumFunctionOnSet(F, S)
  BY <1>1, SumMono
<1>3. SumFunctionOnSet(F, S) \in Int /\ SumFunctionOnSet(G, S) \in Int
  BY <1>1, SumInt
<1> QED
  BY <1>2, <1>3

LEMMA SumNat ==
  ASSUME NEW S, IsFiniteSet(S), NEW F, \A x \in S : F[x] \in Nat
  PROVE  SumFunctionOnSet(F, S) \in Nat
<1> DEFINE Good == {s \in SUBSET S : SumFunctionOnSet(F, s) \in Nat}
<1>1. Good \subseteq SUBSET S /\ {} \in Good
  <2>1. SumFunctionOnSet(F, {}) = 0
    BY SumEmpty
  <2> QED
    BY <2>1
<1>2. ASSUME NEW s \in SUBSET S, NEW x \in s, s \ {x} \in Good PROVE s \in Good
  <2>1. IsFiniteSet(s) /\ (\A y \in s : F[y] \in Int)
    BY FS_Subset
  <2>2. SumFunctionOnSet(F, s) = F[x] + SumFunctionOnSet(F, s \ {x})
    BY <2>1, SumTakes
  <2>3. F[x] \in Nat /\ SumFunctionOnSet(F, s \ {x}) \in Nat
    BY <1>2
  <2>4. SumFunctionOnSet(F, s) \in Nat
    BY <2>2, <2>3
  <2> QED
    BY <2>4
<1> HIDE DEF Good
<1>3. S \in Good
  BY <1>1, <1>2, ElementByElement
<1> QED
  BY <1>3 DEF Good

LEMMA SumScales ==
  ASSUME NEW S, IsFiniteSet(S), NEW F, \A x \in S : F[x] \in Int, NEW c \in Int,
         NEW G, \A x \in S : G[x] = c * F[x]
  PROVE  SumFunctionOnSet(G, S) = c * SumFunctionOnSet(F, S)
<1> DEFINE Good == {s \in SUBSET S : SumFunctionOnSet(G, s) = c * SumFunctionOnSet(F, s)}
<1>1. Good \subseteq SUBSET S /\ {} \in Good
  <2>1. SumFunctionOnSet(F, {}) = 0 /\ SumFunctionOnSet(G, {}) = 0
    BY SumEmpty
  <2>2. c * 0 = 0
    OBVIOUS
  <2> QED
    BY <2>1, <2>2
<1>2. ASSUME NEW s \in SUBSET S, NEW x \in s, s \ {x} \in Good PROVE s \in Good
  <2>1. IsFiniteSet(s) /\ (\A y \in s : F[y] \in Int) /\ (\A y \in s : G[y] \in Int)
    BY FS_Subset
  <2>2. /\ SumFunctionOnSet(F, s) = F[x] + SumFunctionOnSet(F, s \ {x})
        /\ SumFunctionOnSet(F, s \ {x}) \in Int
    BY <2>1, SumTakes
  <2>3. /\ SumFunctionOnSet(G, s) = G[x] + SumFunctionOnSet(G, s \ {x})
    BY <2>1, SumTakes
  <2>4. F[x] \in Int /\ G[x] = c * F[x]
    OBVIOUS
  <2>5. SumFunctionOnSet(G, s \ {x}) = c * SumFunctionOnSet(F, s \ {x})
    BY <1>2
  <2>6. \A a, b \in Int : c * (a + b) = c * a + c * b
    OBVIOUS
  <2>7. SumFunctionOnSet(G, s) = c * SumFunctionOnSet(F, s)
    BY <2>2, <2>3, <2>4, <2>5, <2>6
  <2> QED
    BY <2>7
<1> HIDE DEF Good
<1>3. S \in Good
  BY <1>1, <1>2, ElementByElement
<1> QED
  BY <1>3 DEF Good

-----------------------------------------------------------------------------
\* Sums over an interval, from its end.
LEMMA SumUpTo ==
  ASSUME NEW n \in Nat, NEW F, \A k \in 0 .. n : F[k] \in Int
  PROVE  /\ SumFunctionOnSet(F, 0 .. n - 1) \in Int
         /\ SumFunctionOnSet(F, 0 .. n) = SumFunctionOnSet(F, 0 .. n - 1) + F[n]
<1>1. (0 .. n) \ {n} = 0 .. n - 1 /\ n \in 0 .. n
  OBVIOUS
<1>2. IsFiniteSet(0 .. n)
  BY FS_Interval
<1>3. /\ SumFunctionOnSet(F, (0 .. n) \ {n}) \in Int
      /\ SumFunctionOnSet(F, 0 .. n) = F[n] + SumFunctionOnSet(F, (0 .. n) \ {n})
  BY <1>1, <1>2, SumTakes
<1>4. F[n] \in Int
  BY <1>1
<1> DEFINE rest == SumFunctionOnSet(F, 0 .. n - 1)
<1>5. rest \in Int /\ SumFunctionOnSet(F, 0 .. n) = F[n] + rest
  BY <1>1, <1>3
<1> HIDE DEF rest
<1>6. SumFunctionOnSet(F, 0 .. n) = rest + F[n]
  BY <1>4, <1>5
<1> QED
  BY <1>5, <1>6 DEF rest

\* What holds for no terms and for one more holds for all.
LEMMA TermByTerm ==
  ASSUME NEW z \in Nat, NEW T, 0 \in T, \A n \in 0 .. z - 1 : n \in T => n + 1 \in T
  PROVE  z \in T
<1> DEFINE h == [n \in 0 .. z |-> n]
<1>1. h[0] \in T
  OBVIOUS
<1>2. ASSUME NEW n \in 1 .. z, h[n - 1] \in T PROVE h[n] \in T
  <2>1. n - 1 \in 0 .. z - 1 /\ n - 1 \in 0 .. z /\ n \in 0 .. z /\ (n - 1) + 1 = n
    OBVIOUS
  <2>2. h[n - 1] = n - 1 /\ h[n] = n
    BY <2>1
  <2> QED
    BY <1>2, <2>1, <2>2
<1>3. \A n \in 0 .. z : h[n] \in T
  <2> HIDE DEF h
  <2> QED
    BY <1>1, <1>2, StaysIn
<1> QED
  BY <1>3

\* Differences add up to the difference.
LEMMA SumTelescopes ==
  ASSUME NEW z \in Nat, NEW P, \A k \in 0 .. z : P[k] \in Int,
         NEW F, \A k \in 0 .. z - 1 : F[k] = P[k + 1] - P[k]
  PROVE  SumFunctionOnSet(F, 0 .. z - 1) = P[z] - P[0]
<1> DEFINE Good == {n \in 0 .. z : SumFunctionOnSet(F, 0 .. n - 1) = P[n] - P[0]}
<1>1. 0 \in Good
  <2>1. 0 .. 0 - 1 = {} /\ 0 \in 0 .. z
    OBVIOUS
  <2>2. SumFunctionOnSet(F, 0 .. 0 - 1) = 0
    BY <2>1, SumEmpty
  <2>3. P[0] \in Int
    BY <2>1
  <2> QED
    BY <2>1, <2>2, <2>3
<1>2. ASSUME NEW n \in 0 .. z - 1, n \in Good PROVE n + 1 \in Good
  <2>1. n \in Nat /\ n \in 0 .. z /\ n + 1 \in 0 .. z /\ 0 \in 0 .. z /\ (n + 1) - 1 = n
    OBVIOUS
  <2>2. \A k \in 0 .. n : F[k] \in Int
    <3>1. \A k \in 0 .. n : k \in 0 .. z /\ k + 1 \in 0 .. z /\ k \in 0 .. z - 1
      OBVIOUS
    <3> QED
      BY <3>1
  <2>3. SumFunctionOnSet(F, 0 .. n) = SumFunctionOnSet(F, 0 .. n - 1) + F[n]
    BY <2>1, <2>2, SumUpTo
  <2>4. SumFunctionOnSet(F, 0 .. n - 1) = P[n] - P[0] /\ F[n] = P[n + 1] - P[n]
    BY <1>2
  <2>5. P[n] \in Int /\ P[n + 1] \in Int /\ P[0] \in Int
    BY <2>1
  <2>6. SumFunctionOnSet(F, 0 .. n) = P[n + 1] - P[0]
    BY <2>3, <2>4, <2>5
  <2> QED
    BY <2>1, <2>6
<1> HIDE DEF Good
<1>3. z \in Good
  BY <1>1, <1>2, TermByTerm
<1> QED
  BY <1>3 DEF Good

LEMMA RowMajor ==
  ASSUME NEW a \in Nat \ {0}, NEW i \in Nat, NEW j \in 0 .. a - 1
  PROVE  (a * i + j) \div a = i /\ (a * i + j) % a = j
OBVIOUS

\* F is given on a grid of d rows of a columns, row by row, as the product of what R is
\* for the row and C for the column.
OnGrid(F, d, a, R, C) ==
  /\ d \in Nat /\ a \in Nat \ {0}
  /\ \A i \in 0 .. d - 1 : R[i] \in Int
  /\ \A j \in 0 .. a - 1 : C[j] \in Int
  /\ \A k \in 0 .. d * a - 1 : F[k] = R[k \div a] * C[k % a]

LEMMA SumOfGrid ==
  ASSUME NEW F, NEW d, NEW a, NEW R, NEW C, OnGrid(F, d, a, R, C)
  PROVE  SumFunctionOnSet(F, 0 .. d * a - 1)
           = SumFunctionOnSet(R, 0 .. d - 1) * SumFunctionOnSet(C, 0 .. a - 1)
<1>0. /\ d \in Nat /\ a \in Nat \ {0}
      /\ \A i \in 0 .. d - 1 : R[i] \in Int
      /\ \A j \in 0 .. a - 1 : C[j] \in Int
      /\ \A k \in 0 .. d * a - 1 : F[k] = R[k \div a] * C[k % a]
  BY DEF OnGrid
<1> USE <1>0
<1> DEFINE Sf(n) == SumFunctionOnSet(F, 0 .. n - 1)
           Sr(n) == SumFunctionOnSet(R, 0 .. n - 1)
           Sc(n) == SumFunctionOnSet(C, 0 .. n - 1)
<1>1. Sf(0) = 0 /\ Sr(0) = 0 /\ Sc(0) = 0
  <2>1. 0 .. 0 - 1 = {}
    OBVIOUS
  <2> QED
    BY <2>1, SumEmpty
<1>2. ASSUME NEW i \in 0 .. d - 1, NEW j \in 0 .. a - 1
      PROVE  a * i + j \in 0 .. d * a - 1 /\ F[a * i + j] = R[i] * C[j]
  <2>1. a * i <= a * (d - 1) /\ a * i \in Nat /\ a * (d - 1) = d * a - a
    OBVIOUS
  <2>2. a * i + j \in 0 .. d * a - 1
    <3> DEFINE x == a * i  y == d * a
    <3>1. x \in Nat /\ y \in Nat /\ x <= y - a
      BY <2>1
    <3> HIDE DEF x, y
    <3>2. x + j \in 0 .. y - 1
      BY <3>1
    <3> QED
      BY <3>2 DEF x, y
  <2>3. (a * i + j) \div a = i /\ (a * i + j) % a = j
    <3>1. a \in Nat \ {0} /\ i \in Nat
      OBVIOUS
    <3> HIDE <1>0
    <3> QED
      BY <3>1, RowMajor
  <2> QED
    BY <2>2, <2>3
<1>3. \A k \in 0 .. d * a - 1 : F[k] \in Int
  <2>1. ASSUME NEW k \in 0 .. d * a - 1 PROVE k \div a \in 0 .. d - 1 /\ k % a \in 0 .. a - 1
    <3> DEFINE q == k \div a  r == k % a
    <3>1. q \in Nat /\ r \in 0 .. a - 1 /\ k = a * q + r
      OBVIOUS
    <3> HIDE DEF q, r
    <3>2. a * q < a * d
      BY <3>1
    <3>3. q < d
      BY <3>1, <3>2
    <3> QED
      BY <3>1, <3>3 DEF q, r
  <2> QED
    BY <2>1
<1>4. ASSUME NEW n \in 0 .. d - 1 PROVE Sr(n) \in Int /\ Sr(n + 1) = Sr(n) + R[n]
  <2>1. n \in Nat /\ (\A k \in 0 .. n : R[k] \in Int) /\ (n + 1) - 1 = n
    OBVIOUS
  <2> QED
    BY <2>1, SumUpTo
<1>5. ASSUME NEW n \in 0 .. a - 1 PROVE Sc(n) \in Int /\ Sc(n + 1) = Sc(n) + C[n]
  <2>1. n \in Nat /\ (\A k \in 0 .. n : C[k] \in Int) /\ (n + 1) - 1 = n
    OBVIOUS
  <2> QED
    BY <2>1, SumUpTo
<1>6. ASSUME NEW n \in 0 .. d * a - 1 PROVE Sf(n) \in Int /\ Sf(n + 1) = Sf(n) + F[n]
  <2>1. n \in Nat /\ (n + 1) - 1 = n
    OBVIOUS
  <2>2. \A k \in 0 .. n : F[k] \in Int
    BY <1>3
  <2> QED
    BY <2>1, <2>2, SumUpTo
<1>7. Sc(a) \in Int
  <2>1. IsFiniteSet(0 .. a - 1)
    BY FS_Interval
  <2> QED
    BY <2>1, SumInt
<1> HIDE DEF Sf, Sr, Sc
\* One row.
<1>8. ASSUME NEW i \in 0 .. d - 1, Sf(a * i) = Sr(i) * Sc(a)
      PROVE  Sf(a * (i + 1)) = Sr(i + 1) * Sc(a)
  <2> DEFINE Good == {j \in 0 .. a : Sf(a * i + j) = Sr(i) * Sc(a) + R[i] * Sc(j)}
             base == Sr(i) * Sc(a)
  <2>0. base \in Int /\ R[i] \in Int /\ a * i \in Nat
    <3>1. R[i] \in Int /\ a * i \in Nat
      OBVIOUS
    <3>2. Sr(i) \in Int /\ Sc(a) \in Int
      BY <1>4, <1>7
    <3> HIDE <1>0
    <3> QED
      BY <3>1, <3>2
  <2>1. 0 \in Good
    <3>1. a * i + 0 = a * i
      BY <2>0
    <3>2. R[i] * 0 = 0
      BY <2>0
    <3>3. Sf(a * i + 0) = base + R[i] * Sc(0)
      <4> HIDE DEF base
      <4>1. base + 0 = base
        BY <2>0
      <4> QED
        BY <1>1, <1>8, <3>1, <3>2, <4>1 DEF base
    <3> QED
      BY <3>3
  <2>2. ASSUME NEW j \in 0 .. a - 1, j \in Good PROVE j + 1 \in Good
    <3>1. a * i + j \in 0 .. d * a - 1 /\ F[a * i + j] = R[i] * C[j]
      BY <1>2
    <3>2. Sf((a * i + j) + 1) = Sf(a * i + j) + F[a * i + j]
      BY <1>6, <3>1
    <3>3. Sf(a * i + j) = base + R[i] * Sc(j)
      BY <2>2
    <3>4. Sc(j + 1) = Sc(j) + C[j] /\ Sc(j) \in Int /\ C[j] \in Int
      BY <1>5
    <3>5. R[i] * Sc(j + 1) = R[i] * Sc(j) + R[i] * C[j] /\ R[i] * Sc(j) \in Int /\ R[i] * C[j] \in Int
      <4>1. \A x, y, z \in Int : x * (y + z) = x * y + x * z /\ x * y \in Int
        OBVIOUS
      <4>2. R[i] * (Sc(j) + C[j]) = R[i] * Sc(j) + R[i] * C[j]
        BY <2>0, <3>4, <4>1
      <4> QED
        BY <2>0, <3>4, <4>1, <4>2
    <3>6. (a * i + j) + 1 = a * i + (j + 1) /\ j + 1 \in 0 .. a
      BY <2>0
    <3> HIDE DEF base
    <3>7. Sf(a * i + (j + 1)) = base + R[i] * Sc(j + 1)
      <4>1. Sf(a * i + (j + 1)) = (base + R[i] * Sc(j)) + R[i] * C[j]
        BY <3>1, <3>2, <3>3, <3>6
      <4> DEFINE x == R[i] * Sc(j)  y == R[i] * C[j]
      <4>2. (base + x) + y = base + (x + y)
        <5>1. x \in Int /\ y \in Int
          BY <3>5
        <5> HIDE DEF x, y
        <5> QED
          BY <2>0, <5>1
      <4> QED
        BY <3>5, <4>1, <4>2
    <3> QED
      BY <3>6, <3>7 DEF base
  <2>3. a \in Good
    <3> HIDE DEF Good
    <3> QED
      BY <2>1, <2>2, TermByTerm
  <2>4. Sf(a * i + a) = Sr(i) * Sc(a) + R[i] * Sc(a)
    BY <2>3
  <2>5. a * i + a = a * (i + 1)
    OBVIOUS
  <2>6. Sr(i + 1) = Sr(i) + R[i] /\ Sr(i) \in Int
    BY <1>4
  <2>7. \A x, y, z \in Int : (x + y) * z = x * z + y * z
    OBVIOUS
  <2>8. (Sr(i) + R[i]) * Sc(a) = Sr(i) * Sc(a) + R[i] * Sc(a)
    <3>1. Sr(i) \in Int /\ R[i] \in Int /\ Sc(a) \in Int
      BY <1>7, <2>0, <2>6
    <3> QED
      BY <2>7, <3>1
  <2> HIDE DEF base, Good
  <2>9. Sf(a * (i + 1)) = Sr(i) * Sc(a) + R[i] * Sc(a)
    BY <2>4, <2>5
  <2>10. Sr(i + 1) * Sc(a) = (Sr(i) + R[i]) * Sc(a)
    BY <2>6
  <2> QED
    BY <2>8, <2>9, <2>10
<1> DEFINE Rows == {i \in 0 .. d : Sf(a * i) = Sr(i) * Sc(a)}
<1>9. 0 \in Rows
  <2>1. a * 0 = 0 /\ 0 * Sc(a) = 0
    BY <1>7
  <2> QED
    BY <1>1, <2>1
<1>10. ASSUME NEW i \in 0 .. d - 1, i \in Rows PROVE i + 1 \in Rows
  <2>1. i + 1 \in 0 .. d
    OBVIOUS
  <2> QED
    BY <1>8, <1>10, <2>1
<1>11. d \in Rows
  <2> HIDE DEF Rows
  <2> QED
    BY <1>9, <1>10, TermByTerm
<1>12. a * d = d * a
  OBVIOUS
<1> QED
  BY <1>11, <1>12 DEF Sf, Sr, Sc
=============================================================================
