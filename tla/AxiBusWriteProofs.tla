-------------------------- MODULE AxiBusWriteProofs --------------------------
(****************************************************************************)
(* Proofs about AxiBusWrite, for every number of masters and slaves, every  *)
(* set of burst shapes and every depth of the queues: types, what the       *)
(* masters' side of the routing holds (Routing), what the slaves' side      *)
(* holds (Pairing), that W beats follow their address, and in what order    *)
(* writes proceed.                                                          *)
(*                                                                          *)
(* A refused burst retired before its data puts its master's stream out of  *)
(* step (AxiBusWrite!RetireRefused), which lasts (OutOfStepForGood).        *)
(* Routing and WPathNeverCircular hold of such a stream too; what pairs     *)
(* data with addresses and bursts with responses is stated and proved of    *)
(* streams in step (InStep).                                                *)
(*                                                                          *)
(* The W paths never wait on each other in a circle (WPathNeverCircular):   *)
(* the address grants put all bursts under way in one order, which each     *)
(* master's targets and each slave's w_order_ follow.                       *)
(*                                                                          *)
(* Until an AW pulse is lost, the responses a slave or the bus still owes   *)
(* are the entries of the response queues, in the order of write_order_     *)
(* (Answering); with an id that stays with one destination (Dedicated) each *)
(* is credited to its own burst, and with a slave that takes as many writes *)
(* as there are tickets (Roomy) no pulse is lost.                           *)
(****************************************************************************)
EXTENDS AxiBusWrite, QueueLemmas, TLAPS

----------------------------------------------------------------------------
(* Types and Routing *)

LEMMA SinkNotSlave ==
  /\ Sink \notin Slaves /\ Sink \in 0 .. NumS
  /\ \A s : s \in Slaves <=> s \in 0 .. NumS /\ s # Sink
BY BusWriteAssumption DEF Sink, Slaves

\* A pulse on the AW wire is told from an idle wire.
LEMMA RefNotNone == \A b \in Ref : b # None
BY DEF Ref, None

LEMMA AppendFacts ==
  ASSUME NEW S, NEW q \in Seq(S), NEW e \in S
  PROVE  /\ Append(q, e) \in Seq(S) /\ Len(q) \in Nat
         /\ Len(Append(q, e)) = Len(q) + 1
         /\ Append(q, e)[Len(q) + 1] = e
         /\ \A i \in 1 .. Len(q) : Append(q, e)[i] = q[i] /\ i \in 1 .. Len(q) + 1
         /\ \A i \in 1 .. Len(q) + 1 : i \in 1 .. Len(q) \/ i = Len(q) + 1
         /\ q # <<>> => Head(Append(q, e)) = Head(q)
         /\ Append(q, e) # <<>>
<1>1. /\ Append(q, e) \in Seq(S) /\ Len(q) \in Nat
      /\ Len(Append(q, e)) = Len(q) + 1 /\ Append(q, e)[Len(q) + 1] = e
  OBVIOUS
<1>2. \A i \in 1 .. Len(q) : Append(q, e)[i] = q[i] /\ i \in 1 .. Len(q) + 1
  BY <1>1
<1>3. \A i \in 1 .. Len(q) + 1 : i \in 1 .. Len(q) \/ i = Len(q) + 1
  BY <1>1
<1>4. q # <<>> => Head(Append(q, e)) = Head(q)
  OBVIOUS
<1>5. Append(q, e) # <<>>
  BY <1>1
<1> QED
  BY <1>1, <1>2, <1>3, <1>4, <1>5

LEMMA TailFacts ==
  ASSUME NEW S, NEW q \in Seq(S), q # <<>>
  PROVE  /\ Tail(q) \in Seq(S) /\ Head(q) \in S /\ Head(q) = q[1]
         /\ Len(q) \in Nat \ {0} /\ Len(Tail(q)) = Len(q) - 1
         /\ \A i \in 1 .. Len(q) - 1 : Tail(q)[i] = q[i + 1] /\ i + 1 \in 1 .. Len(q)
         /\ 1 \in 1 .. Len(q)
<1>1. Len(q) \in Nat \ {0}
  OBVIOUS
<1>2. Tail(q) \in Seq(S) /\ Head(q) \in S /\ Head(q) = q[1]
  BY <1>1
<1>3. Len(Tail(q)) = Len(q) - 1
  BY <1>1
<1>4. \A i \in 1 .. Len(q) - 1 : Tail(q)[i] = q[i + 1]
  BY <1>1
<1>5. \A i \in 1 .. Len(q) - 1 : i + 1 \in 1 .. Len(q)
  BY <1>1
<1> QED
  BY <1>1, <1>2, <1>3, <1>4, <1>5

----------------------------------------------------------------------------
(* Booking and retiring targets *)

\* Targets q and saved AWIDs e of a master whose bursts are d and whose address
\* handshakes number top: q is the destinations of the last Len(q) of them, e the
\* refused ones among these, in order.
BooksTargets(q, d, base) == \A i \in 1 .. Len(q) : q[i] = d[base + i].dst
BooksRefused(e, d, base, top) ==
  \A n \in base + 1 .. top : d[n].dst = Sink => \E k \in 1 .. Len(e) : e[k] = n
BooksOnly(e, d, base, top) ==
  \A k \in 1 .. Len(e) :
    /\ e[k] \in base + 1 .. top
    /\ d[e[k]].dst = Sink
    /\ \A j \in 1 .. Len(e) : j < k => e[j] < e[k]
Books(q, e, d, base, top) ==
  /\ base \in Nat /\ top = base + Len(q)
  /\ BooksTargets(q, d, base)
  /\ BooksRefused(e, d, base, top)
  /\ BooksOnly(e, d, base, top)

\* The books of m, as they are.
Booked(m) == Books(masterWTargets[m], errAwid[m], burst[m], Retired(m), awDone[m])

LEMMA BookRefused ==
  ASSUME NEW q \in Seq(0 .. NumS), NEW E, NEW e \in Seq(E), NEW d, NEW base, NEW top \in Nat,
         Books(q, e, d, base, top), d[top + 1].dst = Sink, top + 1 \in E
  PROVE  Books(Append(q, Sink), Append(e, top + 1), d, base, top + 1)
<1>1. /\ base \in Nat /\ top = base + Len(q) /\ Len(q) \in Nat
      /\ \A i \in 1 .. Len(q) : q[i] = d[base + i].dst
  BY DEF Books, BooksTargets
<1>2. /\ Len(Append(q, Sink)) = Len(q) + 1 /\ Append(q, Sink)[Len(q) + 1] = Sink
      /\ \A i \in 1 .. Len(q) : Append(q, Sink)[i] = q[i]
      /\ \A i \in 1 .. Len(q) + 1 : i \in 1 .. Len(q) \/ i = Len(q) + 1
  BY AppendFacts, SinkNotSlave
<1>3. /\ Len(e) \in Nat /\ Len(Append(e, top + 1)) = Len(e) + 1
      /\ Append(e, top + 1)[Len(e) + 1] = top + 1
      /\ \A i \in 1 .. Len(e) : Append(e, top + 1)[i] = e[i]
      /\ \A i \in 1 .. Len(e) + 1 : i \in 1 .. Len(e) \/ i = Len(e) + 1
      /\ Len(e) + 1 \in 1 .. Len(e) + 1
      /\ \A i \in 1 .. Len(e) : i \in 1 .. Len(e) + 1
      /\ \A i, j \in 1 .. Len(e) + 1 : j < i => j \in 1 .. Len(e)
  <2>1. Len(e) \in Nat
    OBVIOUS
  <2> QED
    BY <2>1, AppendFacts
<1>4. top + 1 = base + Len(Append(q, Sink)) /\ base + (Len(q) + 1) = top + 1
  BY <1>1, <1>2
<1>5. BooksTargets(Append(q, Sink), d, base)
  BY <1>1, <1>2, <1>4 DEF BooksTargets
<1>6. BooksRefused(Append(e, top + 1), d, base, top + 1)
  <2> SUFFICES ASSUME NEW n \in base + 1 .. top + 1, d[n].dst = Sink
               PROVE  \E k \in 1 .. Len(e) + 1 : Append(e, top + 1)[k] = n
    BY <1>3 DEF BooksRefused
  <2>1. CASE n = top + 1
    BY <2>1, <1>3
  <2>2. CASE n # top + 1
    <3>1. n \in base + 1 .. top
      BY <2>2, <1>1
    <3>2. PICK k \in 1 .. Len(e) : e[k] = n
      BY <3>1 DEF Books, BooksRefused
    <3> QED
      BY <3>2, <1>3
  <2> QED
    BY <2>1, <2>2
<1>7. BooksOnly(Append(e, top + 1), d, base, top + 1)
  <2>1. \A k \in 1 .. Len(e) : e[k] \in base + 1 .. top /\ d[e[k]].dst = Sink
    BY DEF Books, BooksOnly
  <2>2. \A i \in base + 1 .. top : i < top + 1 /\ i \in base + 1 .. top + 1
    BY <1>1
  <2>3. top + 1 \in base + 1 .. top + 1
    BY <1>1, <1>4
  <2> SUFFICES ASSUME NEW k \in 1 .. Len(e) + 1
               PROVE  /\ Append(e, top + 1)[k] \in base + 1 .. top + 1
                      /\ d[Append(e, top + 1)[k]].dst = Sink
                      /\ \A j \in 1 .. Len(e) + 1 :
                           j < k => Append(e, top + 1)[j] < Append(e, top + 1)[k]
    BY <1>3 DEF BooksOnly
  <2>4. CASE k = Len(e) + 1
    BY <1>3, <2>1, <2>2, <2>3, <2>4
  <2>5. CASE k \in 1 .. Len(e)
    <3>1. \A j \in 1 .. Len(e) : j < k => e[j] < e[k]
      BY <2>5 DEF Books, BooksOnly
    <3> QED
      BY <1>3, <2>1, <2>2, <2>5, <3>1
  <2> QED
    BY <1>3, <2>4, <2>5
<1> QED
  BY <1>1, <1>4, <1>5, <1>6, <1>7 DEF Books

LEMMA BookMapped ==
  ASSUME NEW q \in Seq(0 .. NumS), NEW E, NEW e \in Seq(E), NEW d, NEW base, NEW top \in Nat,
         Books(q, e, d, base, top), NEW t \in 0 .. NumS, t # Sink, d[top + 1].dst = t
  PROVE  Books(Append(q, t), e, d, base, top + 1)
<1>1. /\ base \in Nat /\ top = base + Len(q) /\ Len(q) \in Nat
      /\ \A i \in 1 .. Len(q) : q[i] = d[base + i].dst
  BY DEF Books, BooksTargets
<1>2. /\ Len(Append(q, t)) = Len(q) + 1 /\ Append(q, t)[Len(q) + 1] = t
      /\ \A i \in 1 .. Len(q) : Append(q, t)[i] = q[i]
      /\ \A i \in 1 .. Len(q) + 1 : i \in 1 .. Len(q) \/ i = Len(q) + 1
  BY AppendFacts
<1>3. top + 1 = base + Len(Append(q, t)) /\ base + (Len(q) + 1) = top + 1
  BY <1>1, <1>2
<1>4. BooksTargets(Append(q, t), d, base)
  BY <1>1, <1>2, <1>3 DEF BooksTargets
<1>5. BooksRefused(e, d, base, top + 1)
  <2>1. \A n \in base + 1 .. top + 1 : n = top + 1 \/ n \in base + 1 .. top
    BY <1>1
  <2> QED
    BY <2>1 DEF Books, BooksRefused
<1>6. BooksOnly(e, d, base, top + 1)
  <2>1. \A i \in base + 1 .. top : i \in base + 1 .. top + 1
    BY <1>1
  <2> QED
    BY <2>1 DEF Books, BooksOnly
<1> QED
  BY <1>1, <1>3, <1>4, <1>5, <1>6 DEF Books

LEMMA RetireAny ==
  ASSUME NEW q \in Seq(0 .. NumS), q # <<>>, NEW e, NEW d, NEW base, NEW top \in Nat,
         Books(q, e, d, base, top)
  PROVE  /\ base + 1 \in Nat /\ base + 1 \in base + 1 .. top /\ top = (base + 1) + Len(Tail(q))
         /\ BooksTargets(Tail(q), d, base + 1) /\ Head(q) = d[base + 1].dst
<1>1. /\ base \in Nat /\ top = base + Len(q) /\ Len(q) \in Nat
      /\ \A i \in 1 .. Len(q) : q[i] = d[base + i].dst
  BY DEF Books, BooksTargets
<1>2. /\ Tail(q) \in Seq(0 .. NumS) /\ Head(q) = q[1]
      /\ Len(q) \in Nat \ {0} /\ Len(Tail(q)) = Len(q) - 1
      /\ \A i \in 1 .. Len(q) - 1 : Tail(q)[i] = q[i + 1] /\ i + 1 \in 1 .. Len(q)
      /\ 1 \in 1 .. Len(q)
  BY TailFacts
<1>3. /\ base + 1 \in Nat /\ base + 1 \in base + 1 .. top /\ top = (base + 1) + Len(Tail(q))
  BY <1>1, <1>2
<1>4. \A i \in 1 .. Len(Tail(q)) : base + (i + 1) = (base + 1) + i
  BY <1>1, <1>2
<1>5. BooksTargets(Tail(q), d, base + 1)
  BY <1>1, <1>2, <1>4 DEF BooksTargets
<1> QED
  BY <1>1, <1>2, <1>3, <1>5

LEMMA RetireBooked ==
  ASSUME NEW q \in Seq(0 .. NumS), q # <<>>, Head(q) # Sink, NEW E, NEW e \in Seq(E), NEW d, NEW base,
         NEW top \in Nat, Books(q, e, d, base, top)
  PROVE  Books(Tail(q), e, d, base + 1, top)
<1>1. /\ base + 1 \in Nat /\ top = (base + 1) + Len(Tail(q))
      /\ BooksTargets(Tail(q), d, base + 1) /\ d[base + 1].dst # Sink /\ base \in Nat
  BY RetireAny DEF Books
<1>2. \A n \in (base + 1) + 1 .. top : n \in base + 1 .. top
  BY <1>1
<1>3. \A n \in base + 1 .. top : n = base + 1 \/ n \in (base + 1) + 1 .. top
  BY <1>1
<1>4. BooksRefused(e, d, base + 1, top)
  BY <1>2 DEF Books, BooksRefused
<1>5. BooksOnly(e, d, base + 1, top)
  BY <1>1, <1>3 DEF Books, BooksOnly
<1> QED
  BY <1>1, <1>4, <1>5 DEF Books

LEMMA RetireBookedRefused ==
  ASSUME NEW q \in Seq(0 .. NumS), q # <<>>, Head(q) = Sink, NEW E, NEW e \in Seq(E), NEW d, NEW base,
         NEW top \in Nat, Books(q, e, d, base, top)
  PROVE  /\ e # <<>> /\ Head(e) = base + 1 /\ base + 1 \in base + 1 .. top
         /\ Books(Tail(q), Tail(e), d, base + 1, top)
<1>1. /\ base + 1 \in Nat /\ top = (base + 1) + Len(Tail(q)) /\ base + 1 \in base + 1 .. top
      /\ BooksTargets(Tail(q), d, base + 1) /\ d[base + 1].dst = Sink /\ base \in Nat
  BY RetireAny DEF Books
<1>2. PICK k \in 1 .. Len(e) : e[k] = base + 1
  BY <1>1 DEF Books, BooksRefused
<1>3. /\ e # <<>> /\ Len(e) \in Nat
  BY <1>2
<1>4. /\ Tail(e) \in Seq(E) /\ Head(e) = e[1]
      /\ Len(Tail(e)) = Len(e) - 1 /\ 1 \in 1 .. Len(e)
      /\ \A i \in 1 .. Len(e) - 1 : Tail(e)[i] = e[i + 1] /\ i + 1 \in 1 .. Len(e)
  BY <1>3, TailFacts
<1>5. \A i \in 1 .. Len(e) :
        /\ e[i] \in base + 1 .. top /\ d[e[i]].dst = Sink
        /\ \A j \in 1 .. Len(e) : j < i => e[j] < e[i]
  BY DEF Books, BooksOnly
<1>6. e[1] = base + 1
  <2>1. e[1] \in base + 1 .. top /\ (1 < k => e[1] < e[k])
    BY <1>4, <1>5
  <2>2. k = 1 \/ 1 < k
    BY <1>3
  <2> QED
    BY <1>1, <1>2, <2>1, <2>2
<1>7. BooksRefused(Tail(e), d, base + 1, top)
  <2> SUFFICES ASSUME NEW n \in (base + 1) + 1 .. top, d[n].dst = Sink
               PROVE  \E i \in 1 .. Len(Tail(e)) : Tail(e)[i] = n
    BY DEF BooksRefused
  <2>1. n \in base + 1 .. top /\ n # base + 1
    BY <1>1
  <2>2. PICK i \in 1 .. Len(e) : e[i] = n
    BY <2>1 DEF Books, BooksRefused
  <2>3. i # 1
    BY <1>6, <2>1, <2>2
  <2>4. i - 1 \in 1 .. Len(Tail(e)) /\ (i - 1) + 1 = i
    BY <1>3, <1>4, <2>3
  <2> QED
    BY <1>4, <2>2, <2>4
<1>8. BooksOnly(Tail(e), d, base + 1, top)
  <2> SUFFICES ASSUME NEW i \in 1 .. Len(Tail(e))
               PROVE  /\ Tail(e)[i] \in (base + 1) + 1 .. top /\ d[Tail(e)[i]].dst = Sink
                      /\ \A j \in 1 .. Len(Tail(e)) : j < i => Tail(e)[j] < Tail(e)[i]
    BY DEF BooksOnly
  <2>1. i + 1 \in 1 .. Len(e) /\ Tail(e)[i] = e[i + 1] /\ 1 < i + 1
    BY <1>3, <1>4
  <2>2. e[i + 1] \in base + 1 .. top /\ e[1] < e[i + 1] /\ d[e[i + 1]].dst = Sink
    BY <1>4, <1>5, <2>1
  <2>3. e[i + 1] \in (base + 1) + 1 .. top
    BY <1>1, <1>6, <2>2
  <2>4. ASSUME NEW j \in 1 .. Len(Tail(e)), j < i PROVE Tail(e)[j] < Tail(e)[i]
    <3>1. j + 1 \in 1 .. Len(e) /\ j + 1 < i + 1 /\ Tail(e)[j] = e[j + 1]
      BY <1>3, <1>4, <2>4
    <3> QED
      BY <1>5, <2>1, <3>1
  <2> QED
    BY <2>1, <2>2, <2>3, <2>4
<1> QED
  BY <1>1, <1>3, <1>4, <1>6, <1>7, <1>8 DEF Books

\* More bursts issued at the end change none of the books.
LEMMA BooksGrow ==
  ASSUME NEW q, NEW e, NEW d, NEW base, NEW top \in Nat, Books(q, e, d, base, top), Len(q) \in Nat,
         NEW f, \A n \in 1 .. top : f[n] = d[n]
  PROVE  Books(q, e, f, base, top)
<1>1. base \in Nat /\ top = base + Len(q)
  BY DEF Books
<1>2. /\ \A i \in 1 .. Len(q) : base + i \in 1 .. top
      /\ \A n \in base + 1 .. top : n \in 1 .. top
  BY <1>1
<1>3. BooksTargets(q, f, base)
  BY <1>2 DEF Books, BooksTargets
<1>4. BooksRefused(e, f, base, top)
  BY <1>2 DEF Books, BooksRefused
<1>5. BooksOnly(e, f, base, top)
  BY <1>2 DEF Books, BooksOnly
<1> QED
  BY <1>1, <1>3, <1>4, <1>5 DEF Books

\* What Routing says of the books, and how to conclude it.
LEMMA RoutingBooks ==
  ASSUME Routing, NEW m \in Masters
  PROVE  /\ Booked(m) /\ wDone[m] <= Retired(m) /\ awDone[m] <= Len(burst[m])
         /\ wDone[m] \in Nat /\ awDone[m] \in Nat /\ Retired(m) \in Nat /\ Len(burst[m]) \in Nat
         /\ masterWTargets[m] \in Seq(0 .. NumS) /\ errAwid[m] \in Seq(1 .. MaxBursts)
         /\ Retired(m) <= awDone[m] /\ awDone[m] = Retired(m) + Len(masterWTargets[m])
<1>1. /\ wDone[m] \in Nat /\ awDone[m] \in Nat /\ burst[m] \in Seq(Shapes)
      /\ masterWTargets[m] \in Seq(0 .. NumS) /\ errAwid[m] \in Seq(1 .. MaxBursts)
  BY DEF Routing, TypeOK
<1>2. wDone[m] <= Retired(m) /\ awDone[m] <= Len(burst[m])
  BY DEF Routing, CountersOrdered
<1>3. Len(masterWTargets[m]) \in Nat /\ Len(burst[m]) \in Nat
  BY <1>1
<1>4. Retired(m) \in Nat /\ Retired(m) <= awDone[m] /\ awDone[m] = Retired(m) + Len(masterWTargets[m])
  BY <1>1, <1>2, <1>3 DEF Retired
<1>5. BooksTargets(masterWTargets[m], burst[m], Retired(m))
  BY DEF Routing, TargetsMatch, BooksTargets
<1>6. BooksRefused(errAwid[m], burst[m], Retired(m), awDone[m])
  BY DEF Routing, ErrBooked, BooksRefused
<1>7. BooksOnly(errAwid[m], burst[m], Retired(m), awDone[m])
  BY DEF Routing, ErrBooked, BooksOnly
<1>8. Booked(m)
  BY <1>4, <1>5, <1>6, <1>7 DEF Booked, Books
<1> QED
  BY <1>1, <1>2, <1>3, <1>4, <1>8

LEMMA BooksRouting ==
  ASSUME \A m \in Masters : Booked(m)'
  PROVE  TargetsMatch' /\ ErrBooked'
<1>1. TargetsMatch'
  BY DEF Booked, Books, BooksTargets, TargetsMatch
<1>2. ErrBooked'
  BY DEF Booked, Books, BooksRefused, BooksOnly, ErrBooked
<1> QED
  BY <1>1, <1>2


LEMMA BookedKept ==
  ASSUME NEW x, Booked(x), burst'[x] = burst[x], awDone'[x] = awDone[x],
         masterWTargets'[x] = masterWTargets[x], errAwid'[x] = errAwid[x]
  PROVE  Booked(x)' /\ Retired(x)' = Retired(x)
BY DEF Booked, Retired

\* A step changes the books of m only.
LEMMA BooksOf ==
  ASSUME Routing, NEW m \in Masters, Booked(m)', wDone'[m] <= Retired(m)',
         awDone'[m] <= Len(burst'[m]),
         \A x \in Masters : x # m => /\ burst'[x] = burst[x] /\ awDone'[x] = awDone[x]
                                     /\ masterWTargets'[x] = masterWTargets[x]
                                     /\ errAwid'[x] = errAwid[x] /\ wDone'[x] = wDone[x]
  PROVE  CountersOrdered' /\ TargetsMatch' /\ ErrBooked'
<1>1. ASSUME NEW x \in Masters
      PROVE  Booked(x)' /\ wDone'[x] <= Retired(x)' /\ awDone'[x] <= Len(burst'[x])
  <2>1. CASE x = m
    BY <2>1
  <2>2. CASE x # m
    BY <2>2, RoutingBooks, BookedKept
  <2> QED
    BY <2>1, <2>2
<1>2. TargetsMatch' /\ ErrBooked'
  BY <1>1, BooksRouting
<1>3. CountersOrdered'
  BY <1>1 DEF CountersOrdered
<1> QED
  BY <1>2, <1>3

\* Steps that touch neither the burst counters nor the address booking keep
\* the invariants about them; the same for the requests in flight and for the
\* responses being routed.
LEMMA BookingFrame ==
  ASSUME Routing, burst' = burst, awDone' = awDone, wDone' = wDone,
         masterWTargets' = masterWTargets, errAwid' = errAwid
  PROVE  CountersOrdered' /\ TargetsMatch' /\ ErrBooked'
<1>1. CountersOrdered'
  BY DEF Routing, CountersOrdered, Retired
<1>2. TargetsMatch'
  BY DEF Routing, TargetsMatch, Retired
<1>3. ErrBooked'
  BY DEF Routing, ErrBooked, Retired
<1> QED
  BY <1>1, <1>2, <1>3


LEMMA RefsFrame ==
  ASSUME Routing, burst' = burst, awWire' = awWire, commit' = commit,
         awQ' = awQ, bQ' = bQ, errB' = errB
  PROVE  RefsIssued'
<1>1. \A r : Issued(r)' <=> Issued(r)
  BY DEF Issued
<1> QED
  BY <1>1 DEF Routing, RefsIssued

LEMMA ResponseFrame ==
  ASSUME Routing, burst' = burst, bUp' = bUp, bQ' = bQ, bPc' = bPc,
         bSrc' = bSrc, bNum' = bNum, writeOrder' = writeOrder
  PROVE  BRouted'
BY DEF Routing, BRouted

\* The second loop of w_advance on targets q: the books stay right, and a refused
\* burst that heads them is named in the response it books.
LEMMA RefusedRetired ==
  ASSUME Routing, NEW m \in Masters, NEW q \in Seq(0 .. NumS), NEW base,
         Books(q, errAwid[m], burst[m], base, awDone[m]), RetireRefused(m, q),
         UNCHANGED <<burst, awDone>>
  PROVE  /\ Booked(m)' /\ base \in Nat
         /\ Retired(m)' = IF q # <<>> /\ Head(q) = Sink THEN base + 1 ELSE base
         /\ \A x \in Masters : x # m => /\ masterWTargets'[x] = masterWTargets[x]
                                        /\ errAwid'[x] = errAwid[x]
         /\ masterWTargets' \in [Masters -> Seq(0 .. NumS)]
         /\ errAwid' \in [Masters -> Seq(1 .. MaxBursts)]
         /\ errB' \in Seq(Ref) /\ \A k \in 1 .. Len(errB') : Issued(errB'[k])
<1>t. /\ masterWTargets \in [Masters -> Seq(0 .. NumS)]
      /\ errAwid \in [Masters -> Seq(1 .. MaxBursts)] /\ errB \in Seq(Ref)
      /\ awDone[m] \in Nat /\ Len(burst[m]) \in Nat /\ awDone[m] <= Len(burst[m])
      /\ errAwid[m] \in Seq(1 .. MaxBursts)
  BY DEF Routing, TypeOK, CountersOrdered
<1>i. \A k \in 1 .. Len(errB) : Issued(errB[k])
  BY DEF Routing, RefsIssued
<1>b. base \in Nat /\ awDone[m] = base + Len(q) /\ Len(q) \in Nat
  BY DEF Books
<1>1. CASE ~(q # <<>> /\ Head(q) = Sink)
  <2>1. /\ masterWTargets' = [masterWTargets EXCEPT ![m] = q] /\ errAwid' = errAwid /\ errB' = errB
    BY <1>1 DEF RetireRefused
  <2>2. /\ masterWTargets' \in [Masters -> Seq(0 .. NumS)] /\ masterWTargets'[m] = q
        /\ \A x \in Masters : x # m => masterWTargets'[x] = masterWTargets[x]
    BY <2>1, <1>t
  <2>3. Retired(m)' = base
    BY <2>2, <1>b, <1>t DEF Retired
  <2>4. Booked(m)'
    BY <2>1, <2>2, <2>3 DEF Booked
  <2>5. \A k \in 1 .. Len(errB') : Issued(errB'[k])
    BY <1>i, <2>1
  <2> QED
    BY <2>1, <2>2, <2>3, <2>4, <2>5, <1>1, <1>b, <1>t
<1>2. CASE q # <<>> /\ Head(q) = Sink
  <2>1. /\ masterWTargets' = [masterWTargets EXCEPT ![m] = Tail(q)]
        /\ errAwid' = [errAwid EXCEPT ![m] = Tail(@)]
        /\ errB' = Append(errB, <<m, Head(errAwid[m])>>)
    BY <1>2 DEF RetireRefused
  <2>2. /\ errAwid[m] # <<>> /\ Head(errAwid[m]) = base + 1 /\ base + 1 \in base + 1 .. awDone[m]
        /\ Books(Tail(q), Tail(errAwid[m]), burst[m], base + 1, awDone[m])
    BY <1>2, <1>t, RetireBookedRefused
  <2>3. /\ Tail(q) \in Seq(0 .. NumS) /\ Len(Tail(q)) = Len(q) - 1
        /\ Tail(errAwid[m]) \in Seq(1 .. MaxBursts) /\ Head(errAwid[m]) \in 1 .. MaxBursts
    BY <1>2, <1>t, <2>2, TailFacts
  <2>4. /\ masterWTargets' \in [Masters -> Seq(0 .. NumS)] /\ masterWTargets'[m] = Tail(q)
        /\ \A x \in Masters : x # m => masterWTargets'[x] = masterWTargets[x]
    BY <2>1, <2>3, <1>t
  <2>5. /\ errAwid' \in [Masters -> Seq(1 .. MaxBursts)] /\ errAwid'[m] = Tail(errAwid[m])
        /\ \A x \in Masters : x # m => errAwid'[x] = errAwid[x]
    BY <2>1, <2>3, <1>t
  <2>6. Retired(m)' = base + 1
    BY <2>3, <2>4, <1>b, <1>t DEF Retired
  <2>7. Booked(m)'
    BY <2>2, <2>4, <2>5, <2>6 DEF Booked
  <2>8. <<m, Head(errAwid[m])>> \in Ref
    BY <2>3 DEF Ref
  <2>9. Issued(<<m, Head(errAwid[m])>>)
    <3>1. Head(errAwid[m]) <= Len(burst[m])
      BY <2>2, <1>b, <1>t
    <3> QED
      BY <2>8, <3>1 DEF Issued
  <2>10. errB' \in Seq(Ref) /\ \A k \in 1 .. Len(errB') : Issued(errB'[k])
    <3>1. /\ Len(Append(errB, <<m, Head(errAwid[m])>>)) = Len(errB) + 1
          /\ Append(errB, <<m, Head(errAwid[m])>>) \in Seq(Ref)
          /\ \A i \in 1 .. Len(errB) : Append(errB, <<m, Head(errAwid[m])>>)[i] = errB[i]
          /\ Append(errB, <<m, Head(errAwid[m])>>)[Len(errB) + 1] = <<m, Head(errAwid[m])>>
          /\ \A i \in 1 .. Len(errB) + 1 : i \in 1 .. Len(errB) \/ i = Len(errB) + 1
      BY <2>8, <1>t, AppendFacts
    <3>2. errB' \in Seq(Ref) /\ Len(errB') = Len(errB) + 1
      BY <2>1, <3>1
    <3>3. \A i \in 1 .. Len(errB) : errB'[i] = errB[i]
      BY <2>1, <3>1
    <3>4. errB'[Len(errB) + 1] = <<m, Head(errAwid[m])>>
      BY <2>1, <3>1
    <3>5. \A b : Issued(b) => Issued(b)'
      BY DEF Issued
    <3>6. ASSUME NEW k \in 1 .. Len(errB') PROVE Issued(errB'[k])
      <4>1. k \in 1 .. Len(errB) \/ k = Len(errB) + 1
        BY <3>1, <3>2
      <4> QED
        BY <4>1, <3>3, <3>4, <2>9, <1>i
    <3> QED
      BY <3>2, <3>6
  <2> QED
    BY <2>4, <2>5, <2>6, <2>7, <2>10, <1>2, <1>b
<1> QED
  BY <1>1, <1>2

\* The master's counters at a beat.
LEMMA SendFacts ==
  ASSUME Routing, NEW m \in Masters, SendBeat(m)
  PROVE  /\ \A x \in Masters : x # m => wDone'[x] = wDone[x] /\ wBeat'[x] = wBeat[x]
         /\ WLast(m) => wDone'[m] = wDone[m] + 1 /\ wBeat'[m] = 0
         /\ ~WLast(m) => wDone'[m] = wDone[m] /\ wBeat'[m] = wBeat[m] + 1
         /\ wDone' \in [Masters -> Nat] /\ wBeat' \in [Masters -> Nat]
<1>t. wDone \in [Masters -> Nat] /\ wBeat \in [Masters -> Nat]
  BY DEF Routing, TypeOK
<1>1. CASE WLast(m)
  <2>1. wDone' = [wDone EXCEPT ![m] = wDone[m] + 1] /\ wBeat' = [wBeat EXCEPT ![m] = 0]
    BY <1>1 DEF SendBeat
  <2>2. wDone[m] + 1 \in Nat
    BY <1>t
  <2> QED
    BY <1>1, <1>t, <2>1, <2>2
<1>2. CASE ~WLast(m)
  <2>1. wBeat' = [wBeat EXCEPT ![m] = wBeat[m] + 1] /\ wDone' = wDone
    BY <1>2 DEF SendBeat
  <2>2. wBeat[m] + 1 \in Nat
    BY <1>t
  <2> QED
    BY <1>2, <1>t, <2>1, <2>2
<1> QED
  BY <1>1, <1>2

\* What the two loops of w_advance do at a WLAST handshake of m, or their absence
\* at any other beat, keeps the books.
LEMMA BooksAtLastBeat ==
  ASSUME Routing, NEW m \in Masters, masterWTargets[m] # <<>>, SendBeat(m), WLast(m),
         UNCHANGED <<burst, awDone>>,
         \/ Head(masterWTargets[m]) = Sink /\ RetireRefused(m, masterWTargets[m])
         \/ Head(masterWTargets[m]) # Sink /\ RetireRefused(m, Tail(masterWTargets[m]))
  PROVE  /\ CountersOrdered' /\ TargetsMatch' /\ ErrBooked'
         /\ masterWTargets' \in [Masters -> Seq(0 .. NumS)]
         /\ errAwid' \in [Masters -> Seq(1 .. MaxBursts)]
         /\ errB' \in Seq(Ref) /\ \A k \in 1 .. Len(errB') : Issued(errB'[k])
         /\ Head(masterWTargets[m]) = Sink => Retired(m)' = Retired(m) + 1
         /\ Retired(m)' \in {Retired(m) + 1, Retired(m) + 2}
         /\ Retired(m)' = Retired(m) + 2 => burst[m][Retired(m) + 2].dst = Sink
         /\ \A x \in Masters : x # m => /\ masterWTargets'[x] = masterWTargets[x]
                                        /\ errAwid'[x] = errAwid[x]
<1> DEFINE q == masterWTargets[m]
           p == IF Head(q) = Sink THEN q ELSE Tail(q)
           base == IF Head(q) = Sink THEN Retired(m) ELSE Retired(m) + 1
<1>1. /\ Books(q, errAwid[m], burst[m], Retired(m), awDone[m]) /\ q \in Seq(0 .. NumS)
      /\ errAwid[m] \in Seq(1 .. MaxBursts) /\ awDone[m] \in Nat /\ Retired(m) \in Nat
      /\ wDone[m] \in Nat /\ wDone[m] <= Retired(m) /\ awDone[m] <= Len(burst[m])
  BY RoutingBooks DEF Booked
<1>2. Tail(q) \in Seq(0 .. NumS) /\ p \in Seq(0 .. NumS)
  BY <1>1, TailFacts
<1>3. Books(p, errAwid[m], burst[m], base, awDone[m])
  <2>1. CASE Head(q) = Sink
    BY <2>1, <1>1
  <2>2. CASE Head(q) # Sink
    BY <2>2, <1>1, RetireBooked
  <2> QED
    BY <2>1, <2>2
<1>4. RetireRefused(m, p)
  OBVIOUS
<1>5. wDone[m] + 1 <= (IF p # <<>> /\ Head(p) = Sink THEN base + 1 ELSE base)
  BY <1>1
<1>a. /\ base + 1 \in {Retired(m) + 1, Retired(m) + 2}
      /\ base = Retired(m) + 1 \/ (p # <<>> /\ Head(p) = Sink)
      /\ Head(q) = Sink => base = Retired(m) /\ p # <<>> /\ Head(p) = Sink
  BY <1>1
<1> HIDE DEF p, base
<1>6. /\ Booked(m)'
      /\ Retired(m)' = IF p # <<>> /\ Head(p) = Sink THEN base + 1 ELSE base
      /\ \A x \in Masters : x # m => /\ masterWTargets'[x] = masterWTargets[x]
                                     /\ errAwid'[x] = errAwid[x]
      /\ masterWTargets' \in [Masters -> Seq(0 .. NumS)]
      /\ errAwid' \in [Masters -> Seq(1 .. MaxBursts)]
      /\ errB' \in Seq(Ref) /\ \A k \in 1 .. Len(errB') : Issued(errB'[k])
  BY <1>2, <1>3, <1>4, RefusedRetired
<1>7. wDone'[m] = wDone[m] + 1 /\ \A x \in Masters : x # m => wDone'[x] = wDone[x]
  BY SendFacts
<1>8. wDone'[m] <= Retired(m)'
  BY <1>5, <1>6, <1>7
<1>9. CountersOrdered' /\ TargetsMatch' /\ ErrBooked'
  BY <1>1, <1>6, <1>7, <1>8, BooksOf
<1>10. /\ Head(q) = Sink => Retired(m)' = Retired(m) + 1
       /\ Retired(m)' \in {Retired(m) + 1, Retired(m) + 2}
  BY <1>1, <1>6, <1>a
<1>11. Retired(m)' = Retired(m) + 2 => burst[m][Retired(m) + 2].dst = Sink
  <2> SUFFICES ASSUME Retired(m)' = Retired(m) + 2 PROVE burst[m][Retired(m) + 2].dst = Sink
    OBVIOUS
  <2>1. p # <<>> /\ Head(p) = Sink /\ base + 1 = Retired(m) + 2
    BY <1>1, <1>6, <1>a
  <2>2. Head(p) = burst[m][base + 1].dst
    <3>1. awDone[m] \in Nat /\ p \in Seq(0 .. NumS) /\ p # <<>>
      BY <1>1, <1>2, <2>1
    <3> HIDE DEF q
    <3> QED
      BY <1>3, <3>1, RetireAny, SMT
  <2> QED
    BY <2>1, <2>2
<1> QED
  BY <1>6, <1>9, <1>10, <1>11


LEMMA InitRouting == Init => Routing
<1> SUFFICES ASSUME Init PROVE Routing
  OBVIOUS
<1>1. TypeOK
  BY SinkNotSlave, BusWriteAssumption DEF TypeOK, Init
<1>2. CountersOrdered /\ TargetsMatch /\ ErrBooked /\ RefsIssued /\ BRouted
  BY DEF Retired, CountersOrdered, TargetsMatch, ErrBooked, RefsIssued, BRouted, Init
<1> QED
  BY <1>1, <1>2 DEF Routing

LEMMA IssueWriteRouting ==
  ASSUME Routing, NEW m \in Masters, NEW b \in Shapes, IssueWrite(m, b) PROVE Routing'
<1>t. TypeOK /\ burst \in [Masters -> Seq(Shapes)]
  BY DEF TypeOK, Routing
<1>0. /\ burst' \in [Masters -> Seq(Shapes)]
      /\ burst'[m] = Append(burst[m], b)
      /\ \A x \in Masters : x # m => burst'[x] = burst[x]
  BY <1>t DEF IssueWrite
<1>b. \A x \in Masters : Len(burst[x]) \in Nat /\ Len(burst[x]) <= MaxBursts
  BY <1>t DEF TypeOK
<1>c. Len(burst'[m]) = Len(burst[m]) + 1 /\ Len(burst'[m]) <= MaxBursts
  BY <1>t, <1>0, <1>b, BusWriteAssumption DEF IssueWrite
<1>d. \A n \in 1 .. Len(burst[m]) : burst'[m][n] = burst[m][n]
  BY <1>t, <1>0
<1>a. \A x \in Masters :
        /\ Len(burst[x]) <= Len(burst'[x]) /\ Len(burst'[x]) <= MaxBursts
        /\ \A n \in 1 .. Len(burst[x]) : burst'[x][n] = burst[x][n]
  <2> TAKE x \in Masters
  <2>1. CASE x = m
    BY <2>1, <1>b, <1>c, <1>d
  <2>2. CASE x # m
    <3>1. burst'[x] = burst[x]
      BY <2>2, <1>0
    <3> QED
      BY <3>1, <1>b
  <2> QED
    BY <2>1, <2>2
<1>i. idOrder' \in [Masters -> [Ids -> Seq(1..MaxBursts)]]
  <2>1. Len(burst[m]) + 1 \in 1 .. MaxBursts
    BY <1>t, <1>b, <1>c, BusWriteAssumption
  <2>2. b.id \in Ids
    BY BusWriteAssumption
  <2>3. idOrder \in [Masters -> [Ids -> Seq(1..MaxBursts)]]
    BY <1>t DEF TypeOK
  <2>4. idOrder' = [idOrder EXCEPT ![m][b.id] = Append(@, Len(burst[m]) + 1)]
    BY DEF IssueWrite
  <2>5. Append(idOrder[m][b.id], Len(burst[m]) + 1) \in Seq(1..MaxBursts)
    BY <2>1, <2>2, <2>3
  <2> QED
    BY <2>2, <2>3, <2>4, <2>5
<1>1. TypeOK'
  BY <1>t, <1>0, <1>a, <1>i DEF TypeOK, IssueWrite, busVars, slaveVars
<1>n. UNCHANGED <<awDone, wDone, masterWTargets, errAwid>>
  BY DEF IssueWrite, busVars
<1>2. \A x \in Masters : Booked(x)' /\ Retired(x)' = Retired(x)
  <2> TAKE x \in Masters
  <2>1. /\ Booked(x) /\ awDone[x] \in Nat /\ awDone[x] <= Len(burst[x])
        /\ masterWTargets[x] \in Seq(0 .. NumS)
    BY RoutingBooks
  <2>2. \A k \in 1 .. awDone[x] : burst'[x][k] = burst[x][k]
    BY <2>1, <1>a, <1>b
  <2>3. Len(masterWTargets[x]) \in Nat
    BY <2>1
  <2>4. Retired(x)' = Retired(x)
    BY <1>n DEF Retired
  <2>5. Books(masterWTargets[x], errAwid[x], burst'[x], Retired(x), awDone[x])
    BY <2>1, <2>2, <2>3, BooksGrow DEF Booked
  <2> QED
    BY <2>4, <2>5, <1>n DEF Booked
<1>3. TargetsMatch' /\ ErrBooked'
  BY <1>2, BooksRouting
<1>4. CountersOrdered'
  <2>1. \A x \in Masters : wDone[x] <= Retired(x) /\ awDone[x] <= Len(burst[x]) /\ awDone[x] \in Nat
    BY RoutingBooks
  <2>2. \A x \in Masters : awDone[x] <= Len(burst'[x])
    <3> TAKE x \in Masters
    <3>1. Len(burst'[x]) \in Nat
      BY <1>0
    <3> QED
      BY <2>1, <3>1, <1>a, <1>b
  <2> QED
    BY <2>1, <2>2, <1>2, <1>n DEF CountersOrdered
<1>5. RefsIssued'
  <2>1. \A r : Issued(r) => Issued(r)'
    BY <1>a, <1>b DEF Issued, Ref
  <2> QED
    BY <2>1 DEF RefsIssued, Routing, IssueWrite, busVars, slaveVars
<1>6. BRouted'
  <2>1. \A x \in Masters : Len(burst'[x]) \in Nat
    BY <1>0
  <2>2. \A x \in Masters : \A n \in 1 .. Len(burst[x]) : n \in 1 .. Len(burst'[x])
    BY <2>1, <1>a, <1>b
  <2>3. UNCHANGED <<bUp, bQ, bPc, bSrc, bNum, writeOrder>>
    BY DEF IssueWrite, busVars, slaveVars
  <2> QED
    BY <2>2, <2>3 DEF BRouted, Routing
<1> QED
  BY <1>1, <1>2, <1>3, <1>4, <1>5, <1>6 DEF Routing

LEMMA ReleaseWriteRouting ==
  ASSUME Routing, NEW m \in Masters, ReleaseWrite(m) PROVE Routing'
<1>1. released' \in [Masters -> 0 .. MaxBursts]
  BY BusWriteAssumption DEF ReleaseWrite, Routing, TypeOK
<1>2. TypeOK'
  BY <1>1 DEF ReleaseWrite, Routing, TypeOK, busVars, slaveVars
<1>3. CountersOrdered' /\ TargetsMatch' /\ ErrBooked' /\ RefsIssued' /\ BRouted'
  BY BookingFrame, RefsFrame, ResponseFrame DEF ReleaseWrite, busVars, slaveVars
<1> QED
  BY <1>2, <1>3 DEF Routing

LEMMA AwDecerrRouting ==
  ASSUME Routing, NEW m \in Masters, AwDecerr(m) PROVE Routing'
<1> DEFINE n == awDone[m] + 1
<1>t. /\ awDone \in [Masters -> Nat] /\ burst \in [Masters -> Seq(Shapes)]
      /\ masterWTargets \in [Masters -> Seq(0 .. NumS)] /\ errAwid \in [Masters -> Seq(1 .. MaxBursts)]
      /\ \A x \in Masters : Len(burst[x]) \in Nat /\ Len(burst[x]) <= MaxBursts
  BY DEF TypeOK, Routing
<1>n. n \in 1 .. MaxBursts /\ n <= Len(burst[m]) /\ burst[m][n].dst = Sink /\ n = awDone[m] + 1
  <2>1. awDone[m] < Len(burst[m]) /\ burst[m][n].dst = Sink
    BY DEF AwDecerr, AwPending
  <2>2. awDone[m] \in Nat /\ Len(burst[m]) \in Nat /\ Len(burst[m]) <= MaxBursts /\ MaxBursts \in Nat
    BY <1>t, BusWriteAssumption
  <2> QED
    BY <2>1, <2>2
<1>0. /\ awDone' = [awDone EXCEPT ![m] = n]
      /\ masterWTargets' = [masterWTargets EXCEPT ![m] = Append(@, Sink)]
      /\ errAwid' = [errAwid EXCEPT ![m] = Append(@, n)]
      /\ UNCHANGED <<burst, wDone, wBeat, idOrder, answered, released, wOrder,
                     writeOrder, errB, awWire, bPc, bSrc, bNum, slaveVars>>
  BY DEF AwDecerr
<1> HIDE DEF n
<1>m. /\ awDone'[m] = n /\ masterWTargets'[m] = Append(masterWTargets[m], Sink)
      /\ errAwid'[m] = Append(errAwid[m], n)
      /\ \A x \in Masters : x # m => /\ awDone'[x] = awDone[x]
                                     /\ masterWTargets'[x] = masterWTargets[x]
                                     /\ errAwid'[x] = errAwid[x]
      /\ Append(masterWTargets[m], Sink) \in Seq(0 .. NumS)
      /\ Append(errAwid[m], n) \in Seq(1 .. MaxBursts)
      /\ Len(Append(masterWTargets[m], Sink)) = Len(masterWTargets[m]) + 1
      /\ Len(masterWTargets[m]) \in Nat
  BY <1>t, <1>n, <1>0, SinkNotSlave
<1>e. /\ awDone' \in [Masters -> Nat] /\ errAwid' \in [Masters -> Seq(1 .. MaxBursts)]
      /\ masterWTargets' \in [Masters -> Seq(0 .. NumS)]
  BY <1>t, <1>n, <1>0, <1>m
<1>1. TypeOK'
  BY <1>0, <1>e DEF TypeOK, Routing, slaveVars
<1>2. Retired(m)' = Retired(m)
  <2>1. /\ awDone[m] \in Nat /\ awDone'[m] = awDone[m] + 1
        /\ Len(masterWTargets[m]) \in Nat
        /\ Len(masterWTargets'[m]) = Len(masterWTargets[m]) + 1
    BY <1>m, <1>n, <1>t
  <2>2. awDone'[m] - Len(masterWTargets'[m]) = awDone[m] - Len(masterWTargets[m])
    BY <2>1
  <2> QED
    BY <2>2 DEF Retired
<1>b. /\ Books(masterWTargets[m], errAwid[m], burst[m], Retired(m), awDone[m])
      /\ wDone[m] <= Retired(m)
  BY RoutingBooks DEF Booked
<1>3. Books(Append(masterWTargets[m], Sink), Append(errAwid[m], awDone[m] + 1), burst[m],
            Retired(m), awDone[m] + 1)
  <2>1. /\ masterWTargets[m] \in Seq(0 .. NumS) /\ errAwid[m] \in Seq(1 .. MaxBursts)
        /\ awDone[m] \in Nat /\ burst[m][awDone[m] + 1].dst = Sink /\ awDone[m] + 1 \in 1 .. MaxBursts
    BY <1>t, <1>n
  <2> QED
    BY <2>1, <1>b, BookRefused
<1>4. Booked(m)'
  BY <1>0, <1>m, <1>n, <1>2, <1>3 DEF Booked
<1>5. wDone'[m] <= Retired(m)' /\ awDone'[m] <= Len(burst'[m])
  BY <1>0, <1>m, <1>n, <1>2, <1>b
<1>6. \A x \in Masters : x # m => /\ burst'[x] = burst[x] /\ awDone'[x] = awDone[x]
                                  /\ masterWTargets'[x] = masterWTargets[x]
                                  /\ errAwid'[x] = errAwid[x] /\ wDone'[x] = wDone[x]
  BY <1>0, <1>m
<1>7. CountersOrdered' /\ TargetsMatch' /\ ErrBooked'
  BY <1>4, <1>5, <1>6, BooksOf
<1>8. RefsIssued' /\ BRouted'
  BY <1>0 DEF RefsIssued, Issued, BRouted, Routing, slaveVars
<1> QED
  BY <1>1, <1>7, <1>8 DEF Routing

LEMMA AwForwardRouting ==
  ASSUME Routing, NEW m \in Masters, AwForward(m) PROVE Routing'
<1> DEFINE n == awDone[m] + 1
           s == burst[m][n].dst
<1>t. /\ awDone \in [Masters -> Nat] /\ burst \in [Masters -> Seq(Shapes)]
      /\ awWire \in [Slaves -> Ref \cup {None}]
      /\ wOrder \in [Slaves -> Seq(Masters)] /\ writeOrder \in [Slaves -> Seq(Masters)]
  BY DEF TypeOK, Routing
<1>l. \A x \in Masters : Len(burst[x]) \in Nat /\ Len(burst[x]) <= MaxBursts
  BY <1>t DEF TypeOK, Routing
<1>n. n \in 1 .. MaxBursts /\ n \in 1 .. Len(burst[m])
  <2>1. awDone[m] < Len(burst[m])
    BY DEF AwForward, AwPending
  <2>2. awDone[m] \in Nat /\ Len(burst[m]) \in Nat /\ Len(burst[m]) <= MaxBursts /\ MaxBursts \in Nat
    BY <1>t, <1>l, BusWriteAssumption
  <2> QED
    BY <2>1, <2>2
<1>s. s \in Slaves
  <2>1. burst[m][n] \in Shapes
    BY <1>n, <1>t
  <2> QED
    BY <2>1, BusWriteAssumption, SinkNotSlave DEF AwForward
<1>0. /\ awDone' = [awDone EXCEPT ![m] = @ + 1]
      /\ awWire' = [awWire EXCEPT ![s] = <<m, n>>]
      /\ masterWTargets' = [masterWTargets EXCEPT ![m] = Append(@, burst[m][awDone[m] + 1].dst)]
      /\ writeOrder' = [writeOrder EXCEPT ![s] = Append(@, m)]
      /\ wOrder' = [wOrder EXCEPT ![s] = Append(@, m)]
      /\ UNCHANGED <<burst, wDone, wBeat, idOrder, answered, released, errAwid,
                     errB, bPc, bSrc, bNum, slaveVars>>
  BY <1>t, SMTT(30) DEF AwForward
<1>v. /\ masterWTargets \in [Masters -> Seq(0 .. NumS)] /\ s \in 0 .. NumS
      /\ masterWTargets[m] \in Seq(0 .. NumS) /\ errAwid[m] \in Seq(1 .. MaxBursts)
  BY <1>s, SinkNotSlave DEF TypeOK, Routing
<1>r. <<m, n>> \in Ref
  BY <1>n DEF Ref
<1>d. n = awDone[m] + 1 /\ s = burst[m][n].dst /\ s # Sink
  BY DEF AwForward
<1> HIDE DEF n, s
<1>m. /\ awDone'[m] = awDone[m] + 1 /\ masterWTargets'[m] = Append(masterWTargets[m], s)
      /\ \A x \in Masters : x # m => /\ awDone'[x] = awDone[x]
                                     /\ masterWTargets'[x] = masterWTargets[x]
      /\ Append(masterWTargets[m], s) \in Seq(0 .. NumS)
      /\ Len(Append(masterWTargets[m], s)) = Len(masterWTargets[m]) + 1
      /\ Len(masterWTargets[m]) \in Nat /\ awDone[m] \in Nat
  BY <1>t, <1>v, <1>d, <1>0
<1>b. awDone' \in [Masters -> Nat] /\ masterWTargets' \in [Masters -> Seq(0 .. NumS)]
  BY <1>t, <1>v, <1>d, <1>0, <1>m
<1>w. /\ awWire' \in [Slaves -> Ref \cup {None}]
      /\ wOrder' \in [Slaves -> Seq(Masters)] /\ writeOrder' \in [Slaves -> Seq(Masters)]
  BY <1>0, <1>t, <1>s, <1>r
<1>1. TypeOK'
  BY <1>0, <1>b, <1>w DEF TypeOK, Routing, slaveVars
<1>2. CountersOrdered' /\ TargetsMatch' /\ ErrBooked'
  <2>1. Retired(m)' = Retired(m)
    BY <1>m DEF Retired
  <2>2. /\ Books(masterWTargets[m], errAwid[m], burst[m], Retired(m), awDone[m])
        /\ wDone[m] <= Retired(m)
    BY RoutingBooks DEF Booked
  <2>3. Books(Append(masterWTargets[m], s), errAwid[m], burst[m], Retired(m), awDone[m] + 1)
    <3>1. burst[m][awDone[m] + 1].dst = s
      BY <1>d
    <3> QED
      BY <2>2, <3>1, <1>d, <1>m, <1>v, BookMapped
  <2>4. Booked(m)'
    BY <1>0, <1>m, <2>1, <2>3 DEF Booked
  <2>5. wDone'[m] <= Retired(m)' /\ awDone'[m] <= Len(burst'[m])
    BY <1>0, <1>m, <1>n, <1>d, <2>1, <2>2
  <2>6. \A x \in Masters : x # m => /\ burst'[x] = burst[x] /\ awDone'[x] = awDone[x]
                                    /\ masterWTargets'[x] = masterWTargets[x]
                                    /\ errAwid'[x] = errAwid[x] /\ wDone'[x] = wDone[x]
    BY <1>0, <1>m
  <2> QED
    BY <2>4, <2>5, <2>6, BooksOf
<1>3. RefsIssued'
  <2>1. Issued(<<m, n>>)
    BY <1>n, <1>r DEF Issued
  <2> QED
    BY <2>1, <1>0, <1>t, <1>s DEF RefsIssued, Issued, Routing, slaveVars
<1>4. BRouted'
  <2>1. \A x \in Slaves : writeOrder[x] # <<>> =>
          writeOrder'[x] # <<>> /\ Head(writeOrder'[x]) = Head(writeOrder[x])
    <3> TAKE x \in Slaves
    <3>1. writeOrder[x] \in Seq(Masters)
      BY <1>t
    <3>2. CASE x = s
      <4>1. writeOrder'[x] = Append(writeOrder[x], m)
        BY <3>2, <1>0, <1>t
      <4> QED
        BY <4>1, <3>1, AppendFacts
    <3>3. CASE x # s
      BY <3>3, <1>0, <1>t
    <3> QED
      BY <3>2, <3>3
  <2>2. \A x \in Masters : bSrc[x] # Sink => bSrc[x] \in Slaves
    BY SinkNotSlave DEF Routing, TypeOK
  <2> QED
    BY <2>1, <2>2, <1>0 DEF BRouted, Routing, slaveVars
<1> QED
  BY <1>1, <1>2, <1>3, <1>4 DEF Routing

LEMMA SlaveAwRouting ==
  ASSUME Routing, NEW s \in Slaves, SlaveAw(s) PROVE Routing'
<1>t. /\ awWire \in [Slaves -> Ref \cup {None}] /\ awQ \in [Slaves -> Seq(Ref)]
      /\ awWire[s] \in Ref /\ lost \in SUBSET Ref
  BY DEF TypeOK, Routing, SlaveAw
<1>0. /\ awWire' = [awWire EXCEPT ![s] = None]
      /\ \/ awQ' = [awQ EXCEPT ![s] = Append(@, awWire[s])] /\ lost' = lost
         \/ awQ' = awQ /\ lost' = lost \cup {awWire[s]}
      /\ UNCHANGED <<masterVars, masterWTargets, errAwid, wOrder, writeOrder, errB,
                     bPc, bSrc, bNum, received, commit, bQ, bUp>>
  BY DEF SlaveAw
<1>1. awWire' \in [Slaves -> Ref \cup {None}] /\ awQ' \in [Slaves -> Seq(Ref)] /\ lost' \in SUBSET Ref
  <2>1. awWire' \in [Slaves -> Ref \cup {None}]
    BY <1>t, <1>0
  <2>a. Append(awQ[s], awWire[s]) \in Seq(Ref)
    BY <1>t, AppendFacts
  <2>2. awQ' \in [Slaves -> Seq(Ref)]
    BY <2>a, <1>t, <1>0
  <2>3. lost' \in SUBSET Ref
    BY <1>t, <1>0
  <2> QED
    BY <2>1, <2>2, <2>3
<1>2. TypeOK'
  BY <1>0, <1>1 DEF TypeOK, Routing, masterVars
<1>3. CountersOrdered' /\ TargetsMatch' /\ ErrBooked' /\ BRouted'
  BY <1>0, BookingFrame, ResponseFrame DEF masterVars
<1>4. RefsIssued'
  <2>0. \A r : Issued(r) <=> Issued(r)'
    BY <1>0 DEF Issued, masterVars
  <2>1. Issued(awWire[s])
    BY <1>t, RefNotNone DEF RefsIssued, Routing, SlaveAw
  <2>2. \A k \in 1 .. Len(awQ'[s]) : Issued(awQ'[s][k])
    <3>1. \A k \in 1 .. Len(awQ[s]) : Issued(awQ[s][k])
      BY DEF RefsIssued, Routing
    <3>2. CASE awQ' = [awQ EXCEPT ![s] = Append(@, awWire[s])]
      <4>1. awQ'[s] = Append(awQ[s], awWire[s]) /\ awQ[s] \in Seq(Ref)
        BY <3>2, <1>t
      <4> QED
        BY <2>0, <2>1, <3>1, <4>1, <1>t, AppendFacts
    <3> QED
      BY <2>0, <1>0, <3>1, <3>2
  <2>3. \A x \in Slaves : x # s => awQ'[x] = awQ[x] /\ awWire'[x] = awWire[x]
    BY <1>0, <1>t
  <2>4. awWire'[s] = None
    BY <1>0, <1>t
  <2> QED
    BY <2>0, <2>1, <2>2, <2>3, <2>4, <1>0 DEF RefsIssued, Routing
<1> QED
  BY <1>2, <1>3, <1>4 DEF Routing

LEMMA StillBooked ==
  ASSUME Routing, UNCHANGED <<burst, awDone, wDone, masterWTargets, errAwid, errB>>
  PROVE  /\ CountersOrdered' /\ TargetsMatch' /\ ErrBooked'
         /\ masterWTargets' \in [Masters -> Seq(0 .. NumS)]
         /\ errAwid' \in [Masters -> Seq(1 .. MaxBursts)]
         /\ errB' \in Seq(Ref) /\ \A k \in 1 .. Len(errB') : Issued(errB'[k])
<1>1. CountersOrdered' /\ TargetsMatch' /\ ErrBooked'
  BY BookingFrame
<1>2. /\ masterWTargets' \in [Masters -> Seq(0 .. NumS)]
      /\ errAwid' \in [Masters -> Seq(1 .. MaxBursts)] /\ errB' \in Seq(Ref)
  BY DEF Routing, TypeOK
<1>3. \A k \in 1 .. Len(errB') : Issued(errB'[k])
  BY DEF Routing, RefsIssued, Issued
<1> QED
  BY <1>1, <1>2, <1>3

LEMMA WTransferRouting ==
  ASSUME Routing, NEW m \in Masters, NEW s \in Slaves, WTransfer(m, s) PROVE Routing'
<1> DEFINE op == Head(awQ[s])
           end == WLast(m) \/ received[s] + 1 = BurstOf(op).beats
<1>t. /\ awQ \in [Slaves -> Seq(Ref)] /\ wOrder \in [Slaves -> Seq(Masters)]
      /\ received \in [Slaves -> Nat] /\ commit \in [Slaves -> Ref \cup {None}]
      /\ awDone \in [Masters -> Nat] /\ wDone \in [Masters -> Nat]
  BY DEF TypeOK, Routing
<1>g. /\ wOrder[s] # <<>> /\ masterWTargets[m] # <<>> /\ Head(masterWTargets[m]) = s
      /\ awQ[s] # <<>> /\ SendBeat(m)
  BY DEF WTransfer, Serves, WReady
<1>0. /\ wOrder' = IF WLast(m) THEN [wOrder EXCEPT ![s] = Tail(@)] ELSE wOrder
      /\ received' = [received EXCEPT ![s] = IF end THEN 0 ELSE @ + 1]
      /\ awQ' = IF end THEN [awQ EXCEPT ![s] = Tail(@)] ELSE awQ
      /\ commit' = IF end THEN [commit EXCEPT ![s] = op] ELSE commit
      /\ UNCHANGED <<burst, awDone, idOrder, answered, released, writeOrder,
                     awWire, bPc, bSrc, bNum, bQ, bUp, lost>>
  BY DEF WTransfer, RetireMapped
<1> HIDE DEF end
<1>h. op \in Ref /\ Tail(awQ[s]) \in Seq(Ref) /\ Tail(wOrder[s]) \in Seq(Masters)
  BY <1>t, <1>g, TailFacts
<1>b. /\ CountersOrdered' /\ TargetsMatch' /\ ErrBooked'
      /\ masterWTargets' \in [Masters -> Seq(0 .. NumS)]
      /\ errAwid' \in [Masters -> Seq(1 .. MaxBursts)]
      /\ errB' \in Seq(Ref) /\ \A k \in 1 .. Len(errB') : Issued(errB'[k])
  <2>1. CASE WLast(m)
    <3>1. RetireRefused(m, Tail(masterWTargets[m])) /\ Head(masterWTargets[m]) # Sink
      BY <2>1, <1>g, SinkNotSlave DEF WTransfer, RetireMapped
    <3> QED
      BY <2>1, <3>1, <1>0, <1>g, BooksAtLastBeat
  <2>2. CASE ~WLast(m)
    <3>1. UNCHANGED <<wDone, masterWTargets, errAwid, errB>>
      BY <2>2, <1>g DEF WTransfer, RetireMapped, SendBeat
    <3> QED
      BY <3>1, <1>0, StillBooked
  <2> QED
    BY <2>1, <2>2
<1>c. wDone' \in [Masters -> Nat] /\ wBeat' \in [Masters -> Nat]
  BY <1>g, SendFacts
<1>w. /\ wOrder' \in [Slaves -> Seq(Masters)] /\ received' \in [Slaves -> Nat]
      /\ awQ' \in [Slaves -> Seq(Ref)] /\ commit' \in [Slaves -> Ref \cup {None}]
  <2>1. wOrder' \in [Slaves -> Seq(Masters)]
    BY <1>0, <1>t, <1>h
  <2>2. received' \in [Slaves -> Nat]
    BY <1>0, <1>t
  <2>3. awQ' \in [Slaves -> Seq(Ref)]
    BY <1>0, <1>t, <1>h
  <2>4. commit' \in [Slaves -> Ref \cup {None}]
    BY <1>0, <1>t, <1>h
  <2> QED
    BY <2>1, <2>2, <2>3, <2>4
<1>1. TypeOK'
  BY <1>0, <1>b, <1>c, <1>w DEF TypeOK, Routing
<1>3. RefsIssued'
  <2>0. \A r : Issued(r) <=> Issued(r)'
    BY <1>0 DEF Issued
  <2>1. \A x \in Slaves : \A k \in 1 .. Len(awQ[x]) : Issued(awQ[x][k])
    BY DEF RefsIssued, Routing
  <2>2. /\ Head(awQ[s]) = awQ[s][1] /\ 1 \in 1 .. Len(awQ[s])
        /\ Len(Tail(awQ[s])) = Len(awQ[s]) - 1
        /\ \A i \in 1 .. Len(awQ[s]) - 1 :
             Tail(awQ[s])[i] = awQ[s][i + 1] /\ i + 1 \in 1 .. Len(awQ[s])
    BY <1>t, <1>g, TailFacts
  <2>3. Issued(op) /\ \A k \in 1 .. Len(Tail(awQ[s])) : Issued(Tail(awQ[s])[k])
    BY <2>1, <2>2
  <2>4. \A x \in Slaves : \A k \in 1 .. Len(awQ'[x]) : Issued(awQ'[x][k])
    BY <2>1, <2>3, <1>0, <1>t
  <2>5. \A x \in Slaves : commit'[x] # None => Issued(commit'[x])
    BY <2>3, <1>0, <1>t DEF RefsIssued, Routing
  <2> QED
    BY <2>0, <2>4, <2>5, <1>0, <1>b DEF RefsIssued, Routing
<1>4. BRouted'
  BY <1>0 DEF BRouted, Routing
<1> QED
  BY <1>1, <1>b, <1>3, <1>4 DEF Routing

LEMMA WSinkRouting ==
  ASSUME Routing, NEW m \in Masters, WSink(m) PROVE Routing'
<1>g. masterWTargets[m] # <<>> /\ Head(masterWTargets[m]) = Sink /\ SendBeat(m)
  BY DEF WSink, SinkServes
<1>0. UNCHANGED <<burst, awDone, idOrder, answered, released, wOrder, writeOrder,
                  awWire, bPc, bSrc, bNum, slaveVars>>
  BY DEF WSink
<1>b. /\ CountersOrdered' /\ TargetsMatch' /\ ErrBooked'
      /\ masterWTargets' \in [Masters -> Seq(0 .. NumS)]
      /\ errAwid' \in [Masters -> Seq(1 .. MaxBursts)]
      /\ errB' \in Seq(Ref) /\ \A k \in 1 .. Len(errB') : Issued(errB'[k])
  <2>1. CASE WLast(m)
    <3>1. RetireRefused(m, masterWTargets[m])
      BY <2>1 DEF WSink
    <3> QED
      BY <2>1, <3>1, <1>0, <1>g, BooksAtLastBeat
  <2>2. CASE ~WLast(m)
    <3>1. UNCHANGED <<wDone, masterWTargets, errAwid, errB>>
      BY <2>2, <1>g DEF WSink, SendBeat
    <3> QED
      BY <3>1, <1>0, StillBooked
  <2> QED
    BY <2>1, <2>2
<1>c. wDone' \in [Masters -> Nat] /\ wBeat' \in [Masters -> Nat]
  BY <1>g, SendFacts
<1>1. TypeOK'
  BY <1>0, <1>b, <1>c DEF TypeOK, Routing, slaveVars
<1>2. RefsIssued'
  <2>0. \A r : Issued(r) <=> Issued(r)'
    BY <1>0 DEF Issued
  <2> QED
    BY <2>0, <1>b, <1>0 DEF RefsIssued, Routing, slaveVars
<1>3. BRouted'
  BY <1>0 DEF BRouted, Routing, slaveVars
<1> QED
  BY <1>1, <1>b, <1>2, <1>3 DEF Routing

LEMMA SlaveCommitRouting ==
  ASSUME Routing, NEW s \in Slaves, SlaveCommit(s) PROVE Routing'
<1>t. /\ commit \in [Slaves -> Ref \cup {None}] /\ bQ \in [Slaves -> Seq(Ref)]
      /\ commit[s] \in Ref
  BY DEF TypeOK, Routing, SlaveCommit
<1>0. /\ bQ' = [bQ EXCEPT ![s] = Append(@, commit[s])]
      /\ commit' = [commit EXCEPT ![s] = None]
      /\ UNCHANGED <<masterVars, busVars, awQ, received, bUp, lost>>
  BY DEF SlaveCommit
<1>q. bQ[s] \in Seq(Ref) /\ bQ'[s] = Append(bQ[s], commit[s]) /\ commit'[s] = None
  BY <1>t, <1>0
<1>o. \A x \in Slaves : x # s => bQ'[x] = bQ[x] /\ commit'[x] = commit[x]
  BY <1>t, <1>0
<1>1. TypeOK'
  <2>1. bQ' \in [Slaves -> Seq(Ref)]
    BY <1>t, <1>0, <1>q, AppendFacts
  <2>2. commit' \in [Slaves -> Ref \cup {None}]
    BY <1>t, <1>0
  <2> QED
    BY <2>1, <2>2, <1>0 DEF TypeOK, Routing, masterVars, busVars
<1>2. CountersOrdered' /\ TargetsMatch' /\ ErrBooked'
  BY <1>0, BookingFrame DEF masterVars, busVars
<1>3. RefsIssued'
  <2>0. \A r : Issued(r) <=> Issued(r)'
    BY <1>0 DEF Issued, masterVars
  <2>1. Issued(commit[s])
    BY <1>t, RefNotNone DEF RefsIssued, Routing
  <2>2. \A k \in 1 .. Len(bQ'[s]) : Issued(bQ'[s][k])
    BY <2>1, <1>q, <1>t, AppendFacts DEF RefsIssued, Routing
  <2> QED
    BY <2>0, <2>2, <1>q, <1>o, <1>0 DEF RefsIssued, Routing, busVars
<1>4. BRouted'
  <2>1. \A x \in Slaves : bQ[x] # <<>> => bQ'[x] # <<>>
    BY <1>q, <1>o, <1>t, AppendFacts
  <2> QED
    BY <2>1, <1>0 DEF BRouted, Routing, masterVars, busVars
<1> QED
  BY <1>1, <1>2, <1>3, <1>4 DEF Routing

LEMMA SlaveBValidRouting ==
  ASSUME Routing, NEW s \in Slaves, SlaveBValid(s) PROVE Routing'
<1>0. /\ bQ[s] # <<>> /\ bUp' = [bUp EXCEPT ![s] = TRUE] /\ bUp \in [Slaves -> BOOLEAN]
      /\ UNCHANGED <<masterVars, busVars, awQ, received, commit, bQ, lost>>
  BY DEF SlaveBValid, TypeOK, Routing
<1>1. TypeOK'
  <2>1. bUp' \in [Slaves -> BOOLEAN]
    BY <1>0
  <2> QED
    BY <2>1, <1>0 DEF TypeOK, Routing, masterVars, busVars
<1>2. CountersOrdered' /\ TargetsMatch' /\ ErrBooked' /\ RefsIssued'
  BY <1>0, BookingFrame, RefsFrame DEF masterVars, busVars
<1>3. BRouted'
  <2>1. \A x \in Slaves : bUp'[x] => bQ[x] # <<>>
    BY <1>0 DEF BRouted, Routing
  <2>2. \A x \in Slaves : bUp[x] => bUp'[x]
    BY <1>0
  <2>3. \A x \in Masters : bSrc[x] # Sink => bSrc[x] \in Slaves
    BY SinkNotSlave DEF Routing, TypeOK
  <2> QED
    BY <2>1, <2>2, <2>3, <1>0 DEF BRouted, Routing, masterVars, busVars
<1> QED
  BY <1>1, <1>2, <1>3 DEF Routing

LEMMA BPickRouting ==
  ASSUME Routing, NEW m \in Masters, BPick(m) PROVE Routing'
<1>t. /\ bPc \in [Masters -> {"scan", "drive", "ack"}] /\ bSrc \in [Masters -> 0 .. NumS]
      /\ bNum \in [Masters -> 0 .. MaxBursts] /\ bQ \in [Slaves -> Seq(Ref)] /\ errB \in Seq(Ref)
  BY DEF TypeOK, Routing
<1>0. /\ bPc' = [bPc EXCEPT ![m] = "drive"]
      /\ UNCHANGED <<masterVars, masterWTargets, errAwid, wOrder, writeOrder, errB,
                     awWire, slaveVars>>
  BY DEF BPick
\* What is picked: a DECERR of an issued burst of m, or a slave that holds up a
\* response and whose next turn is m's.
<1>1. PICK src \in 0 .. NumS, n \in 0 .. MaxBursts :
        /\ bSrc' = [bSrc EXCEPT ![m] = src] /\ bNum' = [bNum EXCEPT ![m] = n]
        /\ src = Sink => n \in 1 .. Len(burst[m])
        /\ src # Sink => src \in Slaves /\ bUp[src] /\ writeOrder[src] # <<>> /\ Head(writeOrder[src]) = m
  <2>1. CASE \E k \in First(ErrIndices(m)) :
               /\ bSrc' = [bSrc EXCEPT ![m] = Sink]
               /\ bNum' = [bNum EXCEPT ![m] = errB[k][2]]
    <3>1. PICK k \in 1 .. Len(errB) : /\ errB[k][1] = m
                                      /\ bSrc' = [bSrc EXCEPT ![m] = Sink]
                                      /\ bNum' = [bNum EXCEPT ![m] = errB[k][2]]
      BY <2>1 DEF First, ErrIndices
    <3>2. errB[k] \in Ref /\ Issued(errB[k])
      BY <1>t DEF RefsIssued, Routing
    <3>3. errB[k][2] \in 1 .. MaxBursts /\ errB[k][2] <= Len(burst[m])
      BY <3>1, <3>2 DEF Issued, Ref
    <3>4. Len(burst[m]) \in Nat
      BY DEF TypeOK, Routing
    <3>5. errB[k][2] \in 1 .. Len(burst[m]) /\ errB[k][2] \in 0 .. MaxBursts
      BY <3>3, <3>4, BusWriteAssumption
    <3> QED
      BY <3>1, <3>5, SinkNotSlave
  <2>2. CASE \E s \in First(BSources(m)) :
               /\ bSrc' = [bSrc EXCEPT ![m] = s]
               /\ bNum' = [bNum EXCEPT ![m] = Head(bQ[s])[2]]
    <3>1. PICK s \in Slaves : /\ bUp[s] /\ writeOrder[s] # <<>> /\ Head(writeOrder[s]) = m
                              /\ bSrc' = [bSrc EXCEPT ![m] = s]
                              /\ bNum' = [bNum EXCEPT ![m] = Head(bQ[s])[2]]
      BY <2>2 DEF First, BSources
    <3>2. bQ[s] \in Seq(Ref) /\ bQ[s] # <<>>
      BY <3>1, <1>t DEF BRouted, Routing
    <3>3. Head(bQ[s]) \in Ref
      BY <3>2, TailFacts
    <3>4. Head(bQ[s])[2] \in 0 .. MaxBursts
      BY <3>3, BusWriteAssumption DEF Ref
    <3>5. s \in 0 .. NumS /\ s # Sink
      BY SinkNotSlave
    <3> QED
      BY <3>1, <3>4, <3>5
  <2> QED
    BY <2>1, <2>2 DEF BPick
<1>2. /\ bPc' \in [Masters -> {"scan", "drive", "ack"}] /\ bSrc' \in [Masters -> 0 .. NumS]
      /\ bNum' \in [Masters -> 0 .. MaxBursts]
      /\ bPc'[m] = "drive" /\ bSrc'[m] = src /\ bNum'[m] = n
  <2>1. bPc' \in [Masters -> {"scan", "drive", "ack"}] /\ bPc'[m] = "drive"
    BY <1>0, <1>t
  <2>2. bSrc' \in [Masters -> 0 .. NumS] /\ bSrc'[m] = src
    BY <1>1, <1>t
  <2>3. bNum' \in [Masters -> 0 .. MaxBursts] /\ bNum'[m] = n
    BY <1>1, <1>t
  <2> QED
    BY <2>1, <2>2, <2>3
<1>3. TypeOK'
  BY <1>0, <1>2 DEF TypeOK, Routing, masterVars, slaveVars
<1>4. CountersOrdered' /\ TargetsMatch' /\ ErrBooked' /\ RefsIssued'
  BY <1>0, BookingFrame, RefsFrame DEF masterVars, slaveVars
<1>5. BRouted'
  <2>1. \A x \in Masters : x # m => bPc'[x] = bPc[x] /\ bSrc'[x] = bSrc[x] /\ bNum'[x] = bNum[x]
    BY <1>0, <1>1, <1>t
  <2> QED
    BY <2>1, <1>0, <1>1, <1>2 DEF BRouted, Routing, masterVars, slaveVars
<1> QED
  BY <1>3, <1>4, <1>5 DEF Routing

LEMMA BDeliverRouting ==
  ASSUME Routing, NEW m \in Masters, BDeliver(m) PROVE Routing'
<1> DEFINE i == BId(m)
           q == idOrder[m][i]
<1>t. /\ bPc \in [Masters -> {"scan", "drive", "ack"}] /\ bSrc \in [Masters -> 0 .. NumS]
      /\ bQ \in [Slaves -> Seq(Ref)] /\ errB \in Seq(Ref)
      /\ burst \in [Masters -> Seq(Shapes)] /\ answered \in [Masters -> SUBSET (1 .. MaxBursts)]
      /\ idOrder \in [Masters -> [Ids -> Seq(1 .. MaxBursts)]]
      /\ \A x \in Masters : Len(burst[x]) \in Nat
  BY DEF TypeOK, Routing
<1>0. /\ bPc[m] = "drive"
      /\ UNCHANGED <<burst, awDone, wDone, wBeat, released, masterWTargets, errAwid,
                     wOrder, writeOrder, awWire, bSrc, bNum, slaveVars>>
  BY DEF BDeliver
<1>s. bSrc[m] # Sink => /\ bSrc[m] \in Slaves /\ bUp[bSrc[m]] /\ bQ[bSrc[m]] # <<>>
                        /\ writeOrder[bSrc[m]] # <<>> /\ Head(writeOrder[bSrc[m]]) = m
  BY <1>0, <1>t, SinkNotSlave DEF BRouted, Routing
<1>i. i \in Ids
  <2>1. CASE bSrc[m] = Sink
    <3>1. bNum[m] \in 1 .. Len(burst[m])
      BY <2>1, <1>0 DEF BRouted, Routing
    <3>2. burst[m][bNum[m]] \in Shapes
      BY <3>1, <1>t
    <3> QED
      BY <2>1, <3>2, BusWriteAssumption DEF BId
  <2>2. CASE bSrc[m] # Sink
    <3> DEFINE h == Head(bQ[bSrc[m]])
    <3>1. bQ[bSrc[m]] \in Seq(Ref) /\ bQ[bSrc[m]] # <<>> /\ bSrc[m] \in Slaves
      BY <2>2, <1>s, <1>t
    <3>2. h = bQ[bSrc[m]][1] /\ 1 \in 1 .. Len(bQ[bSrc[m]])
      BY <3>1, TailFacts
    <3>3. Issued(h)
      BY <3>1, <3>2 DEF RefsIssued, Routing
    <3>4. h[1] \in Masters /\ h[2] \in 1 .. Len(burst[h[1]])
      BY <3>3, <1>t DEF Issued, Ref
    <3>5. burst[h[1]][h[2]] \in Shapes
      BY <3>4, <1>t
    <3> QED
      BY <2>2, <3>5, BusWriteAssumption DEF BId, BurstOf
  <2> QED
    BY <2>1, <2>2
<1>d. /\ IF q # <<>>
           THEN /\ answered' = [answered EXCEPT ![m] = @ \cup {Head(q)}]
                /\ idOrder' = [idOrder EXCEPT ![m][i] = Tail(@)]
           ELSE UNCHANGED <<answered, idOrder>>
      /\ IF bSrc[m] = Sink
           THEN /\ \E k \in First(ErrIndices(m)) :
                     errB' = [j \in 1 .. Len(errB) - 1 |->
                                IF j < k THEN errB[j] ELSE errB[j + 1]]
                /\ bPc' = [bPc EXCEPT ![m] = "scan"]
           ELSE /\ bPc' = [bPc EXCEPT ![m] = "ack"]
                /\ UNCHANGED errB
  BY DEF BDeliver
<1> HIDE DEF i
<1>1. /\ answered' \in [Masters -> SUBSET (1 .. MaxBursts)]
      /\ idOrder' \in [Masters -> [Ids -> Seq(1 .. MaxBursts)]]
  <2>0. q \in Seq(1 .. MaxBursts)
    BY <1>t, <1>i
  <2>1. CASE q # <<>>
    <3>1. Head(q) \in 1 .. MaxBursts /\ Tail(q) \in Seq(1 .. MaxBursts)
      BY <2>0, <2>1, TailFacts
    <3>a. /\ answered' = [answered EXCEPT ![m] = @ \cup {Head(q)}]
          /\ idOrder' = [idOrder EXCEPT ![m][i] = Tail(@)]
      BY <2>1, <1>d
    <3>b. (answered[m] \cup {Head(q)}) \in SUBSET (1 .. MaxBursts)
      BY <3>1, <1>t
    <3>2. answered' \in [Masters -> SUBSET (1 .. MaxBursts)]
      BY <3>a, <3>b, <1>t
    <3>c. [idOrder[m] EXCEPT ![i] = Tail(@)] \in [Ids -> Seq(1 .. MaxBursts)]
      BY <3>1, <1>t, <1>i
    <3>3. idOrder' \in [Masters -> [Ids -> Seq(1 .. MaxBursts)]]
      BY <3>a, <3>c, <1>t
    <3> QED
      BY <3>2, <3>3
  <2>2. CASE q = <<>>
    BY <2>2, <1>d, <1>t
  <2> QED
    BY <2>1, <2>2
\* Dropping an entry of errB keeps only entries it had.
<1>2. errB' \in Seq(Ref) /\ \A j \in 1 .. Len(errB') : \E k \in 1 .. Len(errB) : errB'[j] = errB[k]
  <2>1. CASE bSrc[m] = Sink
    <3>1. PICK k \in 1 .. Len(errB) :
                 errB' = [j \in 1 .. Len(errB) - 1 |->
                                IF j < k THEN errB[j] ELSE errB[j + 1]]
      BY <2>1, <1>d DEF First, ErrIndices
    <3>2. Len(errB) \in Nat /\ Len(errB) - 1 \in Nat
      BY <3>1, <1>t
    <3>3. \A j \in 1 .. Len(errB) - 1 :
             \/ errB'[j] = errB[j] /\ j \in 1 .. Len(errB)
             \/ errB'[j] = errB[j + 1] /\ j + 1 \in 1 .. Len(errB)
      BY <3>1, <3>2
    <3>a. \A j \in 1 .. Len(errB) : errB[j] \in Ref
      BY <1>t
    <3>4. \A j \in 1 .. Len(errB) - 1 : errB'[j] \in Ref
      BY <3>3, <3>a
    <3>5. DOMAIN errB' = 1 .. Len(errB) - 1 /\ errB' = [j \in DOMAIN errB' |-> errB'[j]]
      BY <3>1
    <3>6. errB' \in [1 .. Len(errB) - 1 -> Ref]
      BY <3>4, <3>5
    <3>7. errB' \in Seq(Ref)
      BY <3>6, <3>2
    <3>8. Len(errB') = Len(errB) - 1
      BY <3>5, <3>7, <3>2
    <3> QED
      BY <3>3, <3>7, <3>8
  <2>2. CASE bSrc[m] # Sink
    BY <2>2, <1>d, <1>t
  <2> QED
    BY <2>1, <2>2
<1>3. /\ bPc' \in [Masters -> {"scan", "drive", "ack"}]
      /\ \A x \in Masters : x # m => bPc'[x] = bPc[x]
      /\ bPc'[m] # "drive"
      /\ bPc'[m] # "scan" => bSrc[m] # Sink
  BY <1>d, <1>t
<1>4. TypeOK'
  BY <1>0, <1>1, <1>2, <1>3 DEF TypeOK, Routing, slaveVars
<1>5. CountersOrdered' /\ TargetsMatch' /\ ErrBooked'
  BY <1>0, BookingFrame
<1>6. RefsIssued'
  <2>0. \A r : Issued(r) <=> Issued(r)'
    BY <1>0 DEF Issued
  <2>1. \A j \in 1 .. Len(errB') : Issued(errB'[j])
    BY <1>2 DEF RefsIssued, Routing
  <2> QED
    BY <2>0, <2>1, <1>0 DEF RefsIssued, Routing, slaveVars
<1>7. BRouted'
  BY <1>0, <1>3, <1>s DEF BRouted, Routing, slaveVars
<1> QED
  BY <1>4, <1>5, <1>6, <1>7 DEF Routing

LEMMA BAckRouting ==
  ASSUME Routing, NEW m \in Masters, BAck(m) PROVE Routing'
<1> DEFINE s == bSrc[m]
<1>t. /\ bPc \in [Masters -> {"scan", "drive", "ack"}] /\ bSrc \in [Masters -> 0 .. NumS]
      /\ bQ \in [Slaves -> Seq(Ref)] /\ writeOrder \in [Slaves -> Seq(Masters)]
      /\ bUp \in [Slaves -> BOOLEAN]
  BY DEF TypeOK, Routing
<1>0. /\ bPc[m] = "ack"
      /\ bUp' = [bUp EXCEPT ![s] = FALSE] /\ bQ' = [bQ EXCEPT ![s] = Tail(@)]
      /\ writeOrder' = [writeOrder EXCEPT ![s] = Tail(@)]
      /\ bPc' = [bPc EXCEPT ![m] = "scan"]
      /\ UNCHANGED <<masterVars, masterWTargets, errAwid, wOrder, errB, awWire, bSrc,
                     bNum, awQ, received, commit, lost>>
  BY DEF BAck
<1>s. /\ s # Sink /\ s \in Slaves /\ bUp[s] /\ bQ[s] # <<>>
      /\ writeOrder[s] # <<>> /\ Head(writeOrder[s]) = m
  <2>1. s # Sink /\ s \in 0 .. NumS
    BY <1>0, <1>t DEF BRouted, Routing
  <2>2. s \in Slaves
    BY <2>1, SinkNotSlave
  <2> QED
    BY <2>1, <2>2, <1>0 DEF BRouted, Routing
\* No other master is being answered by s.
<1>x. \A x \in Masters : x # m /\ bPc[x] # "scan" => bSrc[x] # s
  BY <1>s DEF BRouted, Routing
<1> HIDE DEF s
<1>q. /\ bQ[s] \in Seq(Ref) /\ Tail(bQ[s]) \in Seq(Ref)
      /\ Len(Tail(bQ[s])) = Len(bQ[s]) - 1
      /\ \A k \in 1 .. Len(bQ[s]) - 1 : Tail(bQ[s])[k] = bQ[s][k + 1] /\ k + 1 \in 1 .. Len(bQ[s])
  BY <1>t, <1>s, TailFacts
<1>w. Tail(writeOrder[s]) \in Seq(Masters)
  BY <1>t, <1>s, TailFacts
<1>1. TypeOK'
  <2>1. bUp' \in [Slaves -> BOOLEAN] /\ bPc' \in [Masters -> {"scan", "drive", "ack"}]
    BY <1>0, <1>t
  <2>2. bQ' \in [Slaves -> Seq(Ref)]
    BY <1>0, <1>t, <1>q
  <2>3. writeOrder' \in [Slaves -> Seq(Masters)]
    BY <1>0, <1>t, <1>w
  <2> QED
    BY <2>1, <2>2, <2>3, <1>0 DEF TypeOK, Routing, masterVars
<1>2. CountersOrdered' /\ TargetsMatch' /\ ErrBooked'
  BY <1>0, BookingFrame DEF masterVars
<1>3. RefsIssued'
  <2>0. \A r : Issued(r) <=> Issued(r)'
    BY <1>0 DEF Issued, masterVars
  <2>1. \A x \in Slaves : \A k \in 1 .. Len(bQ[x]) : Issued(bQ[x][k])
    BY DEF RefsIssued, Routing
  <2>2. bQ'[s] = Tail(bQ[s]) /\ \A x \in Slaves : x # s => bQ'[x] = bQ[x]
    BY <1>0, <1>t, <1>s
  <2>3. \A k \in 1 .. Len(Tail(bQ[s])) : Issued(Tail(bQ[s])[k])
    <3>1. \A k \in 1 .. Len(bQ[s]) : Issued(bQ[s][k])
      BY <2>1, <1>s
    <3> QED
      BY <3>1, <1>q
  <2>4. \A x \in Slaves : \A k \in 1 .. Len(bQ'[x]) : Issued(bQ'[x][k])
    BY <2>1, <2>2, <2>3
  <2> QED
    BY <2>0, <2>4, <1>0 DEF RefsIssued, Routing
<1>4. BRouted'
  <2>1. /\ ~bUp'[s] /\ bPc'[m] = "scan"
        /\ \A x \in Masters : x # m => bPc'[x] = bPc[x]
        /\ \A y \in Slaves : y # s => /\ bUp'[y] = bUp[y] /\ bQ'[y] = bQ[y]
                                      /\ writeOrder'[y] = writeOrder[y]
    BY <1>0, <1>t, <1>s
  <2>2. \A x \in Masters : bSrc[x] # Sink => bSrc[x] \in Slaves
    BY <1>t, SinkNotSlave
  <2> QED
    BY <2>1, <2>2, <1>x, <1>0 DEF BRouted, Routing, masterVars
<1> QED
  BY <1>1, <1>2, <1>3, <1>4 DEF Routing

LEMMA StutterRouting == Routing /\ UNCHANGED vars => Routing'
<1> SUFFICES ASSUME Routing, UNCHANGED vars PROVE Routing'
  OBVIOUS
<1>0. UNCHANGED <<masterVars, busVars, slaveVars>>
  BY DEF vars
<1>1. TypeOK'
  BY <1>0 DEF TypeOK, Routing, masterVars, busVars, slaveVars
<1>2. CountersOrdered' /\ TargetsMatch' /\ ErrBooked' /\ RefsIssued' /\ BRouted'
  BY <1>0, BookingFrame, RefsFrame, ResponseFrame DEF masterVars, busVars, slaveVars
<1> QED
  BY <1>1, <1>2 DEF Routing

\* Routing is inductive: no step of the masters, the bus or the slaves breaks it.
LEMMA RoutingInductive == Routing /\ [Next]_vars => Routing'
<1> SUFFICES ASSUME Routing, [Next]_vars PROVE Routing'
  OBVIOUS
<1>1. ASSUME NEW m \in Masters, NEW b \in Shapes, IssueWrite(m, b) PROVE Routing'
  BY <1>1, IssueWriteRouting
<1>2. ASSUME NEW m \in Masters, MasterStep(m) PROVE Routing'
  BY <1>2, AwDecerrRouting, AwForwardRouting, WSinkRouting, BPickRouting, BDeliverRouting,
     BAckRouting, ReleaseWriteRouting DEF MasterStep
<1>3. ASSUME NEW s \in Slaves, SlaveStep(s) PROVE Routing'
  BY <1>3, SlaveAwRouting, SlaveCommitRouting, SlaveBValidRouting DEF SlaveStep
<1>4. ASSUME NEW m \in Masters, NEW s \in Slaves, WTransfer(m, s) PROVE Routing'
  BY <1>4, WTransferRouting
<1>5. CASE UNCHANGED vars
  BY <1>5, StutterRouting
<1> QED
  BY <1>1, <1>2, <1>3, <1>4, <1>5 DEF Next, Progress

\* In every execution the W routing entries of a master are those of its latest
\* bursts whose AW the bus has taken, in order, at most the ones not streamed; a
\* refused one among them has its saved AWID; and a response being routed stays up
\* at a slave whose turn is that master's.
THEOREM RoutingAlways == Spec => []Routing
<1>1. Init => Routing
  BY InitRouting
<1>2. Routing /\ [Next]_vars => Routing'
  BY RoutingInductive
<1> QED
  BY <1>1, <1>2, PTL DEF Spec

\* Every queue of the interconnect holds entries of its kind, and no counter
\* passes the bursts issued, whatever the number of masters and slaves.
THEOREM TypeCorrect == Spec => []TypeOK
<1>1. Routing => TypeOK
  BY DEF Routing
<1> QED
  BY <1>1, RoutingAlways, PTL

----------------------------------------------------------------------------
(* Pairing, and W beats follow their address *)

LEMMA PendingTyped ==
  ASSUME Routing, NEW s \in Slaves
  PROVE  /\ Len(awQ[s]) \in Nat /\ PendingLen(s) \in Nat
         /\ Len(awQ[s]) <= PendingLen(s) /\ PendingLen(s) <= Len(awQ[s]) + 1
         /\ \A k \in 1 .. PendingLen(s) : Pending(s, k) \in Ref
         /\ awQ[s] # <<>> => Head(awQ[s]) = Pending(s, 1) /\ 1 \in 1 .. PendingLen(s)
                              /\ Head(awQ[s]) \in Ref
<1>1. awQ[s] \in Seq(Ref) /\ awWire[s] \in Ref \cup {None}
  BY DEF Routing, TypeOK
<1>2. Len(awQ[s]) \in Nat
  BY <1>1
<1>3. PendingLen(s) = Len(awQ[s]) \/ (PendingLen(s) = Len(awQ[s]) + 1 /\ awWire[s] \in Ref)
  <2>1. CASE awWire[s] = None
    BY <2>1, <1>2 DEF PendingLen
  <2>2. CASE awWire[s] # None
    BY <2>2, <1>1, <1>2 DEF PendingLen
  <2> QED
    BY <2>1, <2>2
<1>4. \A k \in 1 .. Len(awQ[s]) : awQ[s][k] \in Ref
  BY <1>1
<1>5. \A k \in 1 .. PendingLen(s) : Pending(s, k) \in Ref
  BY <1>2, <1>3, <1>4 DEF Pending
<1>6. awQ[s] # <<>> => Head(awQ[s]) = awQ[s][1] /\ 1 \in 1 .. Len(awQ[s])
  BY <1>1, TailFacts
<1>7. awQ[s] # <<>> => Head(awQ[s]) = Pending(s, 1) /\ 1 \in 1 .. PendingLen(s)
  BY <1>6, <1>2, <1>3 DEF Pending
<1> QED
  BY <1>2, <1>3, <1>5, <1>7

\* The burst whose data master m streams when its W channel is wired through, as
\* long as the streams are in step.
LEMMA NextBurst ==
  ASSUME Routing, InStep, NEW m \in Masters, masterWTargets[m] # <<>>
  PROVE  /\ wDone[m] \in Nat /\ awDone[m] \in Nat /\ wBeat[m] \in Nat
         /\ wDone[m] < awDone[m] /\ awDone[m] <= Len(burst[m]) /\ Len(burst[m]) \in Nat
         /\ wDone[m] + 1 \in wDone[m] + 1 .. awDone[m]
         /\ <<m, wDone[m] + 1>> \in Ref
         /\ burst[m][wDone[m] + 1].dst = Head(masterWTargets[m])
         /\ burst[m][wDone[m] + 1].beats \in Nat \ {0}
<1>1. /\ masterWTargets[m] \in Seq(0 .. NumS) /\ wDone[m] \in Nat /\ awDone[m] \in Nat
      /\ wBeat[m] \in Nat /\ burst[m] \in Seq(Shapes) /\ Len(burst[m]) <= MaxBursts
  BY DEF Routing, TypeOK
<1>2. /\ Len(masterWTargets[m]) \in Nat \ {0} /\ Head(masterWTargets[m]) = masterWTargets[m][1]
      /\ 1 \in 1 .. Len(masterWTargets[m])
  BY <1>1, TailFacts
<1>3. Len(masterWTargets[m]) = awDone[m] - wDone[m] /\ awDone[m] <= Len(burst[m])
  <2>1. awDone[m] - Len(masterWTargets[m]) = wDone[m]
    BY DEF InStep, Retired
  <2> QED
    BY <2>1, <1>1, <1>2 DEF Routing, CountersOrdered
<1>4. masterWTargets[m][1] = burst[m][wDone[m] + 1].dst
  BY <1>2 DEF Routing, TargetsMatch, InStep
<1>5. Len(burst[m]) \in Nat
  BY <1>1
<1>6. wDone[m] < awDone[m] /\ wDone[m] + 1 \in 1 .. Len(burst[m]) /\ wDone[m] + 1 \in 1 .. MaxBursts
  <2>1. wDone[m] < awDone[m]
    BY <1>1, <1>2, <1>3
  <2>2. MaxBursts \in Nat
    BY BusWriteAssumption
  <2> QED
    BY <2>1, <2>2, <1>1, <1>3, <1>5
<1>7. burst[m][wDone[m] + 1] \in Shapes
  BY <1>1, <1>6
<1>8. burst[m][wDone[m] + 1].beats \in Nat \ {0}
  BY <1>7, BusWriteAssumption
<1>9. <<m, wDone[m] + 1>> \in Ref
  BY <1>6 DEF Ref
<1> QED
  BY <1>1, <1>2, <1>3, <1>4, <1>5, <1>6, <1>8, <1>9

\* Where the two routing heads agree, the slave's oldest request is the burst
\* the master streams, at the same beat.
LEMMA ServedIsHead ==
  ASSUME Routing, InStep, NEW s \in Slaves, NEW m \in Masters, Serves(s, m), WReady(s),
         ListsPending(s), CountsBeats(s)
  PROVE  /\ Head(awQ[s]) = <<m, wDone[m] + 1>>
         /\ received[s] = wBeat[m]
<1> DEFINE n == wDone[m] + 1
<1>1. /\ awQ[s] # <<>> /\ wOrder[s] # <<>> /\ Head(wOrder[s]) = m
      /\ masterWTargets[m] # <<>> /\ Head(masterWTargets[m]) = s
  BY DEF Serves, WReady
<1>2. /\ wDone[m] \in Nat /\ n \in wDone[m] + 1 .. awDone[m] /\ <<m, n>> \in Ref
      /\ burst[m][n].dst = s
  BY <1>1, NextBurst
<1>3. InFlight(<<m, n>>, s)
  BY <1>2 DEF InFlight
<1>4. PICK k \in 1 .. PendingLen(s) : Pending(s, k) = <<m, n>>
  BY <1>2, <1>3 DEF ListsPending
<1>5. /\ Head(awQ[s]) = Pending(s, 1) /\ 1 \in 1 .. PendingLen(s) /\ PendingLen(s) \in Nat
      /\ Pending(s, 1) \in Ref
  BY <1>1, PendingTyped
<1>6. wOrder[s] \in Seq(Masters)
  BY DEF Routing, TypeOK
<1>7. Head(wOrder[s]) = wOrder[s][1]
  BY <1>6, <1>1, TailFacts
<1>8. Pending(s, 1)[1] = m /\ InFlight(Pending(s, 1), s)
  BY <1>1, <1>5, <1>7 DEF ListsPending
<1>9. Pending(s, 1)[2] \in n .. awDone[m]
  BY <1>8 DEF InFlight
<1>10. CASE k = 1
  <2>1. Head(awQ[s]) = <<m, n>>
    BY <1>4, <1>5, <1>10
  <2>2. Head(awQ[s])[1] = m /\ Head(awQ[s])[2] = n
    BY <2>1
  <2> QED
    BY <2>1, <2>2, <1>1 DEF CountsBeats
<1>11. CASE k # 1
  <2>1. 1 < k
    BY <1>4, <1>5, <1>11
  <2>2. Pending(s, 1)[2] < Pending(s, k)[2]
    BY <2>1, <1>4, <1>5, <1>8 DEF ListsPending
  <2>3. Pending(s, k)[2] = n
    BY <1>4
  <2>4. awDone[m] \in Nat /\ n \in Nat
    BY <1>2 DEF Routing, TypeOK
  <2> QED
    BY <2>2, <2>3, <2>4, <1>9
<1> QED
  BY <1>10, <1>11

--------------------------------------------------------------------------------
(* Steps that leave the requests pending at a slave alone *)

LEMMA PendingKept ==
  ASSUME NEW s \in Slaves, awQ'[s] = awQ[s], awWire'[s] = awWire[s]
  PROVE  PendingLen(s)' = PendingLen(s) /\ \A k : Pending(s, k)' = Pending(s, k)
BY DEF PendingLen, Pending

LEMMA ListsSame ==
  ASSUME Routing, NEW s \in Slaves, ListsPending(s), wOrder'[s] = wOrder[s],
         PendingLen(s)' = PendingLen(s),
         \A k \in 1 .. PendingLen(s) : Pending(s, k)' = Pending(s, k),
         \A b \in Ref : InFlight(b, s)' <=> InFlight(b, s)
  PROVE  ListsPending(s)'
<1>1. /\ PendingLen(s)' = PendingLen(s)
      /\ \A k \in 1 .. PendingLen(s) : Pending(s, k)' = Pending(s, k)
  OBVIOUS
<1>2. \A k \in 1 .. PendingLen(s) : Pending(s, k) \in Ref
  BY PendingTyped
<1>3. Len(wOrder'[s]) = PendingLen(s)'
  BY <1>1 DEF ListsPending
<1>4. \A k \in 1 .. PendingLen(s)' :
         wOrder'[s][k] = Pending(s, k)'[1] /\ InFlight(Pending(s, k), s)'
  <2> TAKE k \in 1 .. PendingLen(s)'
  <2>1. wOrder[s][k] = Pending(s, k)[1] /\ InFlight(Pending(s, k), s) /\ Pending(s, k) \in Ref
    BY <1>1, <1>2 DEF ListsPending
  <2>2. Pending(s, k)' = Pending(s, k)
    BY <1>1
  <2>3. InFlight(Pending(s, k), s)'
    BY <2>1, <2>2 DEF InFlight
  <2> QED
    BY <2>1, <2>2, <2>3
<1>5. \A j, k \in 1 .. PendingLen(s)' :
         j < k /\ Pending(s, j)'[1] = Pending(s, k)'[1] => Pending(s, j)'[2] < Pending(s, k)'[2]
  BY <1>1 DEF ListsPending
<1>6. \A b \in Ref : InFlight(b, s)' => \E k \in 1 .. PendingLen(s)' : Pending(s, k)' = b
  BY <1>1 DEF ListsPending
<1> QED
  BY <1>3, <1>4, <1>5, <1>6 DEF ListsPending

LEMMA ListsKept ==
  ASSUME Routing, NEW s \in Slaves, ListsPending(s),
         awQ'[s] = awQ[s], awWire'[s] = awWire[s], wOrder'[s] = wOrder[s],
         \A b \in Ref : InFlight(b, s)' <=> InFlight(b, s)
  PROVE  ListsPending(s)'
BY PendingKept, ListsSame

LEMMA KeptPaired ==
  ASSUME Routing, Paired,
         UNCHANGED <<burst, awDone, wDone, wBeat, wOrder, awWire, awQ, received>>
  PROVE  Paired'
<1>1. ASSUME NEW s \in Slaves PROVE ListsPending(s)'
  <2>1. \A b \in Ref : InFlight(b, s)' <=> InFlight(b, s)
    BY DEF InFlight
  <2>2. ListsPending(s)
    BY DEF Paired
  <2> QED
    BY <2>1, <2>2, ListsKept
<1>2. ASSUME NEW s \in Slaves PROVE CountsBeats(s)'
  BY DEF Paired, CountsBeats
<1>3. SentAfterAddress'
  BY DEF Paired, SentAfterAddress
<1> QED
  BY <1>1, <1>2, <1>3 DEF Paired

\* A burst is added behind those whose address has been taken.
LEMMA IssueWritePaired ==
  ASSUME Routing, Paired, NEW m \in Masters, NEW b \in Shapes, IssueWrite(m, b)
  PROVE  Paired'
<1>1. /\ burst' = [burst EXCEPT ![m] = Append(@, b)] /\ burst \in [Masters -> Seq(Shapes)]
      /\ UNCHANGED <<awDone, wDone, wBeat, wOrder, awWire, awQ, received>>
  BY DEF IssueWrite, busVars, slaveVars, Routing, TypeOK
<1>2. ASSUME NEW x \in Masters, NEW n \in 1 .. awDone[x] PROVE burst'[x][n] = burst[x][n]
  <2>1. awDone[x] \in Nat /\ awDone[x] <= Len(burst[x]) /\ burst[x] \in Seq(Shapes)
    BY DEF Routing, TypeOK, CountersOrdered
  <2>2. Len(burst[x]) \in Nat
    BY <2>1
  <2>3. n \in 1 .. Len(burst[x])
    BY <2>1, <2>2
  <2>4. CASE x = m
    BY <2>1, <2>3, <2>4, <1>1, AppendFacts
  <2>5. CASE x # m
    BY <2>5, <1>1
  <2> QED
    BY <2>4, <2>5
<1>3. wDone \in [Masters -> Nat] /\ awDone \in [Masters -> Nat]
  BY DEF Routing, TypeOK
<1>4. ASSUME NEW s \in Slaves, NEW r \in Ref PROVE InFlight(r, s)' <=> InFlight(r, s)
  <2>1. r[1] \in Masters /\ wDone[r[1]] \in Nat /\ awDone[r[1]] \in Nat
    BY <1>3 DEF Ref
  <2>2. r[2] \in wDone[r[1]] + 1 .. awDone[r[1]] => r[2] \in 1 .. awDone[r[1]]
    BY <2>1
  <2> QED
    BY <2>1, <2>2, <1>1, <1>2 DEF InFlight
<1>5. ASSUME NEW s \in Slaves PROVE ListsPending(s)'
  BY <1>1, <1>4, ListsKept DEF Paired
<1>6. ASSUME NEW x \in Masters, wBeat[x] # 0
      PROVE  burst'[x][wDone[x] + 1] = burst[x][wDone[x] + 1]
  <2>1. wDone[x] < awDone[x] /\ wDone[x] \in Nat /\ awDone[x] \in Nat
    BY <1>6, <1>3 DEF Paired, SentAfterAddress
  <2>2. wDone[x] + 1 \in 1 .. awDone[x]
    BY <2>1
  <2> QED
    BY <2>2, <1>2
<1>7. ASSUME NEW s \in Slaves PROVE CountsBeats(s)'
  <2>1. CountsBeats(s)
    BY DEF Paired
  <2> QED
    BY <2>1, <1>1, <1>6 DEF CountsBeats
<1>8. SentAfterAddress'
  BY <1>1 DEF Paired, SentAfterAddress
<1> QED
  BY <1>5, <1>7, <1>8 DEF Paired

LEMMA SentKept ==
  ASSUME Routing, SentAfterAddress, NEW m \in Masters,
         awDone' = [awDone EXCEPT ![m] = awDone[m] + 1], UNCHANGED <<wDone, wBeat>>
  PROVE  SentAfterAddress'
<1> SUFFICES ASSUME NEW x \in Masters PROVE wBeat'[x] # 0 => wDone'[x] < awDone'[x]
  BY DEF SentAfterAddress
<1>1. awDone \in [Masters -> Nat] /\ wDone \in [Masters -> Nat]
  BY DEF Routing, TypeOK
<1>2. awDone'[x] \in {awDone[x], awDone[x] + 1} /\ awDone[x] \in Nat /\ wDone[x] \in Nat
  BY <1>1
<1>3. wBeat[x] # 0 => wDone[x] < awDone[x]
  BY DEF SentAfterAddress
<1> QED
  BY <1>2, <1>3

\* The burst whose address is taken goes to no slave.
LEMMA AwDecerrPaired ==
  ASSUME Routing, Paired, NEW m \in Masters, AwDecerr(m)
  PROVE  Paired'
<1> DEFINE n == awDone[m] + 1
<1>1. /\ awDone' = [awDone EXCEPT ![m] = n] /\ burst[m][n].dst = Sink
      /\ UNCHANGED <<burst, wDone, wBeat, wOrder, awWire, awQ, received>>
  BY DEF AwDecerr, slaveVars
<1>3. wDone \in [Masters -> Nat] /\ awDone \in [Masters -> Nat]
  BY DEF Routing, TypeOK
<1>4. ASSUME NEW s \in Slaves, NEW r \in Ref PROVE InFlight(r, s)' <=> InFlight(r, s)
  <2>1. r[1] \in Masters /\ r[2] \in Nat /\ wDone[r[1]] \in Nat /\ awDone[r[1]] \in Nat
    BY <1>3, BusWriteAssumption DEF Ref
  <2>2. CASE r[1] # m
    BY <2>1, <2>2, <1>1 DEF InFlight
  <2>3. CASE r[1] = m
    <3>1. awDone'[m] = n
      BY <1>1, <1>3
    <3>2. s # Sink
      BY SinkNotSlave
    <3>3. burst[m][r[2]].dst = s => r[2] # n
      BY <3>2, <1>1
    <3>4. r[2] # n => (r[2] \in wDone[m] + 1 .. n <=> r[2] \in wDone[m] + 1 .. awDone[m])
      BY <2>1, <2>3
    <3> QED
      BY <2>3, <3>1, <3>3, <3>4, <1>1 DEF InFlight
  <2> QED
    BY <2>2, <2>3
<1>5. ASSUME NEW s \in Slaves PROVE ListsPending(s)'
  BY <1>1, <1>4, ListsKept DEF Paired
<1>7. ASSUME NEW s \in Slaves PROVE CountsBeats(s)'
  BY <1>1 DEF Paired, CountsBeats
<1>8. SentAfterAddress'
  BY <1>1, SentKept DEF Paired
<1> QED
  BY <1>5, <1>7, <1>8 DEF Paired

\* The n-th burst of master m is the next to send its address, to slave s.
NextAddress(m, n, s) == n = awDone[m] + 1 /\ s = burst[m][n].dst

\* The burst whose address is taken is the last pending at its slave.
LEMMA AwForwardPairedAt ==
  ASSUME Routing, Paired, NEW m \in Masters, AwForward(m),
         NEW n \in Nat, NEW s, NextAddress(m, n, s)
  PROVE  Paired'
<1>t. /\ awDone \in [Masters -> Nat] /\ wDone \in [Masters -> Nat]
      /\ burst \in [Masters -> Seq(Shapes)] /\ awWire \in [Slaves -> Ref \cup {None}]
      /\ wOrder \in [Slaves -> Seq(Masters)] /\ Len(burst[m]) <= MaxBursts
  <2>1. TypeOK
    BY DEF Routing
  <2> QED
    BY <2>1 DEF TypeOK
<1>d. n = awDone[m] + 1 /\ s = burst[m][n].dst
  BY DEF NextAddress
<1>0. /\ awDone' = [awDone EXCEPT ![m] = n] /\ s # Sink /\ awWire[s] = None
      /\ awWire' = [awWire EXCEPT ![s] = <<m, n>>]
      /\ wOrder' = [wOrder EXCEPT ![s] = Append(@, m)]
      /\ UNCHANGED <<burst, wDone, wBeat, awQ, received>>
  BY <1>d DEF AwForward, slaveVars
<1>1. n \in 1 .. Len(burst[m]) /\ Len(burst[m]) \in Nat
  <2>1. awDone[m] \in Nat /\ Len(burst[m]) \in Nat
    BY <1>t
  <2> QED
    <3>1. awDone[m] < Len(burst[m])
      BY DEF AwForward, AwPending
    <3> QED
      BY <2>1, <3>1, <1>d
<1>2. s \in Slaves
  <2>1. burst[m][n] \in Shapes
    BY <1>1, <1>t
  <2>2. s \in 0 .. NumS
    BY <2>1, <1>d, BusWriteAssumption
  <2> QED
    BY <2>2, <1>0, SinkNotSlave
<1>3. <<m, n>> \in Ref /\ <<m, n>> # None
  <2>1. MaxBursts \in Nat
    BY BusWriteAssumption
  <2>2. n \in 1 .. MaxBursts
    BY <2>1, <1>1, <1>t
  <2> QED
    BY <2>2, RefNotNone DEF Ref
<1>4. ASSUME NEW t \in Slaves, NEW r \in Ref
      PROVE  InFlight(r, t)' <=> InFlight(r, t) \/ (t = s /\ r = <<m, n>>)
  <2>1. /\ r = <<r[1], r[2]>> /\ r[1] \in Masters /\ r[2] \in Nat
        /\ wDone[r[1]] \in Nat /\ awDone[r[1]] \in Nat
    BY <1>t, BusWriteAssumption DEF Ref
  <2>2. CASE r[1] # m
    <3>1. awDone'[r[1]] = awDone[r[1]] /\ r # <<m, n>>
      BY <2>1, <2>2, <1>0, <1>t
    <3>2. burst' = burst /\ wDone' = wDone
      BY <1>0
    <3> QED
      BY <3>1, <3>2 DEF InFlight
  <2>3. CASE r[1] = m
    <3>1. awDone'[m] = n /\ wDone[m] <= awDone[m]
      <4>1. /\ wDone[m] \in Nat /\ Retired(m) \in Nat /\ awDone[m] \in Nat
            /\ wDone[m] <= Retired(m) /\ Retired(m) <= awDone[m]
        BY RoutingBooks
      <4> QED
        BY <4>1, <1>0, <1>t
    <3>2. r[2] \in wDone[m] + 1 .. n <=> r[2] \in wDone[m] + 1 .. awDone[m] \/ r[2] = n
      BY <2>1, <2>3, <3>1, <1>d
    <3>3. r[2] = n <=> r = <<m, n>>
      BY <2>1, <2>3
    <3>4. r[2] = n => (burst[m][r[2]].dst = t <=> t = s)
      BY <1>d
    <3>5. ~(n \in wDone[m] + 1 .. awDone[m])
      BY <1>t, <1>d
    <3> QED
      BY <2>3, <3>1, <3>2, <3>3, <3>4, <3>5, <1>0 DEF InFlight
  <2> QED
    BY <2>2, <2>3
<1>5. ASSUME NEW t \in Slaves, t # s PROVE ListsPending(t)'
  <2>1. awWire'[t] = awWire[t] /\ wOrder'[t] = wOrder[t] /\ awQ'[t] = awQ[t]
    BY <1>5, <1>0, <1>t
  <2>2. \A r \in Ref : InFlight(r, t)' <=> InFlight(r, t)
    BY <1>4, <1>5
  <2> QED
    BY <2>1, <2>2, ListsKept DEF Paired
<1>l. PICK L \in Nat : L = Len(awQ[s])
  BY <1>2, PendingTyped, SMTT(30)
<1>6. ListsPending(s)'
  <2>1. /\ L \in Nat /\ PendingLen(s) = L /\ PendingLen(s)' = L + 1
        /\ \A k \in 1 .. L : Pending(s, k)' = Pending(s, k) /\ Pending(s, k) \in Ref
        /\ Pending(s, L + 1)' = <<m, n>>
    <3>1. L = Len(awQ[s])
      BY <1>l
    <3>2. awWire'[s] = <<m, n>>
      BY <1>0, <1>2, <1>t
    <3>3. PendingLen(s) = L
      BY <3>1, <1>0 DEF PendingLen
    <3>4. PendingLen(s)' = L + 1
      BY <3>1, <3>2, <1>0, <1>3 DEF PendingLen
    <3>a. awQ'[s] = awQ[s]
      BY <1>0
    <3>5. \A k \in 1 .. L : Pending(s, k)' = Pending(s, k)
      <4> TAKE k \in 1 .. L
      <4>1. k <= L
        OBVIOUS
      <4> QED
        BY <4>1, <3>1, <3>a DEF Pending
    <3>b. ~(L + 1 <= L)
      OBVIOUS
    <3>6. Pending(s, L + 1)' = <<m, n>>
      BY <3>a, <3>b, <3>1, <3>2 DEF Pending
    <3> QED
      BY <3>1, <3>3, <3>4, <3>5, <3>6, <1>2, PendingTyped
  <2>2. ListsPending(s)
    BY <1>2, SMTT(30) DEF Paired
  <2>3. /\ wOrder'[s] = Append(wOrder[s], m) /\ wOrder[s] \in Seq(Masters)
        /\ Len(wOrder[s]) = L
    <3>1. wOrder'[s] = Append(wOrder[s], m)
      BY <1>0, <1>2, <1>t
    <3>2. wOrder[s] \in Seq(Masters)
      BY <1>2, <1>t
    <3>3. Len(wOrder[s]) = PendingLen(s)
      BY <2>2 DEF ListsPending
    <3>4. PendingLen(s) = L
      BY <2>1
    <3> QED
      BY <3>1, <3>2, <3>3, <3>4
  <2>4. /\ Len(wOrder'[s]) = L + 1 /\ wOrder'[s][L + 1] = m
        /\ \A k \in 1 .. L : wOrder'[s][k] = wOrder[s][k]
        /\ \A k \in 1 .. L + 1 : k \in 1 .. L \/ k = L + 1
    <3>1. /\ Len(Append(wOrder[s], m)) = L + 1 /\ Append(wOrder[s], m)[L + 1] = m
          /\ \A k \in 1 .. L : Append(wOrder[s], m)[k] = wOrder[s][k]
          /\ \A k \in 1 .. L + 1 : k \in 1 .. L \/ k = L + 1
      <4>1. PICK q \in Seq(Masters) : q = wOrder[s]
        BY <2>3, SMTT(30)
      <4>a. /\ Len(Append(q, m)) = Len(q) + 1 /\ Append(q, m)[Len(q) + 1] = m
            /\ \A k \in 1 .. Len(q) : Append(q, m)[k] = q[k]
        BY AppendFacts
      <4>2. /\ Len(Append(wOrder[s], m)) = L + 1 /\ Append(wOrder[s], m)[L + 1] = m
            /\ \A k \in 1 .. L : Append(wOrder[s], m)[k] = wOrder[s][k]
        BY <4>1, <4>a, <2>3
      <4>3. \A k \in 1 .. L + 1 : k \in 1 .. L \/ k = L + 1
        OBVIOUS
      <4> QED
        BY <4>2, <4>3, <2>3, ZenonT(40)
    <3> QED
      BY <3>1, <2>3, ZenonT(40)
  <2>5. \A k \in 1 .. L : wOrder[s][k] = Pending(s, k)[1] /\ InFlight(Pending(s, k), s)
    BY <2>1, <2>2, SMTT(30) DEF ListsPending
  <2>6. \A k \in 1 .. L : InFlight(Pending(s, k), s)'
    <3> TAKE k \in 1 .. L
    <3>1. InFlight(Pending(s, k), s) /\ Pending(s, k) \in Ref /\ Pending(s, k)' = Pending(s, k)
      BY <2>1, <2>5
    <3>2. PICK r \in Ref : r = Pending(s, k)
      BY <3>1
    <3>3. InFlight(r, s)'
      BY <3>1, <3>2, <1>4, <1>2
    <3>4. r = Pending(s, k)'
      BY <3>1, <3>2
    <3> QED
      BY <3>3, <3>4 DEF InFlight
  <2>7. InFlight(<<m, n>>, s)'
    BY <1>4, <1>2, <1>3
  <2>8. \A k \in 1 .. L : Pending(s, k)[1] = m => Pending(s, k)[2] < n
    <3> TAKE k \in 1 .. L
    <3>1. Pending(s, k) \in Ref /\ InFlight(Pending(s, k), s)
      BY <2>1, <2>5
    <3>2. Pending(s, k)[1] = m => Pending(s, k)[2] \in wDone[m] + 1 .. awDone[m]
      BY <3>1 DEF InFlight
    <3> QED
      BY <3>2, <1>t, <1>d
  <2>9. \A k \in 1 .. L + 1 :
           wOrder'[s][k] = Pending(s, k)'[1] /\ InFlight(Pending(s, k), s)'
    <3> TAKE k \in 1 .. L + 1
    <3>1. CASE k \in 1 .. L
      BY <3>1, <2>1, <2>4, <2>5, <2>6
    <3>2. CASE k = L + 1
      <4>1. Pending(s, k)' = <<m, n>> /\ <<m, n>>[1] = m
        BY <3>2, <2>1
      <4>2. InFlight(Pending(s, k), s)'
        BY <4>1, <2>7 DEF InFlight
      <4> QED
        BY <4>1, <4>2, <3>2, <2>4
    <3> QED
      BY <3>1, <3>2, <2>4
  <2>10. \A j, k \in 1 .. L + 1 :
            j < k /\ Pending(s, j)'[1] = Pending(s, k)'[1] => Pending(s, j)'[2] < Pending(s, k)'[2]
    <3> TAKE j, k \in 1 .. L + 1
    <3>1. CASE j \in 1 .. L /\ k \in 1 .. L
      <4>1. Pending(s, j)' = Pending(s, j) /\ Pending(s, k)' = Pending(s, k)
        BY <3>1, <2>1, SMTT(30)
      <4>2. j < k /\ Pending(s, j)[1] = Pending(s, k)[1] => Pending(s, j)[2] < Pending(s, k)[2]
        BY <3>1, <2>1, <2>2 DEF ListsPending
      <4> QED
        BY <4>1, <4>2
    <3>2. CASE j \in 1 .. L /\ k = L + 1
      <4>1. Pending(s, j)' = Pending(s, j) /\ Pending(s, k)' = <<m, n>>
        BY <3>2, <2>1
      <4>2. <<m, n>>[1] = m /\ <<m, n>>[2] = n
        OBVIOUS
      <4>3. Pending(s, j)[1] = m => Pending(s, j)[2] < n
        BY <3>2, <2>8
      <4> QED
        BY <4>1, <4>2, <4>3
    <3>3. CASE j = L + 1
      BY <3>3, <2>1
    <3> QED
      BY <3>1, <3>2, <3>3, <2>4
  <2>11. \A r \in Ref : InFlight(r, s)' => \E k \in 1 .. L + 1 : Pending(s, k)' = r
    <3> TAKE r \in Ref
    <3>1. CASE InFlight(r, s)
      <4>1. PICK k \in 1 .. L : Pending(s, k) = r
        BY <3>1, <2>1, <2>2 DEF ListsPending
      <4>2. k \in 1 .. L + 1 /\ Pending(s, k)' = r
        BY <4>1, <2>1
      <4> QED
        BY <4>2, SMTT(30)
    <3>2. CASE r = <<m, n>>
      <4>1. L + 1 \in 1 .. L + 1
        BY <2>1
      <4> QED
        BY <3>2, <4>1, <2>1
    <3> QED
      BY <3>1, <3>2, <1>4, <1>2
  <2>12. L + 1 = PendingLen(s)' /\ Len(wOrder'[s]) = PendingLen(s)'
    BY <2>1, <2>4
  <2>13. \A k \in 1 .. PendingLen(s)' :
            wOrder'[s][k] = Pending(s, k)'[1] /\ InFlight(Pending(s, k), s)'
    BY <2>9, <2>12
  <2>14. \A j, k \in 1 .. PendingLen(s)' :
            j < k /\ Pending(s, j)'[1] = Pending(s, k)'[1] => Pending(s, j)'[2] < Pending(s, k)'[2]
    BY <2>10, <2>12
  <2>15. \A r \in Ref : InFlight(r, s)' => \E k \in 1 .. PendingLen(s)' : Pending(s, k)' = r
    BY <2>11, <2>12
  <2> QED
    BY <2>12, <2>13, <2>14, <2>15, ZenonT(40) DEF ListsPending
<1>7. ASSUME NEW t \in Slaves PROVE CountsBeats(t)'
  BY <1>0 DEF Paired, CountsBeats
<1>8. SentAfterAddress'
  <2>1. awDone' = [awDone EXCEPT ![m] = awDone[m] + 1] /\ UNCHANGED <<wDone, wBeat>>
    BY <1>0, <1>d
  <2>2. SentAfterAddress
    BY DEF Paired
  <2> QED
    BY <2>1, <2>2, SentKept
<1>9. ASSUME NEW t \in Slaves PROVE ListsPending(t)'
  <2>1. CASE t = s
    BY <2>1, <1>6
  <2>2. CASE t # s
    BY <2>2, <1>5
  <2> QED
    BY <2>1, <2>2
<1> QED
  BY <1>7, <1>8, <1>9 DEF Paired

LEMMA AwForwardPaired ==
  ASSUME Routing, Paired, NEW m \in Masters, AwForward(m)
  PROVE  Paired'
<1>1. awDone[m] + 1 \in Nat
  BY DEF Routing, TypeOK
<1>2. PICK n \in Nat : n = awDone[m] + 1
  BY <1>1
<1>3. PICK s : s = burst[m][n].dst
  OBVIOUS
<1> QED
  BY <1>2, <1>3, AwForwardPairedAt DEF NextAddress

\* The pulse joins aw_q_: the pending requests are the same.
LEMMA SlaveAwPaired ==
  ASSUME Routing, Paired, NEW s \in Slaves, SlaveAw(s), lost' = {}
  PROVE  Paired'
<1>t. /\ awQ \in [Slaves -> Seq(Ref)] /\ awWire \in [Slaves -> Ref \cup {None}]
      /\ wBeat \in [Masters -> Nat]
  BY DEF Routing, TypeOK
<1>0. /\ awQ' = [awQ EXCEPT ![s] = Append(@, awWire[s])]
      /\ awWire' = [awWire EXCEPT ![s] = None] /\ awWire[s] # None
      /\ UNCHANGED <<burst, awDone, wDone, wBeat, wOrder, received>>
  BY DEF SlaveAw, masterVars
<1>w. awWire[s] \in Ref
  BY <1>0, <1>t
<1>1. ASSUME NEW t \in Slaves, NEW r \in Ref PROVE InFlight(r, t)' <=> InFlight(r, t)
  BY <1>0 DEF InFlight
<1>2. ASSUME NEW t \in Slaves, t # s PROVE awQ'[t] = awQ[t] /\ awWire'[t] = awWire[t]
  BY <1>2, <1>0, <1>t
<1>3. ASSUME NEW t \in Slaves, t # s PROVE ListsPending(t)' /\ CountsBeats(t)'
  <2>1. ListsPending(t)'
    BY <1>0, <1>1, <1>2, <1>3, ListsKept DEF Paired
  <2>2. CountsBeats(t)'
    BY <1>0, <1>2, <1>3 DEF Paired, CountsBeats
  <2> QED
    BY <2>1, <2>2
<1>q. PICK q \in Seq(Ref) : q = awQ[s]
  BY <1>t
<1>e. PICK e \in Ref : e = awWire[s]
  BY <1>w
<1>a. /\ awQ'[s] = Append(q, e) /\ Len(q) \in Nat /\ Len(Append(q, e)) = Len(q) + 1
      /\ Append(q, e)[Len(q) + 1] = e /\ Append(q, e) # <<>> /\ awWire'[s] = None
      /\ \A k \in 1 .. Len(q) : Append(q, e)[k] = q[k]
      /\ q # <<>> => Head(Append(q, e)) = Head(q)
  <2>1. awQ'[s] = Append(q, e) /\ awWire'[s] = None
    BY <1>0, <1>t, <1>q, <1>e
  <2> QED
    BY <2>1, AppendFacts
<1>4. ListsPending(s)'
  <2>1. PICK L \in Nat : L = Len(q)
    BY <1>a
  <2>2. Len(awQ[s]) = L /\ Len(awQ'[s]) = L + 1
    BY <2>1, <1>a, <1>q
  <2>3. PendingLen(s) = L + 1
    BY <2>2, <1>0 DEF PendingLen
  <2>4. PendingLen(s)' = L + 1
    BY <2>2, <1>a DEF PendingLen
  <2>5. \A k \in 1 .. L + 1 : Pending(s, k)' = Pending(s, k)
    <3> TAKE k \in 1 .. L + 1
    <3>1. CASE k \in 1 .. L
      <4>1. Append(q, e)[k] = q[k] /\ k <= L /\ k <= L + 1
        BY <3>1, <2>1, <1>a
      <4> QED
        BY <4>1, <2>2, <1>a, <1>q DEF Pending
    <3>2. CASE k = L + 1
      <4>1. ~(L + 1 <= L) /\ L + 1 <= L + 1
        OBVIOUS
      <4>2. Append(q, e)[L + 1] = e
        BY <2>1, <1>a
      <4> QED
        BY <3>2, <4>1, <4>2, <2>2, <1>a, <1>q, <1>e DEF Pending
    <3> QED
      BY <3>1, <3>2
  <2>6. ListsPending(s) /\ wOrder'[s] = wOrder[s]
    BY <1>0 DEF Paired
  <2> QED
    BY <2>3, <2>4, <2>5, <2>6, <1>1, ListsSame
<1>5. CountsBeats(s)'
  <2>1. CountsBeats(s) /\ ListsPending(s)
    BY DEF Paired
  <2>2. CASE q # <<>>
    <3>1. awQ[s] # <<>> /\ awQ'[s] # <<>> /\ Head(awQ'[s]) = Head(awQ[s])
      BY <2>2, <1>a, <1>q
    <3> QED
      BY <3>1, <2>1, <1>0 DEF CountsBeats
  <2>3. CASE q = <<>>
    <3>1. awQ[s] = <<>> /\ received[s] = 0 /\ awQ'[s] # <<>>
      BY <2>1, <2>3, <1>a, <1>q DEF CountsBeats
    <3>2. Head(awQ'[s]) = e
      <4>1. Len(q) = 0 /\ Append(q, e)[1] = e
        BY <2>3, <1>a
      <4>2. Append(q, e) \in Seq(Ref)
        BY AppendFacts
      <4> QED
        BY <4>1, <4>2, <1>a, TailFacts
    <3>3. InFlight(e, s)
      <4>1. PendingLen(s) = 1 /\ Pending(s, 1) = e
        BY <2>3, <1>q, <1>e, <1>0 DEF PendingLen, Pending
      <4> QED
        BY <4>1, <2>1 DEF ListsPending
    <3>4. \A x \in Masters : ~(wBeat[x] # 0 /\ burst[x][wDone[x] + 1].dst = s)
      BY <3>1, <2>1 DEF CountsBeats
    <3>5. e[1] \in Masters
      BY DEF Ref
    <3>6. e[2] = wDone[e[1]] + 1 => wBeat[e[1]] = 0
      BY <3>3, <3>4, <3>5 DEF InFlight
    <3> QED
      BY <3>1, <3>2, <3>4, <3>6, <1>0 DEF CountsBeats
  <2> QED
    BY <2>2, <2>3
<1>6. SentAfterAddress'
  BY <1>0 DEF Paired, SentAfterAddress
<1> QED
  BY <1>3, <1>4, <1>5, <1>6 DEF Paired

--------------------------------------------------------------------------------
(* Steps that send a beat *)

\* A slave the beat does not go to sees no difference.
LEMMA BeatElsewhere ==
  ASSUME Routing, InStep, Paired, NEW m \in Masters, masterWTargets[m] # <<>>, SendBeat(m),
         UNCHANGED <<burst, awDone>>, NEW t \in Slaves, burst[m][wDone[m] + 1].dst # t,
         awQ'[t] = awQ[t], awWire'[t] = awWire[t], wOrder'[t] = wOrder[t],
         received'[t] = received[t]
  PROVE  ListsPending(t)' /\ CountsBeats(t)'
<1>0. ListsPending(t) /\ CountsBeats(t)
  BY DEF Paired
<1>1. /\ wDone[m] \in Nat /\ awDone[m] \in Nat
      /\ wDone'[m] \in {wDone[m], wDone[m] + 1}
      /\ \A x \in Masters : x # m => wDone'[x] = wDone[x] /\ wBeat'[x] = wBeat[x]
      /\ wDone'[m] = wDone[m] \/ wBeat'[m] = 0
  BY NextBurst, SendFacts
<1>2. ASSUME NEW r \in Ref PROVE InFlight(r, t)' <=> InFlight(r, t)
  <2>1. r[1] \in Masters /\ r[2] \in Nat
    BY BusWriteAssumption DEF Ref
  <2>2. CASE r[1] # m
    BY <2>1, <2>2, <1>1 DEF InFlight
  <2>3. CASE r[1] = m
    <3>1. burst[m][r[2]].dst = t => r[2] # wDone[m] + 1
      OBVIOUS
    <3>2. r[2] # wDone[m] + 1 =>
             (r[2] \in wDone'[m] + 1 .. awDone[m] <=> r[2] \in wDone[m] + 1 .. awDone[m])
      BY <1>1, <2>1
    <3> QED
      BY <2>3, <3>1, <3>2 DEF InFlight
  <2> QED
    BY <2>2, <2>3
<1>3. ListsPending(t)'
  BY <1>0, <1>2, ListsKept
<1>4. awQ'[t] # <<>> =>
         received'[t] = IF Head(awQ'[t])[2] = wDone'[Head(awQ'[t])[1]] + 1
                          THEN wBeat'[Head(awQ'[t])[1]] ELSE 0
  <2> SUFFICES ASSUME awQ[t] # <<>>
               PROVE  received[t] = IF Head(awQ[t])[2] = wDone'[Head(awQ[t])[1]] + 1
                                      THEN wBeat'[Head(awQ[t])[1]] ELSE 0
    OBVIOUS
  <2>1. PICK b \in Ref : b = Head(awQ[t])
    BY PendingTyped
  <2>2. InFlight(b, t)
    BY <2>1, <1>0, PendingTyped DEF ListsPending
  <2>3. received[t] = IF b[2] = wDone[b[1]] + 1 THEN wBeat[b[1]] ELSE 0
    BY <2>1, <1>0 DEF CountsBeats
  <2>4. b[1] \in Masters /\ b[2] \in Nat
    BY BusWriteAssumption DEF Ref
  <2>5. CASE b[1] # m
    BY <2>1, <2>3, <2>4, <2>5, <1>1
  <2>6. CASE b[1] = m
    <3>1. b[2] # wDone[m] + 1
      BY <2>2, <2>6 DEF InFlight
    <3>2. received[t] = 0
      BY <2>3, <2>6, <3>1
    <3> QED
      BY <2>1, <2>6, <3>1, <3>2, <1>1
  <2> QED
    BY <2>5, <2>6
<1>5. ASSUME NEW x \in Masters, wBeat'[x] # 0, burst'[x][wDone'[x] + 1].dst = t
      PROVE  awQ'[t] # <<>> /\ Head(awQ'[t]) = <<x, wDone'[x] + 1>>
  <2>1. CASE x = m
    BY <2>1, <1>5, <1>1
  <2>2. CASE x # m
    BY <2>2, <1>5, <1>1, <1>0 DEF CountsBeats
  <2> QED
    BY <2>1, <2>2
<1>6. CountsBeats(t)'
  <2>1. awQ'[t] = <<>> => received'[t] = 0
    BY <1>0 DEF CountsBeats
  <2> QED
    BY <2>1, <1>4, <1>5 DEF CountsBeats
<1> QED
  BY <1>3, <1>6

LEMMA BeatSent ==
  ASSUME Routing, InStep, SentAfterAddress, NEW m \in Masters, masterWTargets[m] # <<>>, SendBeat(m),
         UNCHANGED awDone
  PROVE  SentAfterAddress'
<1> SUFFICES ASSUME NEW x \in Masters PROVE wBeat'[x] # 0 => wDone'[x] < awDone'[x]
  BY DEF SentAfterAddress
<1>1. wDone[m] < awDone[m]
  BY NextBurst
<1>2. CASE x = m
  BY <1>1, <1>2, SendFacts
<1>3. CASE x # m
  BY <1>3, SendFacts DEF SentAfterAddress
<1> QED
  BY <1>2, <1>3

LEMMA WSinkPaired ==
  ASSUME Routing, InStep, Paired, NEW m \in Masters, WSink(m)
  PROVE  Paired'
<1>0. /\ masterWTargets[m] # <<>> /\ Head(masterWTargets[m]) = Sink /\ SendBeat(m)
      /\ UNCHANGED <<burst, awDone, wOrder, awWire, awQ, received>>
  BY DEF WSink, SinkServes, slaveVars
<1>1. burst[m][wDone[m] + 1].dst = Sink
  BY <1>0, NextBurst
<1>2. ASSUME NEW t \in Slaves PROVE ListsPending(t)' /\ CountsBeats(t)'
  <2>1. burst[m][wDone[m] + 1].dst # t
    BY <1>1, SinkNotSlave
  <2> QED
    BY <2>1, <1>0, BeatElsewhere
<1>3. SentAfterAddress'
  BY <1>0, BeatSent DEF Paired
<1> QED
  BY <1>2, <1>3 DEF Paired

\* A beat that is not its burst's last: both sides count it.
LEMMA MidBeat ==
  ASSUME Routing, Paired, NEW m \in Masters, NEW s \in Slaves, masterWTargets[m] # <<>>,
         SendBeat(m), ~WLast(m), awQ[s] # <<>>,
         Head(awQ[s]) = <<m, wDone[m] + 1>>, received[s] = wBeat[m],
         received'[s] = received[s] + 1, awQ'[s] = awQ[s], awWire'[s] = awWire[s],
         wOrder'[s] = wOrder[s], UNCHANGED <<burst, awDone>>
  PROVE  ListsPending(s)' /\ CountsBeats(s)'
<1>0. ListsPending(s) /\ CountsBeats(s)
  BY DEF Paired
<1>1. /\ \A x \in Masters : wDone'[x] = wDone[x]
      /\ \A x \in Masters : x # m => wBeat'[x] = wBeat[x]
      /\ wBeat'[m] = wBeat[m] + 1
  BY SendFacts
<1>2. ASSUME NEW r \in Ref PROVE InFlight(r, s)' <=> InFlight(r, s)
  <2>1. r[1] \in Masters
    BY DEF Ref
  <2> QED
    BY <2>1, <1>1 DEF InFlight
<1>3. ListsPending(s)'
  BY <1>0, <1>2, ListsKept
<1>4. /\ Head(awQ'[s])[1] = m /\ Head(awQ'[s])[2] = wDone'[m] + 1
      /\ Head(awQ'[s]) = <<m, wDone'[m] + 1>>
  BY <1>1
<1>5. received'[s] = IF Head(awQ'[s])[2] = wDone'[Head(awQ'[s])[1]] + 1
                       THEN wBeat'[Head(awQ'[s])[1]] ELSE 0
  BY <1>4, <1>1
<1>6. ASSUME NEW x \in Masters, wBeat'[x] # 0, burst'[x][wDone'[x] + 1].dst = s
      PROVE  awQ'[s] # <<>> /\ Head(awQ'[s]) = <<x, wDone'[x] + 1>>
  <2>1. CASE x = m
    BY <2>1, <1>4
  <2>2. CASE x # m
    BY <2>2, <1>6, <1>1, <1>0 DEF CountsBeats
  <2> QED
    BY <2>1, <2>2
<1>7. CountsBeats(s)'
  BY <1>5, <1>6 DEF CountsBeats
<1> QED
  BY <1>3, <1>7

\* The last beat: the slave's oldest request and its routing entry go together.
LEMMA LastBeat ==
  ASSUME Routing, InStep, Paired, NEW m \in Masters, NEW s \in Slaves, masterWTargets[m] # <<>>,
         SendBeat(m), WLast(m), awQ[s] # <<>>, wOrder[s] # <<>>,
         NEW n \in Nat, n = wDone[m] + 1,
         Head(awQ[s]) = <<m, n>>, received'[s] = 0, awQ'[s] = Tail(awQ[s]),
         awWire'[s] = awWire[s], wOrder'[s] = Tail(wOrder[s]), UNCHANGED <<burst, awDone>>
  PROVE  ListsPending(s)' /\ CountsBeats(s)'
<1>0. ListsPending(s) /\ CountsBeats(s)
  BY DEF Paired
<1>1. /\ wDone[m] \in Nat /\ awDone[m] \in Nat
      /\ \A x \in Masters : x # m => wDone'[x] = wDone[x] /\ wBeat'[x] = wBeat[x]
      /\ wDone'[m] = n /\ wBeat'[m] = 0
  BY SendFacts, NextBurst
<1>q. PICK q \in Seq(Ref) : q = awQ[s]
  BY DEF Routing, TypeOK
<1>2. PICK L \in Nat : PendingLen(s) = L + 1 /\ Len(q) \in Nat /\ Len(q) <= L + 1
  <2>1. PendingLen(s) \in Nat /\ 1 \in 1 .. PendingLen(s) /\ Len(q) \in Nat /\ Len(q) <= PendingLen(s)
    BY <1>q, PendingTyped
  <2>2. PendingLen(s) - 1 \in Nat /\ PendingLen(s) = (PendingLen(s) - 1) + 1
    BY <2>1
  <2> QED
    BY <2>1, <2>2
<1>3. /\ awQ'[s] = Tail(q) /\ Len(Tail(q)) = Len(q) - 1 /\ q # <<>>
      /\ \A k \in 1 .. Len(q) - 1 : Tail(q)[k] = q[k + 1]
  BY <1>q, TailFacts
<1>4. PendingLen(s)' = L
  <2>1. CASE awWire[s] = None
    BY <2>1, <1>2, <1>3, <1>q DEF PendingLen
  <2>2. CASE awWire[s] # None
    BY <2>2, <1>2, <1>3, <1>q DEF PendingLen
  <2> QED
    BY <2>1, <2>2
<1>5. \A k \in 1 .. L : Pending(s, k)' = Pending(s, k + 1) /\ k + 1 \in 1 .. L + 1
  <2> TAKE k \in 1 .. L
  <2>1. k <= Len(q) - 1 <=> k + 1 <= Len(q)
    BY <1>2
  <2>2. CASE k + 1 <= Len(q)
    <3>1. Tail(q)[k] = q[k + 1]
      BY <2>1, <2>2, <1>2, <1>3
    <3> QED
      BY <3>1, <2>1, <2>2, <1>3, <1>q DEF Pending
  <2>3. CASE ~(k + 1 <= Len(q))
    BY <2>1, <2>3, <1>3, <1>q DEF Pending
  <2> QED
    BY <2>2, <2>3
<1>6. 1 \in 1 .. L + 1 /\ Pending(s, 1) = <<m, n>>
  BY <1>2, PendingTyped
<1>7. \A k \in 1 .. L + 1 : Pending(s, k) \in Ref
  BY <1>2, PendingTyped
\* Of what was pending only the burst just completed is no longer in flight.
<1>8. ASSUME NEW r \in Ref PROVE InFlight(r, s)' <=> InFlight(r, s) /\ r # <<m, n>>
  <2>1. r[1] \in Masters /\ r[2] \in Nat /\ r = <<r[1], r[2]>>
    BY BusWriteAssumption DEF Ref
  <2>2. CASE r[1] # m
    <3>1. r # <<m, n>>
      BY <2>2
    <3> QED
      BY <3>1, <2>1, <2>2, <1>1 DEF InFlight
  <2>3. CASE r[1] = m
    <3>1. r = <<m, n>> <=> r[2] = n
      BY <2>1, <2>3
    <3>2. r[2] \in n + 1 .. awDone[m] <=> r[2] \in wDone[m] + 1 .. awDone[m] /\ r[2] # n
      BY <2>1, <1>1
    <3> QED
      BY <2>3, <3>1, <3>2, <1>1 DEF InFlight
  <2> QED
    BY <2>2, <2>3
<1>9. \A k \in 1 .. L : Pending(s, k + 1) # <<m, n>>
  <2> TAKE k \in 1 .. L
  <2>1. k + 1 \in 1 .. L + 1 /\ 1 < k + 1
    OBVIOUS
  <2>2. Pending(s, 1)[1] = Pending(s, k + 1)[1] => Pending(s, 1)[2] < Pending(s, k + 1)[2]
    BY <2>1, <1>0, <1>2, <1>6 DEF ListsPending
  <2>3. <<m, n>>[1] = m /\ <<m, n>>[2] = n /\ ~(n < n)
    OBVIOUS
  <2> QED
    BY <2>2, <2>3, <1>6
<1>10. Len(wOrder'[s]) = L /\ \A k \in 1 .. L : wOrder'[s][k] = wOrder[s][k + 1]
  <2>1. PICK w \in Seq(Masters) : w = wOrder[s]
    BY DEF Routing, TypeOK
  <2>2. Len(w) = L + 1
    BY <2>1, <1>0, <1>2 DEF ListsPending
  <2>3. Len(Tail(w)) = Len(w) - 1 /\ \A k \in 1 .. Len(w) - 1 : Tail(w)[k] = w[k + 1]
    BY <2>1, TailFacts
  <2>4. Len(w) - 1 = L
    BY <2>2
  <2> QED
    BY <2>1, <2>3, <2>4
<1>11. \A k \in 1 .. L : wOrder'[s][k] = Pending(s, k)'[1] /\ InFlight(Pending(s, k), s)'
  <2> TAKE k \in 1 .. L
  <2>1. PICK r \in Ref : r = Pending(s, k + 1)
    BY <1>5, <1>7
  <2>2. r = Pending(s, k)' /\ r # <<m, n>>
    BY <2>1, <1>5, <1>9
  <2>3. wOrder[s][k + 1] = r[1] /\ InFlight(r, s)
    BY <2>1, <1>0, <1>2, <1>5 DEF ListsPending
  <2>4. InFlight(r, s)'
    BY <2>2, <2>3, <1>8
  <2>5. InFlight(Pending(s, k), s)'
    BY <2>2, <2>4 DEF InFlight
  <2> QED
    BY <2>2, <2>3, <2>5, <1>10
<1>12. \A j, k \in 1 .. L :
          j < k /\ Pending(s, j)'[1] = Pending(s, k)'[1] => Pending(s, j)'[2] < Pending(s, k)'[2]
  <2> TAKE j, k \in 1 .. L
  <2>1. Pending(s, j)' = Pending(s, j + 1) /\ Pending(s, k)' = Pending(s, k + 1)
    BY <1>5
  <2>2. j + 1 \in 1 .. L + 1 /\ k + 1 \in 1 .. L + 1 /\ (j < k => j + 1 < k + 1)
    OBVIOUS
  <2>3. j < k /\ Pending(s, j + 1)[1] = Pending(s, k + 1)[1]
          => Pending(s, j + 1)[2] < Pending(s, k + 1)[2]
    BY <2>2, <1>0, <1>2 DEF ListsPending
  <2> QED
    BY <2>1, <2>3
<1>13. \A r \in Ref : InFlight(r, s)' => \E k \in 1 .. L : Pending(s, k)' = r
  <2> SUFFICES ASSUME NEW r \in Ref, InFlight(r, s)' PROVE \E k \in 1 .. L : Pending(s, k)' = r
    OBVIOUS
  <2>1. InFlight(r, s) /\ r # <<m, n>>
    BY <1>8
  <2>2. PICK k \in 1 .. L + 1 : Pending(s, k) = r
    BY <2>1, <1>0, <1>2 DEF ListsPending
  <2>3. k # 1
    BY <2>1, <2>2, <1>6
  <2>4. k - 1 \in 1 .. L /\ (k - 1) + 1 = k
    BY <2>3
  <2>5. Pending(s, k - 1)' = Pending(s, k)
    BY <2>4, <1>5
  <2> QED
    BY <2>2, <2>4, <2>5
<1>14. ListsPending(s)'
  <2>1. Len(wOrder'[s]) = PendingLen(s)'
    BY <1>4, <1>10
  <2>2. \A k \in 1 .. PendingLen(s)' :
           wOrder'[s][k] = Pending(s, k)'[1] /\ InFlight(Pending(s, k), s)'
    BY <1>4, <1>11
  <2>3. \A j, k \in 1 .. PendingLen(s)' :
           j < k /\ Pending(s, j)'[1] = Pending(s, k)'[1] => Pending(s, j)'[2] < Pending(s, k)'[2]
    BY <1>4, <1>12
  <2>4. \A r \in Ref : InFlight(r, s)' => \E k \in 1 .. PendingLen(s)' : Pending(s, k)' = r
    BY <1>4, <1>13
  <2> QED
    BY <2>1, <2>2, <2>3, <2>4 DEF ListsPending
\* No other master has sent part of a burst to s: that burst would be its head.
<1>15. \A x \in Masters : x # m => ~(wBeat[x] # 0 /\ burst[x][wDone[x] + 1].dst = s)
  <2> TAKE x \in Masters
  <2>1. x # m => <<x, wDone[x] + 1>> # <<m, n>>
    OBVIOUS
  <2> QED
    BY <2>1, <1>0 DEF CountsBeats
<1>16. awQ'[s] # <<>> =>
          received'[s] = IF Head(awQ'[s])[2] = wDone'[Head(awQ'[s])[1]] + 1
                           THEN wBeat'[Head(awQ'[s])[1]] ELSE 0
  <2> SUFFICES ASSUME Tail(q) # <<>>
               PROVE  Head(Tail(q))[2] = wDone'[Head(Tail(q))[1]] + 1
                         => wBeat'[Head(Tail(q))[1]] = 0
    BY <1>3
  <2>1. Tail(q) \in Seq(Ref) /\ Len(q) \in Nat \ {0}
    BY <1>3, TailFacts
  <2>2. Head(Tail(q)) = Tail(q)[1] /\ Len(Tail(q)) \in Nat \ {0} /\ Head(Tail(q)) \in Ref
    BY <2>1, TailFacts
  <2>3. 1 \in 1 .. Len(q) - 1 /\ 2 <= Len(q)
    BY <2>1, <2>2, <1>3
  <2>4. PICK r \in Ref : r = Head(Tail(q))
    BY <2>2
  <2>5. r = Pending(s, 2) /\ 2 \in 1 .. L + 1
    <3>1. r = q[2]
      BY <2>2, <2>3, <2>4, <1>3
    <3>2. 2 \in 1 .. L + 1
      BY <2>3, <1>2
    <3> QED
      BY <3>1, <3>2, <2>3, <1>q DEF Pending
  <2>6. InFlight(r, s)
    BY <2>5, <1>0, <1>2 DEF ListsPending
  <2>7. r[1] \in Masters
    BY DEF Ref
  <2>8. CASE r[1] = m
    BY <2>4, <2>8, <1>1
  <2>9. CASE r[1] # m
    BY <2>4, <2>6, <2>7, <2>9, <1>1, <1>15 DEF InFlight
  <2> QED
    BY <2>8, <2>9
<1>17. ASSUME NEW x \in Masters, wBeat'[x] # 0, burst'[x][wDone'[x] + 1].dst = s
       PROVE  FALSE
  BY <1>17, <1>1, <1>15
<1>18. CountsBeats(s)'
  BY <1>16, <1>17 DEF CountsBeats
<1> QED
  BY <1>14, <1>18

LEMMA WTransferPaired ==
  ASSUME Routing, InStep, Paired, NEW m \in Masters, NEW s \in Slaves, WTransfer(m, s)
  PROVE  Paired'
<1>t. /\ awQ \in [Slaves -> Seq(Ref)] /\ wOrder \in [Slaves -> Seq(Masters)]
      /\ received \in [Slaves -> Nat]
  BY DEF Routing, TypeOK
<1>0. /\ Serves(s, m) /\ WReady(s) /\ SendBeat(m) /\ wOrder[s] # <<>> /\ awQ[s] # <<>>
      /\ masterWTargets[m] # <<>> /\ Head(masterWTargets[m]) = s
      /\ UNCHANGED <<burst, awDone, awWire>>
  BY DEF WTransfer, Serves, WReady
<1>1. Head(awQ[s]) = <<m, wDone[m] + 1>> /\ received[s] = wBeat[m]
  BY <1>0, ServedIsHead DEF Paired
<1>2. /\ wDone[m] + 1 \in Nat /\ burst[m][wDone[m] + 1].dst = s
  <2>1. wDone[m] \in Nat /\ burst[m][wDone[m] + 1].dst = Head(masterWTargets[m])
    BY <1>0, NextBurst
  <2> QED
    BY <2>1, <1>0
\* The slave's last expected beat is the one with WLAST.
<1>3. received[s] + 1 = BurstOf(Head(awQ[s])).beats <=> WLast(m)
  BY <1>1 DEF BurstOf, WLast
<1>4. /\ wOrder' = IF WLast(m) THEN [wOrder EXCEPT ![s] = Tail(@)] ELSE wOrder
      /\ received' = [received EXCEPT ![s] = IF WLast(m) THEN 0 ELSE @ + 1]
      /\ awQ' = IF WLast(m) THEN [awQ EXCEPT ![s] = Tail(@)] ELSE awQ
  BY <1>3 DEF WTransfer, RetireMapped
<1>5. ASSUME NEW t \in Slaves, t # s PROVE ListsPending(t)' /\ CountsBeats(t)'
  <2>1. awQ'[t] = awQ[t] /\ awWire'[t] = awWire[t]
    BY <1>0, <1>4, <1>5, <1>t
  <2>2. wOrder'[t] = wOrder[t]
    BY <1>4, <1>5, <1>t
  <2>3. received'[t] = received[t]
    BY <1>4, <1>5, <1>t
  <2> QED
    BY <2>1, <2>2, <2>3, <1>0, <1>2, <1>5, BeatElsewhere
<1>6. ListsPending(s)' /\ CountsBeats(s)'
  <2>1. CASE ~WLast(m)
    <3>1. /\ awQ'[s] = awQ[s] /\ wOrder'[s] = wOrder[s] /\ awWire'[s] = awWire[s]
          /\ received'[s] = received[s] + 1
      BY <2>1, <1>0, <1>4, <1>t
    <3> QED
      BY <3>1, <2>1, <1>0, <1>1, MidBeat
  <2>2. CASE WLast(m)
    <3>1. awQ'[s] = Tail(awQ[s]) /\ awWire'[s] = awWire[s]
      BY <2>2, <1>0, <1>4, <1>t
    <3>2. wOrder'[s] = Tail(wOrder[s])
      BY <2>2, <1>4, <1>t
    <3>3. received'[s] = 0
      BY <2>2, <1>4, <1>t
    <3>4. PICK n \in Nat : n = wDone[m] + 1
      BY <1>2
    <3> QED
      BY <3>1, <3>2, <3>3, <3>4, <2>2, <1>0, <1>1, LastBeat
  <2> QED
    BY <2>1, <2>2
<1>7. SentAfterAddress'
  BY <1>0, BeatSent DEF Paired
<1> QED
  BY <1>5, <1>6, <1>7 DEF Paired

--------------------------------------------------------------------------------
(* The invariant *)

LEMMA InitPairing == Init => Pairing
<1> SUFFICES ASSUME Init PROVE Paired
  BY DEF Pairing
<1>1. ASSUME NEW s \in Slaves PROVE ListsPending(s)
  <2>1. PendingLen(s) = 0 /\ Len(wOrder[s]) = 0
    BY DEF Init, PendingLen, None
  <2>2. ASSUME NEW b \in Ref PROVE ~InFlight(b, s)
    <3>1. b[1] \in Masters
      BY DEF Ref
    <3>2. wDone[b[1]] = 0 /\ awDone[b[1]] = 0
      BY <3>1 DEF Init
    <3> QED
      BY <3>2 DEF InFlight
  <2> QED
    BY <2>1, <2>2 DEF ListsPending
<1>2. ASSUME NEW s \in Slaves PROVE CountsBeats(s)
  BY DEF Init, CountsBeats
<1>3. SentAfterAddress
  BY DEF Init, SentAfterAddress
<1> QED
  BY <1>1, <1>2, <1>3 DEF Paired

\* A lost pulse stays lost.
LEMMA LostForGood == [Next]_vars /\ lost' = {} => lost = {}
<1> SUFFICES ASSUME [Next]_vars, lost' = {} PROVE lost = {}
  OBVIOUS
<1>1. ASSUME NEW m \in Masters, NEW b \in Shapes, IssueWrite(m, b) PROVE lost = {}
  BY <1>1, SMTT(30) DEF IssueWrite, slaveVars
<1>2. ASSUME NEW m \in Masters, MasterStep(m) PROVE lost = {}
  BY <1>2 DEF MasterStep, AwDecerr, AwForward, WSink, BPick, BDeliver, BAck, ReleaseWrite, slaveVars
<1>3. ASSUME NEW s \in Slaves, SlaveStep(s) PROVE lost = {}
  BY <1>3 DEF SlaveStep, SlaveAw, SlaveCommit, SlaveBValid
<1>4. ASSUME NEW m \in Masters, NEW s \in Slaves, WTransfer(m, s) PROVE lost = {}
  BY <1>4 DEF WTransfer
<1>5. CASE UNCHANGED vars
  BY <1>5 DEF vars, slaveVars
<1> QED
  BY <1>1, <1>2, <1>3, <1>4, <1>5 DEF Next, Progress

\* A step of a stream, at its last beat: how many targets it retires.
LEMMA BeatRetires ==
  ASSUME Routing, NEW m \in Masters,
         WSink(m) \/ \E s \in Slaves : WTransfer(m, s)
  PROVE  /\ WLast(m) => /\ Retired(m)' \in {Retired(m) + 1, Retired(m) + 2}
                        /\ wDone'[m] = wDone[m] + 1
                        /\ Retired(m)' = Retired(m) + 2 => burst[m][Retired(m) + 2].dst = Sink
         /\ ~WLast(m) => Retired(m)' = Retired(m) /\ wDone'[m] = wDone[m]
         /\ \A x \in Masters : x # m => Retired(x)' = Retired(x) /\ wDone'[x] = wDone[x]
<1>1. /\ SendBeat(m) /\ UNCHANGED <<burst, awDone>> /\ masterWTargets[m] # <<>>
  BY DEF WSink, WTransfer, SinkServes, Serves
<1>2. CASE WLast(m)
  <2>1. \/ Head(masterWTargets[m]) = Sink /\ RetireRefused(m, masterWTargets[m])
        \/ Head(masterWTargets[m]) # Sink /\ RetireRefused(m, Tail(masterWTargets[m]))
    BY <1>2, SinkNotSlave DEF WSink, WTransfer, SinkServes, Serves, RetireMapped
  <2>2. /\ Retired(m)' \in {Retired(m) + 1, Retired(m) + 2}
        /\ Retired(m)' = Retired(m) + 2 => burst[m][Retired(m) + 2].dst = Sink
        /\ \A x \in Masters : x # m => masterWTargets'[x] = masterWTargets[x]
    BY <1>1, <1>2, <2>1, BooksAtLastBeat
  <2>3. \A x \in Masters : x # m => Retired(x)' = Retired(x)
    BY <1>1, <2>2 DEF Retired
  <2> QED
    BY <1>1, <1>2, <2>2, <2>3, SendFacts
<1>3. CASE ~WLast(m)
  <2>1. UNCHANGED <<masterWTargets, awDone>>
    BY <1>3, <1>1 DEF WSink, WTransfer, RetireMapped
  <2>2. \A x \in Masters : Retired(x)' = Retired(x)
    BY <2>1 DEF Retired
  <2> QED
    BY <1>1, <1>3, <2>2, SendFacts
<1> QED
  BY <1>2, <1>3

\* A target is booked with its address: nothing is retired.
LEMMA BookingRetires ==
  ASSUME Routing, NEW m \in Masters, NEW t \in 0 .. NumS,
         awDone' = [awDone EXCEPT ![m] = awDone[m] + 1],
         masterWTargets' = [masterWTargets EXCEPT ![m] = Append(@, t)]
  PROVE  \A x \in Masters : Retired(x)' = Retired(x)
<1> TAKE x \in Masters
<1>1. /\ awDone \in [Masters -> Nat] /\ masterWTargets \in [Masters -> Seq(0 .. NumS)]
  BY DEF Routing, TypeOK
<1>2. CASE x = m
  <2>1. /\ awDone[m] \in Nat /\ awDone'[m] = awDone[m] + 1
        /\ Len(masterWTargets[m]) \in Nat
        /\ Len(masterWTargets'[m]) = Len(masterWTargets[m]) + 1
    BY <1>1
  <2>2. awDone'[m] - Len(masterWTargets'[m]) = awDone[m] - Len(masterWTargets[m])
    BY <2>1
  <2> QED
    BY <1>2, <2>2 DEF Retired
<1>3. CASE x # m
  BY <1>1, <1>3 DEF Retired
<1> QED
  BY <1>2, <1>3

\* Once out of step, a stream stays so.
LEMMA OutOfStepForGood ==
  ASSUME Routing, [Next]_vars, InStep'
  PROVE  InStep
<1>0. \A x \in Masters : /\ wDone[x] \in Nat /\ Retired(x) \in Nat /\ wDone[x] <= Retired(x)
                        /\ Retired(x)' = wDone'[x]
  BY RoutingBooks DEF InStep
<1>1. ASSUME UNCHANGED <<awDone, masterWTargets, wDone>> PROVE InStep
  BY <1>0, <1>1 DEF InStep, Retired
<1>2. ASSUME NEW m \in Masters,
             WSink(m) \/ \E s \in Slaves : WTransfer(m, s)
      PROVE  InStep
  <2> SUFFICES ASSUME NEW x \in Masters PROVE Retired(x) = wDone[x]
    BY DEF InStep
  <2>1. CASE x = m
    <3>1. \/ /\ Retired(m)' \in {Retired(m) + 1, Retired(m) + 2}
             /\ wDone'[m] = wDone[m] + 1
          \/ Retired(m)' = Retired(m) /\ wDone'[m] = wDone[m]
      BY <1>2, BeatRetires
    <3> QED
      BY <2>1, <3>1, <1>0
  <2>2. CASE x # m
    <3>1. Retired(x)' = Retired(x) /\ wDone'[x] = wDone[x]
      BY <1>2, <2>2, BeatRetires
    <3> QED
      BY <3>1, <1>0
  <2> QED
    BY <2>1, <2>2
<1>3. ASSUME NEW m \in Masters, AwDecerr(m) \/ AwForward(m) PROVE InStep
  <2>1. \A x \in Masters : Retired(x)' = Retired(x)
    <3>1. CASE AwDecerr(m)
      BY <3>1, SinkNotSlave, BookingRetires DEF AwDecerr
    <3>2. CASE AwForward(m)
      <4>1. burst[m][awDone[m] + 1].dst \in 0 .. NumS
        <5>1. /\ burst[m] \in Seq(Shapes) /\ awDone[m] \in Nat /\ awDone[m] < Len(burst[m])
          BY <3>2 DEF Routing, TypeOK, AwForward, AwPending
        <5>2. awDone[m] + 1 \in 1 .. Len(burst[m])
          BY <5>1
        <5>3. burst[m][awDone[m] + 1] \in Shapes
          BY <5>1, <5>2
        <5> QED
          BY <5>3, BusWriteAssumption
      <4> QED
        BY <3>2, <4>1, BookingRetires DEF AwForward
    <3> QED
      BY <1>3, <3>1, <3>2
  <2>2. wDone' = wDone
    BY <1>3 DEF AwDecerr, AwForward
  <2> QED
    BY <2>1, <2>2, <1>0 DEF InStep
<1>4. ASSUME NEW m \in Masters, NEW b \in Shapes, IssueWrite(m, b) PROVE InStep
  BY <1>4, <1>1 DEF IssueWrite, busVars
<1>5. ASSUME NEW m \in Masters, MasterStep(m) PROVE InStep
  <2>1. CASE AwDecerr(m) \/ AwForward(m)
    BY <2>1, <1>3
  <2>2. CASE WSink(m)
    BY <2>2, <1>2
  <2>3. CASE BPick(m) \/ BDeliver(m) \/ BAck(m) \/ ReleaseWrite(m)
    BY <2>3, <1>1 DEF BPick, BDeliver, BAck, ReleaseWrite, masterVars, busVars
  <2> QED
    BY <1>5, <2>1, <2>2, <2>3 DEF MasterStep
<1>6. ASSUME NEW s \in Slaves, SlaveStep(s) PROVE InStep
  BY <1>6, <1>1 DEF SlaveStep, SlaveAw, SlaveCommit, SlaveBValid, masterVars, busVars
<1>7. ASSUME NEW m \in Masters, NEW s \in Slaves, WTransfer(m, s) PROVE InStep
  BY <1>7, <1>2
<1>8. CASE UNCHANGED vars
  BY <1>8, <1>1 DEF vars, masterVars, busVars
<1> QED
  BY <1>4, <1>5, <1>6, <1>7, <1>8 DEF Next, Progress

\* Pairing is inductive, given Routing.
LEMMA PairingInductive == Routing /\ Pairing /\ [Next]_vars => Pairing'
<1> SUFFICES ASSUME Routing, Pairing, [Next]_vars, lost' = {}, InStep' PROVE Paired'
  BY DEF Pairing
<1>0. Paired /\ InStep
  BY LostForGood, OutOfStepForGood DEF Pairing
<1>1. ASSUME NEW m \in Masters, NEW b \in Shapes, IssueWrite(m, b) PROVE Paired'
  BY <1>0, <1>1, IssueWritePaired
<1>2. ASSUME NEW m \in Masters, MasterStep(m) PROVE Paired'
  <2>1. CASE AwDecerr(m)
    BY <2>1, <1>0, AwDecerrPaired
  <2>2. CASE AwForward(m)
    BY <2>2, <1>0, AwForwardPaired
  <2>3. CASE WSink(m)
    BY <2>3, <1>0, WSinkPaired
  <2>4. CASE BPick(m)
    BY <2>4, <1>0, KeptPaired DEF BPick, masterVars, slaveVars
  <2>5. CASE BDeliver(m)
    BY <2>5, <1>0, KeptPaired DEF BDeliver, slaveVars
  <2>6. CASE BAck(m)
    BY <2>6, <1>0, KeptPaired DEF BAck, masterVars
  <2>7. CASE ReleaseWrite(m)
    BY <2>7, <1>0, KeptPaired DEF ReleaseWrite, busVars, slaveVars
  <2> QED
    BY <1>2, <2>1, <2>2, <2>3, <2>4, <2>5, <2>6, <2>7 DEF MasterStep
<1>3. ASSUME NEW s \in Slaves, SlaveStep(s) PROVE Paired'
  <2>1. CASE SlaveAw(s)
    BY <2>1, <1>0, SlaveAwPaired
  <2>2. CASE SlaveCommit(s)
    BY <2>2, <1>0, KeptPaired DEF SlaveCommit, masterVars, busVars
  <2>3. CASE SlaveBValid(s)
    BY <2>3, <1>0, KeptPaired DEF SlaveBValid, masterVars, busVars
  <2> QED
    BY <1>3, <2>1, <2>2, <2>3 DEF SlaveStep
<1>4. ASSUME NEW m \in Masters, NEW s \in Slaves, WTransfer(m, s) PROVE Paired'
  BY <1>0, <1>4, WTransferPaired
<1>5. CASE UNCHANGED vars
  BY <1>5, <1>0, KeptPaired DEF vars, masterVars, busVars, slaveVars
<1> QED
  BY <1>1, <1>2, <1>3, <1>4, <1>5 DEF Next, Progress

\* As long as no AW pulse is lost and the streams are in step, the bus's w_order_
\* and the slaves' aw_q_ name the same bursts in the same order, and a slave has
\* counted exactly the beats its master has sent, for every number of masters and
\* slaves.
THEOREM PairingAlways == Spec => []Pairing
<1>1. Init => Pairing
  BY InitPairing
<1>2. Routing /\ Pairing /\ [Next]_vars => Pairing'
  BY PairingInductive
<1> QED
  BY <1>1, <1>2, RoutingAlways, PTL DEF Spec

\* No W beat is ever stored under another burst's address, unless a pulse of AW
\* has been lost or a stream has got out of step before.
THEOREM DataFollowsAddress == Spec => []WBeatsFollowTheirAddress
<1>1. Routing /\ Pairing => WBeatsFollowTheirAddress
  <2> SUFFICES ASSUME Routing, Pairing, lost = {}, InStep, NEW s \in Slaves, NEW m \in Masters,
                      Serves(s, m), WReady(s)
               PROVE  Head(awQ[s]) = <<m, wDone[m] + 1>> /\ received[s] = wBeat[m]
    BY DEF WBeatsFollowTheirAddress
  <2>1. ListsPending(s) /\ CountsBeats(s)
    BY DEF Pairing, Paired
  <2> QED
    BY <2>1, ServedIsHead
<1> QED
  BY <1>1, RoutingAlways, PairingAlways, PTL

----------------------------------------------------------------------------
(* The order of the address grants *)

\* A burst whose address the bus has taken and whose target is still booked.
Open(b) == b[2] \in Retired(b[1]) + 1 .. awDone[b[1]]

\* Its target is s.
Due(b, s) == Open(b) /\ burst[b[1]][b[2]].dst = s

\* q names the bursts whose masters w_order_[s] lists: those due to s, by rank.
Lists(q, s, rank) ==
  /\ Len(q) = Len(wOrder[s])
  /\ \A k \in 1 .. Len(q) : q[k][1] = wOrder[s][k] /\ Due(q[k], s)
  /\ \A j, k \in 1 .. Len(q) : j < k => rank[q[j]] < rank[q[k]]
  /\ \A b \in Ref : Due(b, s) => Holds(q, b)

\* Bursts of a master have rising ranks, all below the next one.
Ranked(rank, top) ==
  /\ \A b \in Ref : Open(b) => rank[b] < top
  /\ \A b, c \in Ref : Open(b) /\ Open(c) /\ b[1] = c[1] /\ b[2] < c[2] => rank[b] < rank[c]

Granted ==
  \E rank \in [Ref -> Nat], top \in Nat :
    /\ Ranked(rank, top)
    /\ \A s \in Slaves : \E q \in Seq(Ref) : Lists(q, s, rank)

LEMMA RefPair ==
  \A b \in Ref : b = <<b[1], b[2]>> /\ b[1] \in Masters /\ b[2] \in 1 .. MaxBursts /\ b[2] \in Nat
BY DEF Ref

\* The counters of a master.
LEMMA CountersTyped ==
  ASSUME Routing, NEW m \in Masters
  PROVE  /\ Retired(m) \in Nat /\ awDone[m] \in Nat /\ Len(burst[m]) \in Nat
         /\ Retired(m) <= awDone[m] /\ awDone[m] <= Len(burst[m]) /\ Len(burst[m]) <= MaxBursts
         /\ burst[m] \in Seq(Shapes)
<1>1. burst[m] \in Seq(Shapes) /\ Len(burst[m]) <= MaxBursts
  BY DEF Routing, TypeOK
<1> QED
  BY <1>1, RoutingBooks

\* The oldest of a master's targets is the destination of its oldest open burst.
LEMMA OldestOpen ==
  ASSUME Routing, NEW m \in Masters, masterWTargets[m] # <<>>
  PROVE  /\ Retired(m) \in Nat /\ awDone[m] \in Nat
         /\ Retired(m) + 1 \in Retired(m) + 1 .. awDone[m]
         /\ <<m, Retired(m) + 1>> \in Ref
         /\ burst[m][Retired(m) + 1].dst = Head(masterWTargets[m])
<1>1. /\ Books(masterWTargets[m], errAwid[m], burst[m], Retired(m), awDone[m])
      /\ masterWTargets[m] \in Seq(0 .. NumS) /\ awDone[m] \in Nat /\ Retired(m) \in Nat
  BY RoutingBooks DEF Booked
<1>2. /\ Retired(m) + 1 \in Retired(m) + 1 .. awDone[m]
      /\ burst[m][Retired(m) + 1].dst = Head(masterWTargets[m])
  BY <1>1, RetireAny
<1>3. MaxBursts \in Nat /\ awDone[m] <= Len(burst[m]) /\ Len(burst[m]) <= MaxBursts /\ Len(burst[m]) \in Nat
  BY CountersTyped, BusWriteAssumption
<1>4. Retired(m) + 1 \in 1 .. MaxBursts
  BY <1>1, <1>2, <1>3
<1> QED
  BY <1>1, <1>2, <1>4 DEF Ref

LEMMA KeptLists ==
  ASSUME NEW s \in Slaves, NEW q \in Seq(Ref), NEW rank, NEW r, Lists(q, s, rank),
         wOrder'[s] = wOrder[s], \A b \in Ref : Due(b, s)' <=> Due(b, s),
         \A b \in Ref : Due(b, s) => r[b] = rank[b]
  PROVE  Lists(q, s, r)'
<1>1. \A k \in 1 .. Len(q) : q[k] \in Ref /\ Due(q[k], s) /\ q[k][1] = wOrder[s][k]
  BY DEF Lists
<1>2. \A k \in 1 .. Len(q) : Due(q[k], s)' /\ r[q[k]] = rank[q[k]]
  BY <1>1
<1>3. \A j, k \in 1 .. Len(q) : j < k => r[q[j]] < r[q[k]]
  BY <1>2 DEF Lists
<1>4. \A b \in Ref : Due(b, s)' => Holds(q, b)
  BY DEF Lists
<1>5. Len(q) = Len(wOrder'[s]) /\ \A k \in 1 .. Len(q) : q[k][1] = wOrder'[s][k]
  BY <1>1 DEF Lists
<1> QED
  BY <1>2, <1>3, <1>4, <1>5 DEF Lists

LEMMA KeptGranted ==
  ASSUME Granted, wOrder' = wOrder, \A b \in Ref : Open(b)' <=> Open(b),
         \A s \in Slaves : \A b \in Ref : Due(b, s)' <=> Due(b, s)
  PROVE  Granted'
<1>1. PICK rank \in [Ref -> Nat], top \in Nat :
        /\ Ranked(rank, top)
        /\ \A s \in Slaves : \E q \in Seq(Ref) : Lists(q, s, rank)
  BY DEF Granted
<1>2. Ranked(rank, top)'
  BY <1>1 DEF Ranked
<1>3. ASSUME NEW s \in Slaves PROVE \E q \in Seq(Ref) : Lists(q, s, rank)'
  BY <1>1, KeptLists
<1> QED
  BY <1>2, <1>3 DEF Granted

LEMMA FrameGranted ==
  ASSUME Granted, UNCHANGED <<burst, awDone, masterWTargets, wOrder>>
  PROVE  Granted'
<1>1. \A b \in Ref : Open(b)' <=> Open(b)
  BY DEF Open, Retired
<1>2. \A s \in Slaves : \A b \in Ref : Due(b, s)' <=> Due(b, s)
  BY <1>1 DEF Due
<1> QED
  BY <1>1, <1>2, KeptGranted

LEMMA IssueGranted ==
  ASSUME Routing, Granted, NEW m \in Masters, NEW b \in Shapes, IssueWrite(m, b)
  PROVE  Granted'
<1>1. /\ burst' = [burst EXCEPT ![m] = Append(@, b)] /\ burst \in [Masters -> Seq(Shapes)]
      /\ UNCHANGED <<awDone, masterWTargets, wOrder>>
  BY DEF IssueWrite, busVars, Routing, TypeOK
<1>2. \A c \in Ref : Open(c)' <=> Open(c)
  BY <1>1 DEF Open, Retired
<1>3. ASSUME NEW c \in Ref, Open(c) PROVE burst'[c[1]][c[2]] = burst[c[1]][c[2]]
  <2> DEFINE x == c[1]
  <2>1. /\ x \in Masters /\ Retired(x) \in Nat /\ awDone[x] \in Nat /\ awDone[x] <= Len(burst[x])
        /\ burst[x] \in Seq(Shapes)
    BY RefPair, CountersTyped
  <2>2. c[2] \in 1 .. Len(burst[x])
    BY <1>3, <2>1, RefPair DEF Open
  <2>3. burst'[x] = burst[x] \/ burst'[x] = Append(burst[x], b)
    BY <1>1, <2>1
  <2> QED
    BY <2>1, <2>2, <2>3
<1>4. \A s \in Slaves : \A c \in Ref : Due(c, s)' <=> Due(c, s)
  BY <1>1, <1>2, <1>3 DEF Due
<1> QED
  BY <1>1, <1>2, <1>4, KeptGranted

----------------------------------------------------------------------------
(* A grant gets the next rank *)

LEMMA NewOpen ==
  ASSUME Routing, NEW m \in Masters, AwPending(m), NEW n \in Nat, n = awDone[m] + 1,
         awDone' = [awDone EXCEPT ![m] = n], UNCHANGED burst, NEW t \in 0 .. NumS,
         masterWTargets' = [masterWTargets EXCEPT ![m] = Append(@, t)]
  PROVE  /\ <<m, n>> \in Ref /\ ~Open(<<m, n>>)
         /\ \A b \in Ref : Open(b)' <=> Open(b) \/ b = <<m, n>>
         /\ \A s : \A b \in Ref :
              Due(b, s)' <=> Due(b, s) \/ (b = <<m, n>> /\ burst[m][n].dst = s)
         /\ \A b \in Ref : Open(b) /\ b[1] = m => b[2] < n
<1>1. /\ Retired(m) \in Nat /\ awDone[m] \in Nat /\ Len(burst[m]) \in Nat /\ Retired(m) <= awDone[m]
      /\ awDone[m] < Len(burst[m]) /\ Len(burst[m]) <= MaxBursts
  BY CountersTyped DEF AwPending
<1>2. awDone \in [Masters -> Nat] /\ \A x \in Masters : Retired(x)' = Retired(x)
  BY BookingRetires DEF Routing, TypeOK
<1>3. MaxBursts \in Nat
  BY BusWriteAssumption
<1>4. n \in 1 .. MaxBursts
  BY <1>1, <1>3
<1>5. <<m, n>> \in Ref
  BY <1>4 DEF Ref
<1>6. ~Open(<<m, n>>)
  BY <1>1 DEF Open
<1>7. ASSUME NEW b \in Ref PROVE Open(b)' <=> Open(b) \/ b = <<m, n>>
  <2>1. CASE b[1] = m
    <3>1. b[2] \in Nat /\ (b = <<m, n>> <=> b[2] = n)
      BY <2>1, RefPair
    <3>2. awDone'[m] = n /\ Retired(m)' = Retired(m)
      BY <1>2
    <3>3. b[2] \in Retired(m) + 1 .. n <=> b[2] \in Retired(m) + 1 .. awDone[m] \/ b[2] = n
      BY <1>1, <3>1
    <3> QED
      BY <2>1, <3>1, <3>2, <3>3 DEF Open
  <2>2. CASE b[1] # m
    BY <2>2, <1>2, RefPair DEF Open
  <2> QED
    BY <2>1, <2>2
<1>8. ASSUME NEW s, NEW b \in Ref
      PROVE  Due(b, s)' <=> Due(b, s) \/ (b = <<m, n>> /\ burst[m][n].dst = s)
  <2>1. Due(b, s)' <=> Open(b)' /\ burst[b[1]][b[2]].dst = s
    BY DEF Due
  <2>2. Due(b, s) <=> Open(b) /\ burst[b[1]][b[2]].dst = s
    BY DEF Due
  <2>3. b = <<m, n>> => b[1] = m /\ b[2] = n
    OBVIOUS
  <2> QED
    BY <1>7, <2>1, <2>2, <2>3
<1>9. ASSUME NEW b \in Ref, Open(b), b[1] = m PROVE b[2] < n
  BY <1>1, <1>9, RefPair DEF Open
<1> QED
  BY <1>5, <1>6, <1>7, <1>8, <1>9

LEMMA NewRank ==
  ASSUME NEW b0 \in Ref, ~Open(b0), \A b \in Ref : Open(b)' <=> Open(b) \/ b = b0,
         \A b \in Ref : Open(b) /\ b[1] = b0[1] => b[2] < b0[2],
         NEW rank \in [Ref -> Nat], NEW top \in Nat, Ranked(rank, top),
         NEW r, r = [rank EXCEPT ![b0] = top]
  PROVE  /\ r \in [Ref -> Nat] /\ Ranked(r, top + 1)' /\ r[b0] = top
         /\ \A b \in Ref : Open(b) => r[b] = rank[b] /\ r[b] < top
<1>1. r \in [Ref -> Nat] /\ r[b0] = top /\ \A b \in Ref : b # b0 => r[b] = rank[b]
  OBVIOUS
<1>2. \A b \in Ref : Open(b) => r[b] = rank[b] /\ r[b] < top
  BY <1>1 DEF Ranked
<1>3. \A b \in Ref : Open(b)' => r[b] < top + 1
  <2> SUFFICES ASSUME NEW b \in Ref, Open(b)' PROVE r[b] < top + 1
    OBVIOUS
  <2>1. r[b] \in Nat /\ (r[b] = top \/ r[b] < top)
    BY <1>1, <1>2
  <2> QED
    BY <2>1
<1>4. ASSUME NEW b \in Ref, NEW c \in Ref, Open(b)', Open(c)', b[1] = c[1], b[2] < c[2]
      PROVE  r[b] < r[c]
  <2>1. CASE Open(b) /\ Open(c)
    BY <1>2, <1>4, <2>1 DEF Ranked
  <2>2. CASE Open(b) /\ c = b0
    BY <1>1, <1>2, <2>2
  <2>3. CASE b = b0
    <3>1. c # b0 /\ b[2] \in Nat /\ c[2] \in Nat
      BY <1>4, <2>3, RefPair
    <3>2. c[2] < b0[2]
      BY <1>4, <2>3, <3>1
    <3> QED
      BY <1>4, <2>3, <3>1, <3>2
  <2> QED
    BY <1>4, <2>1, <2>2, <2>3
<1> QED
  BY <1>1, <1>2, <1>3, <1>4 DEF Ranked

LEMMA DecerrGranted ==
  ASSUME Routing, Granted, NEW m \in Masters, AwDecerr(m)
  PROVE  Granted'
<1>1. PICK rank \in [Ref -> Nat], top \in Nat :
        /\ Ranked(rank, top)
        /\ \A s \in Slaves : \E q \in Seq(Ref) : Lists(q, s, rank)
  BY DEF Granted
<1>2. PICK n \in Nat : n = awDone[m] + 1
  BY CountersTyped
<1>3. /\ AwPending(m) /\ awDone' = [awDone EXCEPT ![m] = n] /\ burst[m][n].dst = Sink
      /\ UNCHANGED <<burst, wOrder>>
      /\ masterWTargets' = [masterWTargets EXCEPT ![m] = Append(@, Sink)]
  BY <1>2 DEF AwDecerr
<1> DEFINE b0 == <<m, n>>
<1>4. /\ b0 \in Ref /\ ~Open(b0) /\ b0[1] = m /\ b0[2] = n
      /\ \A b \in Ref : Open(b)' <=> Open(b) \/ b = b0
      /\ \A s : \A b \in Ref :
           Due(b, s)' <=> Due(b, s) \/ (b = b0 /\ burst[m][n].dst = s)
      /\ \A b \in Ref : Open(b) /\ b[1] = m => b[2] < n
  BY <1>2, <1>3, NewOpen, SinkNotSlave
<1>5. PICK r : r = [rank EXCEPT ![b0] = top]
  OBVIOUS
<1>6. /\ r \in [Ref -> Nat] /\ Ranked(r, top + 1)'
      /\ \A b \in Ref : Open(b) => r[b] = rank[b]
  <2> HIDE DEF b0
  <2> QED
    BY <1>1, <1>4, <1>5, NewRank
<1>7. ASSUME NEW s \in Slaves PROVE \E q \in Seq(Ref) : Lists(q, s, r)'
  <2>1. PICK q \in Seq(Ref) : Lists(q, s, rank)
    BY <1>1
  <2>2. \A b \in Ref : Due(b, s)' <=> Due(b, s)
    BY <1>3, <1>4, SinkNotSlave
  <2>3. \A b \in Ref : Due(b, s) => r[b] = rank[b]
    BY <1>6 DEF Due
  <2> QED
    BY <1>3, <2>1, <2>2, <2>3, KeptLists
<1>8. top + 1 \in Nat
  OBVIOUS
<1> QED
  BY <1>6, <1>7, <1>8 DEF Granted

LEMMA ForwardGranted ==
  ASSUME Routing, Granted, NEW m \in Masters, AwForward(m)
  PROVE  Granted'
<1>1. PICK rank \in [Ref -> Nat], top \in Nat :
        /\ Ranked(rank, top)
        /\ \A s \in Slaves : \E q \in Seq(Ref) : Lists(q, s, rank)
  BY DEF Granted
<1>2. PICK n \in Nat : n = awDone[m] + 1
  BY CountersTyped
<1>3. PICK d : d = burst[m][n].dst
  OBVIOUS
<1>4. /\ AwPending(m) /\ awDone' = [awDone EXCEPT ![m] = n] /\ d # Sink
      /\ wOrder' = [wOrder EXCEPT ![d] = Append(@, m)] /\ wOrder \in [Slaves -> Seq(Masters)]
      /\ masterWTargets' = [masterWTargets EXCEPT ![m] = Append(@, d)]
      /\ UNCHANGED burst
  BY <1>2, <1>3 DEF AwForward, Routing, TypeOK
<1>5. d \in Slaves /\ d \in 0 .. NumS
  <2>1. n \in 1 .. Len(burst[m]) /\ burst[m] \in Seq(Shapes)
    BY <1>2, <1>4, CountersTyped DEF AwPending
  <2>2. burst[m][n] \in Shapes
    BY <2>1
  <2>3. d \in 0 .. NumS
    BY <2>2, <1>3, BusWriteAssumption
  <2> QED
    BY <2>3, <1>4, SinkNotSlave
<1> DEFINE b0 == <<m, n>>
<1>6. /\ b0 \in Ref /\ ~Open(b0) /\ b0[1] = m /\ b0[2] = n
      /\ \A b \in Ref : Open(b)' <=> Open(b) \/ b = b0
      /\ \A s : \A b \in Ref : Due(b, s)' <=> Due(b, s) \/ (b = b0 /\ d = s)
      /\ \A b \in Ref : Open(b) /\ b[1] = m => b[2] < n
  BY <1>2, <1>3, <1>4, <1>5, NewOpen
<1>7. PICK r : r = [rank EXCEPT ![b0] = top]
  OBVIOUS
<1>8. /\ r \in [Ref -> Nat] /\ Ranked(r, top + 1)' /\ r[b0] = top
      /\ \A b \in Ref : Open(b) => r[b] = rank[b] /\ r[b] < top
  <2> HIDE DEF b0
  <2> QED
    BY <1>1, <1>6, <1>7, NewRank
<1>9. \A s : \A b \in Ref : Due(b, s) => Open(b)
  BY DEF Due
<1>10. ASSUME NEW s \in Slaves, s # d PROVE \E q \in Seq(Ref) : Lists(q, s, r)'
  <2>1. PICK q \in Seq(Ref) : Lists(q, s, rank)
    BY <1>1
  <2>2. wOrder'[s] = wOrder[s] /\ \A b \in Ref : Due(b, s)' <=> Due(b, s)
    BY <1>4, <1>6, <1>10
  <2>3. \A b \in Ref : Due(b, s) => r[b] = rank[b]
    BY <1>8, <1>9
  <2> QED
    BY <2>1, <2>2, <2>3, KeptLists
<1>11. \E q \in Seq(Ref) : Lists(q, d, r)'
  <2>1. PICK q \in Seq(Ref) : Lists(q, d, rank)
    BY <1>1, <1>5
  <2>2. PICK p : p = Append(q, b0)
    OBVIOUS
  <2> HIDE DEF b0
  <2>3. /\ p \in Seq(Ref) /\ Len(q) \in Nat /\ Len(p) = Len(q) + 1 /\ p[Len(q) + 1] = b0
        /\ \A i \in 1 .. Len(q) : p[i] = q[i]
        /\ \A x : Holds(p, x) <=> Holds(q, x) \/ x = b0
    BY <1>6, <2>1, <2>2, AppendQueue
  <2>4. /\ Len(wOrder'[d]) = Len(wOrder[d]) + 1 /\ wOrder'[d][Len(wOrder[d]) + 1] = m
        /\ \A k \in 1 .. Len(wOrder[d]) : wOrder'[d][k] = wOrder[d][k]
    <3>1. wOrder'[d] = Append(wOrder[d], m) /\ wOrder[d] \in Seq(Masters)
      BY <1>4, <1>5
    <3> QED
      BY <3>1, AppendQueue
  <2>5. /\ Len(q) = Len(wOrder[d])
        /\ \A k \in 1 .. Len(q) : q[k] \in Ref /\ q[k][1] = wOrder[d][k] /\ Due(q[k], d)
        /\ \A j, k \in 1 .. Len(q) : j < k => rank[q[j]] < rank[q[k]]
        /\ \A b \in Ref : Due(b, d) => Holds(q, b)
    BY <2>1 DEF Lists
  <2>6. /\ \A k \in 1 .. Len(p) : k \in 1 .. Len(q) \/ k = Len(q) + 1
        /\ \A j, k \in 1 .. Len(p) : j < k => j \in 1 .. Len(q)
    BY <2>3
  <2>7. Len(p) = Len(wOrder'[d]) /\ \A k \in 1 .. Len(p) : p[k][1] = wOrder'[d][k]
    BY <1>6, <2>3, <2>4, <2>5, <2>6
  <2>8. \A k \in 1 .. Len(p) : Due(p[k], d)'
    BY <1>6, <2>3, <2>5, <2>6
  <2>9. ASSUME NEW j \in 1 .. Len(p), NEW k \in 1 .. Len(p), j < k PROVE r[p[j]] < r[p[k]]
    <3>1. j \in 1 .. Len(q) /\ p[j] = q[j] /\ r[q[j]] = rank[q[j]] /\ r[q[j]] < top
      BY <1>8, <1>9, <2>3, <2>5, <2>6, <2>9
    <3>2. CASE k \in 1 .. Len(q)
      BY <3>1, <3>2, <1>8, <1>9, <2>3, <2>5, <2>9, ZenonT(40)
    <3>3. CASE k = Len(q) + 1
      BY <3>1, <3>3, <1>8, <2>3
    <3> QED
      BY <3>2, <3>3, <2>6
  <2>10. \A b \in Ref : Due(b, d)' => Holds(p, b)
    BY <1>6, <2>3, <2>5
  <2>11. Lists(p, d, r)'
    BY <2>7, <2>8, <2>9, <2>10 DEF Lists
  <2> QED
    BY <2>3, <2>11
<1>12. top + 1 \in Nat
  OBVIOUS
<1> QED
  BY <1>8, <1>10, <1>11, <1>12 DEF Granted

----------------------------------------------------------------------------
(* A last beat closes its burst *)

LEMMA BeatCloses ==
  ASSUME Routing, NEW m \in Masters, WSink(m) \/ \E t \in Slaves : WTransfer(m, t),
         NEW n \in Nat, n = Retired(m) + 1
  PROVE  /\ <<m, n>> \in Ref /\ Open(<<m, n>>) /\ burst[m][n].dst = Head(masterWTargets[m])
         /\ \A b \in Ref : Open(b)' => Open(b)
         /\ \A s \in Slaves : \A b \in Ref :
              Due(b, s)' <=> Due(b, s) /\ ~(WLast(m) /\ b = <<m, n>>)
<1>0. masterWTargets[m] # <<>> /\ UNCHANGED <<burst, awDone>>
  BY DEF WSink, WTransfer, SinkServes, Serves
<1>1. /\ Retired(m) \in Nat /\ awDone[m] \in Nat /\ n \in Retired(m) + 1 .. awDone[m]
      /\ <<m, n>> \in Ref /\ burst[m][n].dst = Head(masterWTargets[m])
  BY <1>0, OldestOpen
<1>2. Open(<<m, n>>)
  BY <1>1 DEF Open
<1>3. /\ \A x \in Masters : x # m => Retired(x)' = Retired(x)
      /\ WLast(m) => /\ Retired(m)' \in {n, n + 1}
                     /\ Retired(m)' = n + 1 => burst[m][n + 1].dst = Sink
      /\ ~WLast(m) => Retired(m)' = Retired(m)
  <2>1. Retired(m) + 2 = n + 1
    BY <1>1
  <2> QED
    BY <2>1, BeatRetires
<1>4. ASSUME NEW b \in Ref, b[1] # m \/ ~WLast(m) PROVE Open(b)' <=> Open(b)
  <2>1. b[1] \in Masters /\ Retired(b[1])' = Retired(b[1])
    BY <1>3, <1>4, RefPair
  <2> QED
    BY <2>1, <1>0 DEF Open
<1>5. ASSUME NEW b \in Ref, b[1] = m, WLast(m)
      PROVE  /\ Open(b)' => Open(b) /\ b # <<m, n>>
             /\ Open(b) /\ b # <<m, n>> => Open(b)' \/ burst[m][b[2]].dst = Sink
  <2>1. b[2] \in Nat /\ (b = <<m, n>> <=> b[2] = n)
    BY <1>5, RefPair
  <2>2. Open(b)' <=> b[2] \in Retired(m)' + 1 .. awDone[m]
    BY <1>5, <1>0 DEF Open
  <2>3. Open(b) <=> b[2] \in n .. awDone[m]
    BY <1>5, <1>1 DEF Open
  <2>4. CASE Retired(m)' = n
    BY <2>1, <2>2, <2>3, <2>4, <1>1
  <2>5. CASE Retired(m)' = n + 1
    <3>1. burst[m][n + 1].dst = Sink
      BY <2>5, <1>3, <1>5
    <3> QED
      BY <2>1, <2>2, <2>3, <2>5, <1>1, <3>1
  <2> QED
    BY <2>4, <2>5, <1>3, <1>5
<1>6. \A b \in Ref : Open(b)' => Open(b)
  BY <1>4, <1>5
<1>7. ASSUME NEW s \in Slaves, NEW b \in Ref
      PROVE  Due(b, s)' <=> Due(b, s) /\ ~(WLast(m) /\ b = <<m, n>>)
  <2>1. Due(b, s)' <=> Open(b)' /\ burst[b[1]][b[2]].dst = s
    BY <1>0 DEF Due
  <2>2. Due(b, s) <=> Open(b) /\ burst[b[1]][b[2]].dst = s
    BY DEF Due
  <2>3. CASE b[1] # m \/ ~WLast(m)
    <3>1. b = <<m, n>> => b[1] = m
      OBVIOUS
    <3> QED
      BY <2>1, <2>2, <2>3, <3>1, <1>4
  <2>4. CASE b[1] = m /\ WLast(m)
    <3>1. burst[m][b[2]].dst = s => burst[m][b[2]].dst # Sink
      BY SinkNotSlave
    <3> QED
      BY <2>1, <2>2, <2>4, <3>1, <1>5
  <2> QED
    BY <2>3, <2>4
<1> QED
  BY <1>1, <1>2, <1>6, <1>7

LEMMA FewerRanked ==
  ASSUME NEW rank, NEW top, Ranked(rank, top), \A b \in Ref : Open(b)' => Open(b)
  PROVE  Ranked(rank, top)'
BY DEF Ranked

LEMMA SinkGranted ==
  ASSUME Routing, Granted, NEW m \in Masters, WSink(m)
  PROVE  Granted'
<1>1. PICK rank \in [Ref -> Nat], top \in Nat :
        /\ Ranked(rank, top)
        /\ \A s \in Slaves : \E q \in Seq(Ref) : Lists(q, s, rank)
  BY DEF Granted
<1>2. PICK n \in Nat : n = Retired(m) + 1
  BY CountersTyped
<1>3. Head(masterWTargets[m]) = Sink /\ UNCHANGED wOrder
  BY DEF WSink, SinkServes
<1>4. /\ burst[m][n].dst = Sink
      /\ \A b \in Ref : Open(b)' => Open(b)
      /\ \A s \in Slaves : \A b \in Ref :
           Due(b, s)' <=> Due(b, s) /\ ~(WLast(m) /\ b = <<m, n>>)
  BY <1>2, <1>3, BeatCloses
<1>5. ASSUME NEW s \in Slaves PROVE \E q \in Seq(Ref) : Lists(q, s, rank)'
  <2>1. PICK q \in Seq(Ref) : Lists(q, s, rank)
    BY <1>1
  <2>2. \A b \in Ref : Due(b, s) => b # <<m, n>>
    BY <1>4, SinkNotSlave DEF Due
  <2>3. \A b \in Ref : Due(b, s)' <=> Due(b, s)
    BY <1>4, <2>2
  <2> QED
    BY <1>3, <2>1, <2>3, KeptLists
<1> QED
  BY <1>1, <1>4, <1>5, FewerRanked DEF Granted

\* The oldest burst listed at s of the master s serves is the one that master streams.
LEMMA ServedIsOldest ==
  ASSUME Routing, NEW m \in Masters, NEW s \in Slaves, Serves(s, m), NEW n \in Nat,
         n = Retired(m) + 1, NEW rank \in [Ref -> Nat], NEW top, Ranked(rank, top),
         NEW q \in Seq(Ref), Lists(q, s, rank)
  PROVE  q # <<>> /\ Head(q) = <<m, n>>
<1>1. /\ masterWTargets[m] # <<>> /\ Head(masterWTargets[m]) = s /\ wOrder[s] # <<>>
      /\ Head(wOrder[s]) = m /\ wOrder[s] \in Seq(Masters)
  BY DEF Serves, Routing, TypeOK
<1> DEFINE b0 == <<m, n>>
<1>2. b0 \in Ref /\ Due(b0, s) /\ b0[1] = m /\ b0[2] = n /\ Retired(m) \in Nat
  BY <1>1, OldestOpen DEF Due, Open
<1>3. PICK k \in 1 .. Len(q) : q[k] = b0
  BY <1>2 DEF Lists, Holds
<1>4. q # <<>> /\ 1 \in 1 .. Len(q) /\ Head(q) = q[1] /\ (k = 1 \/ 1 < k)
  <2>1. Len(q) \in Nat
    OBVIOUS
  <2>2. k \in Nat /\ 1 <= k /\ k <= Len(q)
    BY <1>3
  <2>3. q # <<>>
    BY <2>1, <2>2
  <2> QED
    BY <2>1, <2>2, <2>3, TailFacts
<1>5. wOrder[s][1] = m
  BY <1>1, TailFacts
<1>6. q[1] \in Ref /\ q[1][1] = m /\ Due(q[1], s)
  BY <1>4, <1>5 DEF Lists
<1>7. 1 < k => rank[q[1]] < rank[b0]
  BY <1>3, <1>4 DEF Lists
<1>8. q[1][2] \in Nat /\ n <= q[1][2] /\ q[1] = <<m, q[1][2]>>
  <2>1. q[1][2] \in Retired(m) + 1 .. awDone[m]
    BY <1>6 DEF Due, Open
  <2> QED
    BY <1>2, <1>6, <2>1, RefPair
<1>9. n < q[1][2] => rank[b0] < rank[q[1]]
  BY <1>2, <1>6 DEF Ranked, Due, Open
<1>10. rank[b0] \in Nat /\ rank[q[1]] \in Nat
  BY <1>2, <1>6
<1>11. k = 1
  <2>1. ASSUME 1 < k PROVE FALSE
    <3>1. rank[q[1]] < rank[b0] /\ ~(n < q[1][2])
      BY <1>7, <1>9, <1>10, <2>1
    <3>2. q[1] = b0
      BY <1>8, <3>1
    <3> QED
      BY <1>10, <3>1, <3>2
  <2> QED
    BY <1>4, <2>1
<1> QED
  BY <1>3, <1>4, <1>11

LEMMA TransferGranted ==
  ASSUME Routing, Granted, NEW m \in Masters, NEW s \in Slaves, WTransfer(m, s)
  PROVE  Granted'
<1>1. PICK rank \in [Ref -> Nat], top \in Nat :
        /\ Ranked(rank, top)
        /\ \A t \in Slaves : \E q \in Seq(Ref) : Lists(q, t, rank)
  BY DEF Granted
<1>2. PICK n \in Nat : n = Retired(m) + 1
  BY CountersTyped
<1>3. /\ Serves(s, m) /\ Head(masterWTargets[m]) = s
      /\ wOrder' = IF WLast(m) THEN [wOrder EXCEPT ![s] = Tail(@)] ELSE wOrder
      /\ wOrder[s] # <<>> /\ wOrder \in [Slaves -> Seq(Masters)]
  BY DEF WTransfer, RetireMapped, Serves, Routing, TypeOK
<1> DEFINE b0 == <<m, n>>
<1>4. /\ b0 \in Ref /\ burst[m][n].dst = s /\ b0[1] = m /\ b0[2] = n
      /\ \A b \in Ref : Open(b)' => Open(b)
      /\ \A t \in Slaves : \A b \in Ref :
           Due(b, t)' <=> Due(b, t) /\ ~(WLast(m) /\ b = b0)
  BY <1>2, <1>3, BeatCloses
<1>5. ASSUME NEW t \in Slaves, t # s \/ ~WLast(m) PROVE \E q \in Seq(Ref) : Lists(q, t, rank)'
  <2>1. PICK q \in Seq(Ref) : Lists(q, t, rank)
    BY <1>1
  <2>2. wOrder'[t] = wOrder[t]
    BY <1>3, <1>5
  <2>3. \A b \in Ref : Due(b, t)' <=> Due(b, t)
    BY <1>4, <1>5 DEF Due
  <2> QED
    BY <2>1, <2>2, <2>3, KeptLists
<1>6. ASSUME WLast(m) PROVE \E q \in Seq(Ref) : Lists(q, s, rank)'
  <2>1. PICK q \in Seq(Ref) : Lists(q, s, rank)
    BY <1>1
  <2>2. q # <<>> /\ Head(q) = b0
    <3>1. Serves(s, m) /\ Ranked(rank, top) /\ Lists(q, s, rank) /\ n = Retired(m) + 1
      BY <1>1, <1>2, <1>3, <2>1
    <3>2. q # <<>> /\ Head(q) = <<m, n>>
      BY <3>1, ServedIsOldest
    <3> QED
      BY <3>2
  <2>3. PICK p : p = Tail(q)
    OBVIOUS
  <2> HIDE DEF b0
  <2>4. /\ p \in Seq(Ref) /\ Head(q) = q[1] /\ Len(q) \in Nat \ {0} /\ Len(p) = Len(q) - 1
        /\ \A i \in 1 .. Len(q) - 1 : p[i] = q[i + 1]
    BY <2>1, <2>2, <2>3, TailQueue
  <2>5. /\ Len(wOrder'[s]) = Len(wOrder[s]) - 1
        /\ \A i \in 1 .. Len(wOrder[s]) - 1 : wOrder'[s][i] = wOrder[s][i + 1]
    <3>1. wOrder'[s] = Tail(wOrder[s]) /\ wOrder[s] \in Seq(Masters)
      BY <1>3, <1>6
    <3> QED
      BY <1>3, <3>1, TailQueue
  <2>6. /\ Len(q) = Len(wOrder[s])
        /\ \A k \in 1 .. Len(q) : q[k] \in Ref /\ q[k][1] = wOrder[s][k] /\ Due(q[k], s)
        /\ \A j, k \in 1 .. Len(q) : j < k => rank[q[j]] < rank[q[k]]
        /\ \A b \in Ref : Due(b, s) => Holds(q, b)
    <3>1. \A k \in 1 .. Len(q) : q[k] \in Ref
      BY <2>1
    <3>2. /\ Len(q) = Len(wOrder[s])
          /\ \A k \in 1 .. Len(q) : q[k][1] = wOrder[s][k] /\ Due(q[k], s)
          /\ \A j, k \in 1 .. Len(q) : j < k => rank[q[j]] < rank[q[k]]
          /\ \A b \in Ref : Due(b, s) => Holds(q, b)
      BY <2>1, Zenon DEF Lists
    <3> QED
      BY <3>1, <3>2, Zenon
  <2>7. /\ \A k \in 1 .. Len(p) : k \in 1 .. Len(q) - 1 /\ k + 1 \in 1 .. Len(q) /\ 1 < k + 1
        /\ \A j, k \in 1 .. Len(p) : j < k => j + 1 < k + 1
        /\ 1 \in 1 .. Len(q)
        /\ \A k \in 1 .. Len(q) : k = 1 \/ (k - 1 \in 1 .. Len(p) /\ (k - 1) + 1 = k)
    BY <2>4
  <2>8. Len(p) = Len(wOrder'[s]) /\ \A k \in 1 .. Len(p) : p[k][1] = wOrder'[s][k]
    <3>1. ASSUME NEW k \in 1 .. Len(p) PROVE p[k][1] = wOrder'[s][k]
      <4>1. p[k] = q[k + 1] /\ wOrder'[s][k] = wOrder[s][k + 1]
        BY <2>4, <2>5, <2>6, <2>7
      <4> QED
        BY <4>1, <2>6, <2>7
    <3> QED
      BY <3>1, <2>4, <2>5, <2>6
  <2>9. ASSUME NEW k \in 1 .. Len(p) PROVE p[k] # b0 /\ Due(p[k], s)'
    <3>1. p[k] = q[k + 1] /\ q[k + 1] \in Ref /\ Due(q[k + 1], s)
      BY <2>4, <2>6, <2>7
    <3>2. rank[q[1]] < rank[q[k + 1]] /\ rank[q[1]] \in Nat
      BY <2>6, <2>7
    <3>3. q[k + 1] # q[1]
      BY <3>2
    <3> QED
      BY <1>4, <2>2, <2>4, <3>1, <3>3
  <2>10. \A j, k \in 1 .. Len(p) : j < k => rank[p[j]] < rank[p[k]]
    BY <2>4, <2>6, <2>7, ZenonT(40)
  <2>11. ASSUME NEW b \in Ref, Due(b, s)' PROVE Holds(p, b)
    <3>1. Due(b, s) /\ b # b0
      BY <1>4, <1>6, <2>11
    <3>2. PICK k \in 1 .. Len(q) : q[k] = b
      BY <2>6, <3>1 DEF Holds
    <3>3. k # 1
      BY <2>2, <2>4, <3>1, <3>2
    <3>4. k - 1 \in 1 .. Len(p) /\ p[k - 1] = b
      BY <2>4, <2>7, <3>2, <3>3
    <3> QED
      BY <3>4 DEF Holds
  <2>12. Lists(p, s, rank)'
    BY <2>8, <2>9, <2>10, <2>11 DEF Lists
  <2> QED
    BY <2>4, <2>12
<1>7. Ranked(rank, top)'
  BY <1>1, <1>4, FewerRanked
<1>8. ASSUME NEW t \in Slaves PROVE \E q \in Seq(Ref) : Lists(q, t, rank)'
  BY <1>5, <1>6
<1> QED
  BY <1>7, <1>8 DEF Granted

LEMMA InitGranted == Init => Granted
<1> SUFFICES ASSUME Init PROVE Granted
  OBVIOUS
<1>1. PICK rank \in [Ref -> Nat] : rank = [b \in Ref |-> 0]
  OBVIOUS
<1>2. \A b \in Ref : ~Open(b)
  <2>1. \A x \in Masters : Retired(x) = 0 /\ awDone[x] = 0
    BY DEF Init, Retired
  <2> QED
    BY <2>1, RefPair DEF Open
<1>3. \A s \in Slaves : \A b \in Ref : ~Due(b, s)
  BY <1>2 DEF Due
<1>4. Ranked(rank, 0)
  BY <1>2 DEF Ranked
<1>5. ASSUME NEW s \in Slaves PROVE Lists(<<>>, s, rank)
  <2>1. wOrder[s] = <<>> /\ Len(<<>>) = 0 /\ \A k \in 1 .. 0 : FALSE
    BY DEF Init
  <2> QED
    BY <1>3, <2>1 DEF Lists
<1>6. <<>> \in Seq(Ref) /\ 0 \in Nat
  OBVIOUS
<1> QED
  BY <1>4, <1>5, <1>6 DEF Granted

LEMMA GrantedNext == Routing /\ Granted /\ [Next]_vars => Granted'
<1> SUFFICES ASSUME Routing, Granted, [Next]_vars PROVE Granted'
  OBVIOUS
<1>1. ASSUME NEW m \in Masters, BPick(m) \/ BDeliver(m) \/ BAck(m) \/ ReleaseWrite(m)
      PROVE  Granted'
  BY <1>1, FrameGranted DEF BPick, BDeliver, BAck, ReleaseWrite, masterVars, busVars
<1>2. ASSUME NEW s \in Slaves, SlaveStep(s) PROVE Granted'
  BY <1>2, FrameGranted DEF SlaveStep, SlaveAw, SlaveCommit, SlaveBValid, masterVars, busVars
<1>3. CASE UNCHANGED vars
  BY <1>3, FrameGranted DEF vars, masterVars, busVars
<1>4. ASSUME NEW m \in Masters, MasterStep(m) PROVE Granted'
  BY <1>1, <1>4, DecerrGranted, ForwardGranted, SinkGranted DEF MasterStep
<1>5. ASSUME NEW m \in Masters, NEW b \in Shapes, IssueWrite(m, b) PROVE Granted'
  BY <1>5, IssueGranted
<1>6. ASSUME NEW m \in Masters, NEW s \in Slaves, WTransfer(m, s) PROVE Granted'
  BY <1>6, TransferGranted
<1> QED
  BY <1>2, <1>3, <1>4, <1>5, <1>6 DEF Next, Progress

\* However the arbiters grant, and even after AW pulses have been lost, the bursts under way
\* can be put in one order that every master's master_w_targets_ and every w_order_ follows.
THEOREM GrantedAlways == Spec => []Granted
<1>1. Routing /\ Granted /\ [Next]_vars => Granted'
  BY GrantedNext
<1> QED
  BY <1>1, InitGranted, RoutingAlways, PTL DEF Spec

\* The W paths never wait on each other in a circle (w_forward of axi_bus.h): whenever data is
\* due, the burst granted first has its path wired through.
THEOREM WPathAlwaysOpen == Spec => []WPathNeverCircular
<1>1. Routing /\ Granted => WPathNeverCircular
  <2> SUFFICES ASSUME Routing, Granted, NEW m0 \in Masters, masterWTargets[m0] # <<>>
               PROVE  \E m \in Masters : SinkServes(m) \/ \E s \in Slaves : Serves(s, m)
    BY DEF WPathNeverCircular
  <2>1. PICK rank \in [Ref -> Nat], top \in Nat :
          /\ Ranked(rank, top)
          /\ \A s \in Slaves : \E q \in Seq(Ref) : Lists(q, s, rank)
    BY DEF Granted
  <2>2. \E b \in Ref : Open(b)
    BY OldestOpen DEF Open
  <2> DEFINE T == {rank[b] : b \in {c \in Ref : Open(c)}}
  <2>3. PICK x \in T : \A y \in T : x <= y
    <3>1. T \subseteq Nat /\ T # {}
      BY <2>2
    <3> HIDE DEF T
    <3> QED
      BY <3>1, LeastNatural
  <2>4. PICK b \in Ref : Open(b) /\ rank[b] = x
    OBVIOUS
  <2>5. \A c \in Ref : Open(c) => rank[b] <= rank[c]
    BY <2>3, <2>4
  <2> HIDE DEF T
  <2>6. PICK m \in Masters, n \in Nat : b = <<m, n>> /\ b[1] = m /\ b[2] = n
    BY RefPair
  <2>7. /\ Retired(m) \in Nat /\ awDone[m] \in Nat /\ n \in Retired(m) + 1 .. awDone[m]
        /\ awDone[m] <= MaxBursts
    BY <2>4, <2>6, CountersTyped, BusWriteAssumption DEF Open
  <2>8. masterWTargets[m] # <<>>
    <3>1. awDone[m] = Retired(m) + Len(masterWTargets[m])
      BY RoutingBooks
    <3>2. Len(masterWTargets[m]) # 0
      BY <2>7, <3>1
    <3> QED
      BY <3>2
  <2>9. n = Retired(m) + 1 /\ burst[m][n].dst = Head(masterWTargets[m])
    <3>1. PICK k \in Nat : k = Retired(m) + 1
      BY <2>7
    <3>2. <<m, k>> \in Ref /\ Open(<<m, k>>) /\ burst[m][k].dst = Head(masterWTargets[m])
      BY <2>8, <3>1, OldestOpen DEF Open
    <3>3. k < n => rank[<<m, k>>] < rank[b]
      BY <2>1, <2>4, <2>6, <3>2 DEF Ranked
    <3>4. rank[b] <= rank[<<m, k>>] /\ rank[b] \in Nat /\ rank[<<m, k>>] \in Nat
      BY <2>5, <3>2
    <3>5. ~(k < n)
      BY <3>3, <3>4
    <3>6. k = n
      BY <2>7, <3>1, <3>5
    <3> QED
      BY <3>1, <3>2, <3>6
  <2>10. CASE burst[m][n].dst = Sink
    BY <2>8, <2>9, <2>10 DEF SinkServes
  <2>11. CASE burst[m][n].dst # Sink
    <3>1. PICK s \in Slaves : s = burst[m][n].dst
      <4>1. masterWTargets[m] \in Seq(0 .. NumS)
        BY DEF Routing, TypeOK
      <4>2. Head(masterWTargets[m]) \in 0 .. NumS
        BY <2>8, <4>1, TailFacts
      <4> QED
        BY <2>9, <2>11, <4>2, SinkNotSlave
    <3>2. PICK q \in Seq(Ref) : Lists(q, s, rank)
      BY <2>1
    <3>3. Due(b, s)
      BY <2>4, <2>6, <3>1 DEF Due
    <3>4. PICK k \in 1 .. Len(q) : q[k] = b
      BY <3>2, <3>3 DEF Lists, Holds
    <3>5. 1 \in 1 .. Len(q) /\ (k = 1 \/ 1 < k) /\ Len(q) \in Nat
      <4>1. Len(q) \in Nat
        OBVIOUS
      <4> QED
        BY <3>4, <4>1
    <3>6. q[1] \in Ref /\ Open(q[1]) /\ (1 < k => rank[q[1]] < rank[b])
      BY <3>2, <3>4, <3>5 DEF Lists, Due, Open
    <3>7. k = 1
      <4>1. rank[q[1]] \in Nat /\ rank[b] \in Nat /\ rank[b] <= rank[q[1]]
        BY <2>5, <3>6
      <4> QED
        BY <3>5, <3>6, <4>1
    <3>8. wOrder[s] \in Seq(Masters) /\ Len(wOrder[s]) = Len(q) /\ wOrder[s][1] = m
      BY <2>6, <3>2, <3>4, <3>5, <3>7 DEF Lists, Routing, TypeOK
    <3>9. wOrder[s] # <<>> /\ Head(wOrder[s]) = m
      <4>1. wOrder[s] # <<>>
        BY <3>5, <3>8
      <4> QED
        BY <3>8, <4>1, TailFacts
    <3> QED
      BY <2>8, <2>9, <3>1, <3>9 DEF Serves
  <2> QED
    BY <2>10, <2>11
<1> QED
  BY <1>1, GrantedAlways, RoutingAlways, PTL

----------------------------------------------------------------------------
(* The inductive invariant of the responses *)

\* The bursts of an id go to one slave, or are all refused.
Dedicated == \A a, b \in Shapes : a.id = b.id => a.dst = b.dst

\* A burst of m is complete and its response, due from s (or, with s = Sink, from the
\* bus), has not been taken off: not delivered, or delivered and not acknowledged.
Acking(b) == bPc[b[1]] = "ack" /\ bNum[b[1]] = b[2]
Owed(b, s) ==
  /\ b[2] \in 1 .. wDone[b[1]] /\ burst[b[1]][b[2]].dst = s
  /\ b[2] \notin answered[b[1]] \/ Acking(b)

\* A slave owes what it is committing and what waits in b_q_, each master's in order.
MasterOrder(q) == \A j, k \in 1 .. Len(q) : j < k /\ q[j][1] = q[k][1] => q[j][2] < q[k][2]
SlaveOwes(s) ==
  /\ \A b \in Ref : Owed(b, s) <=> Holds(bQ[s], b) \/ commit[s] = b
  /\ MasterOrder(bQ[s])
  /\ commit[s] # None =>
       \A k \in 1 .. Len(bQ[s]) : bQ[s][k][1] = commit[s][1] => bQ[s][k][2] < commit[s][2]

\* The bus owes what is in err_writes_pending_b_.
BusOwes == (\A b \in Ref : Owed(b, Sink) <=> Holds(errB, b)) /\ MasterOrder(errB)

\* write_order_ is the masters of what a slave owes, then w_order_.
Held(s) == IF commit[s] = None THEN 0 ELSE 1
TurnsMatch(s) ==
  /\ Len(writeOrder[s]) = Len(bQ[s]) + Held(s) + Len(wOrder[s])
  /\ \A k \in 1 .. Len(bQ[s]) : writeOrder[s][k] = bQ[s][k][1]
  /\ commit[s] # None => writeOrder[s][Len(bQ[s]) + 1] = commit[s][1]
  /\ \A k \in 1 .. Len(wOrder[s]) : writeOrder[s][Len(bQ[s]) + Held(s) + k] = wOrder[s][k]

\* id_write_order_ is the unanswered bursts of the id, in order of issue.
QueueOf(m, i) ==
  /\ \A j, k \in 1 .. Len(idOrder[m][i]) : j < k => idOrder[m][i][j] < idOrder[m][i][k]
  /\ \A n \in 1 .. MaxBursts :
       Holds(idOrder[m][i], n) <=>
         n <= Len(burst[m]) /\ burst[m][n].id = i /\ n \notin answered[m]

\* Tickets are given back in order, of answered bursts, which are complete.
Tickets(m) ==
  /\ answered[m] \subseteq 1 .. wDone[m]
  /\ \A n \in 1 .. released[m] : n \in answered[m]
  /\ Len(burst[m]) - released[m] <= Pool

\* b_drain_master(m) is at the oldest response it is owed by its source.
Draining(m) ==
  bPc[m] # "scan" =>
    /\ bNum[m] \in 1 .. wDone[m] /\ burst[m][bNum[m]].dst = bSrc[m]
    /\ bPc[m] = "drive" <=> bNum[m] \notin answered[m]
    /\ bSrc[m] # Sink => Head(bQ[bSrc[m]]) = <<m, bNum[m]>>
    /\ \A n \in 1 .. wDone[m] : Owed(<<m, n>>, bSrc[m]) => bNum[m] <= n

Answering ==
  /\ \A s \in Slaves : SlaveOwes(s) /\ TurnsMatch(s)
  /\ BusOwes
  /\ \A m \in Masters : Tickets(m) /\ Draining(m) /\ \A i \in Ids : QueueOf(m, i)

----------------------------------------------------------------------------
(* Queues that keep each master's bursts in order *)

LEMMA OrderDistinct ==
  ASSUME NEW q \in Seq(Ref), MasterOrder(q)
  PROVE  Distinct(q)
<1> SUFFICES ASSUME NEW i \in 1 .. Len(q), NEW j \in 1 .. Len(q), q[i] = q[j] PROVE i = j
  BY DEF Distinct
<1>1. Len(q) \in Nat
  OBVIOUS
<1>2. i \in Int /\ j \in Int
  BY <1>1
<1>3. q[i] \in Ref /\ q[i][2] \in Nat
  <2>1. q[i] \in Ref
    OBVIOUS
  <2> QED
    BY <2>1, RefPair
<1>4. ~(i < j) /\ ~(j < i)
  BY <1>3 DEF MasterOrder
<1> QED
  BY <1>2, <1>4

LEMMA OrderAppend ==
  ASSUME NEW q \in Seq(Ref), MasterOrder(q), NEW c \in Ref,
         \A k \in 1 .. Len(q) : q[k][1] = c[1] => q[k][2] < c[2]
  PROVE  MasterOrder(Append(q, c))
<1> DEFINE p == Append(q, c)
<1>1. /\ Len(q) \in Nat /\ Len(p) = Len(q) + 1 /\ p[Len(q) + 1] = c
      /\ \A i \in 1 .. Len(q) : p[i] = q[i]
  BY AppendQueue
<1> HIDE DEF p
<1>2. \A j, k \in 1 .. Len(p) : j < k => j \in 1 .. Len(q) /\ (k \in 1 .. Len(q) \/ k = Len(q) + 1)
  BY <1>1
<1>3. ASSUME NEW j \in 1 .. Len(p), NEW k \in 1 .. Len(p), j < k, p[j][1] = p[k][1]
      PROVE  p[j][2] < p[k][2]
  <2>1. j \in 1 .. Len(q) /\ p[j] = q[j]
    BY <1>1, <1>2, <1>3
  <2>2. CASE k \in 1 .. Len(q)
    BY <1>1, <1>3, <2>1, <2>2 DEF MasterOrder
  <2>3. CASE k = Len(q) + 1
    BY <1>1, <1>3, <2>1, <2>3
  <2> QED
    BY <1>2, <1>3, <2>2, <2>3
<1> QED
  BY <1>3 DEF MasterOrder, p

LEMMA OrderTail ==
  ASSUME NEW q \in Seq(Ref), MasterOrder(q), q # <<>>
  PROVE  MasterOrder(Tail(q))
<1>1. /\ Len(q) \in Nat \ {0} /\ Len(Tail(q)) = Len(q) - 1
      /\ \A i \in 1 .. Len(q) - 1 : Tail(q)[i] = q[i + 1]
  BY TailQueue
<1>2. \A j, k \in 1 .. Len(q) - 1 : /\ j + 1 \in 1 .. Len(q) /\ k + 1 \in 1 .. Len(q)
                                   /\ j < k => j + 1 < k + 1
  BY <1>1
<1> QED
  BY <1>1, <1>2 DEF MasterOrder

\* What is left of a queue without its k-th entry.
Without(q, k) == [j \in 1 .. Len(q) - 1 |-> IF j < k THEN q[j] ELSE q[j + 1]]

LEMMA OrderRemove ==
  ASSUME NEW q \in Seq(Ref), MasterOrder(q), NEW k \in 1 .. Len(q), NEW r,
         r = Without(q, k)
  PROVE  /\ MasterOrder(r)
         /\ \A x : Holds(r, x) <=> Holds(q, x) /\ x # q[k]
<1>1. Len(q) \in Nat /\ k \in Nat /\ 1 <= k /\ k <= Len(q)
  OBVIOUS
<1> DEFINE g(j) == IF j < k THEN j ELSE j + 1
<1>2. \A j \in 1 .. Len(q) - 1 : g(j) \in 1 .. Len(q) /\ g(j) # k /\ r[j] = q[g(j)]
  BY <1>1 DEF Without
<1>3. \A i, j \in 1 .. Len(q) - 1 : i < j => g(i) < g(j)
  BY <1>1
<1>4. \A i \in 1 .. Len(q) : i # k => \E j \in 1 .. Len(q) - 1 : g(j) = i
  <2>1. ASSUME NEW i \in 1 .. Len(q), i < k PROVE \E j \in 1 .. Len(q) - 1 : g(j) = i
    <3>1. i \in 1 .. Len(q) - 1 /\ g(i) = i
      BY <1>1, <2>1
    <3> QED
      BY <3>1
  <2>2. ASSUME NEW i \in 1 .. Len(q), k < i PROVE \E j \in 1 .. Len(q) - 1 : g(j) = i
    <3>1. i - 1 \in 1 .. Len(q) - 1 /\ g(i - 1) = i
      BY <1>1, <2>2
    <3> QED
      BY <3>1
  <2>3. \A i \in 1 .. Len(q) : i < k \/ i = k \/ k < i
    BY <1>1
  <2> QED
    BY <2>1, <2>2, <2>3
<1>5. Len(r) = Len(q) - 1
  <2>1. Len(q) - 1 \in Nat
    BY <1>1
  <2>2. r \in Seq(Ref)
    <3>1. \A j \in 1 .. Len(q) - 1 : r[j] \in Ref
      BY <1>2
    <3>2. r \in [1 .. Len(q) - 1 -> Ref]
      BY <3>1 DEF Without
    <3> QED
      BY <2>1, <3>2, IsASeq
  <2>3. DOMAIN r = 1 .. Len(q) - 1
    BY DEF Without
  <2> QED
    BY <2>1, <2>2, <2>3, LenProperties
<1> HIDE DEF g
<1>6. MasterOrder(r)
  <2>1. ASSUME NEW i \in 1 .. Len(q) - 1, NEW j \in 1 .. Len(q) - 1, i < j, r[i][1] = r[j][1]
        PROVE  r[i][2] < r[j][2]
    <3>1. g(i) \in 1 .. Len(q) /\ g(j) \in 1 .. Len(q) /\ g(i) < g(j)
      BY <1>2, <1>3, <2>1
    <3>2. q[g(i)][1] = q[g(j)][1] => q[g(i)][2] < q[g(j)][2]
      BY <3>1 DEF MasterOrder
    <3> QED
      BY <1>2, <2>1, <3>2
  <2> QED
    BY <1>5, <2>1 DEF MasterOrder
<1>7. Distinct(q)
  BY OrderDistinct
<1>8. ASSUME NEW x PROVE Holds(r, x) <=> Holds(q, x) /\ x # q[k]
  <2>1. ASSUME Holds(r, x) PROVE Holds(q, x) /\ x # q[k]
    BY <1>2, <1>5, <1>7, <2>1 DEF Holds, Distinct
  <2>2. ASSUME Holds(q, x), x # q[k] PROVE Holds(r, x)
    <3>1. PICK i \in 1 .. Len(q) : q[i] = x
      BY <2>2 DEF Holds
    <3>2. PICK j \in 1 .. Len(q) - 1 : g(j) = i
      BY <1>4, <2>2, <3>1
    <3> QED
      BY <1>2, <1>5, <3>1, <3>2 DEF Holds
  <2> QED
    BY <2>1, <2>2
<1> QED
  BY <1>6, <1>8

----------------------------------------------------------------------------
(* What a step leaves alone *)

LEMMA OwedFrame ==
  ASSUME UNCHANGED <<burst, wDone, answered, bPc, bNum>>
  PROVE  \A b, s : Owed(b, s)' <=> Owed(b, s)
BY DEF Owed, Acking

LEMMA KeptSlaveOwes ==
  ASSUME NEW s \in Slaves, SlaveOwes(s), bQ'[s] = bQ[s], commit'[s] = commit[s],
         \A b \in Ref : Owed(b, s)' <=> Owed(b, s)
  PROVE  SlaveOwes(s)'
BY DEF SlaveOwes

LEMMA KeptTurns ==
  ASSUME NEW s \in Slaves, TurnsMatch(s), writeOrder'[s] = writeOrder[s],
         bQ'[s] = bQ[s], commit'[s] = commit[s], wOrder'[s] = wOrder[s]
  PROVE  TurnsMatch(s)'
BY DEF TurnsMatch, Held

LEMMA KeptBusOwes ==
  ASSUME BusOwes, errB' = errB, \A b \in Ref : Owed(b, Sink)' <=> Owed(b, Sink)
  PROVE  BusOwes'
BY DEF BusOwes, MasterOrder

LEMMA KeptQueueOf ==
  ASSUME NEW m \in Masters, NEW i \in Ids, QueueOf(m, i), idOrder'[m][i] = idOrder[m][i],
         burst'[m] = burst[m], answered'[m] = answered[m]
  PROVE  QueueOf(m, i)'
BY DEF QueueOf

LEMMA KeptTickets ==
  ASSUME NEW m \in Masters, Tickets(m), answered'[m] = answered[m], wDone'[m] = wDone[m],
         released'[m] = released[m], burst'[m] = burst[m]
  PROVE  Tickets(m)'
BY DEF Tickets

LEMMA KeptDraining ==
  ASSUME NEW m \in Masters, Draining(m), bPc'[m] = bPc[m], bNum'[m] = bNum[m],
         bSrc'[m] = bSrc[m], wDone'[m] = wDone[m], burst'[m] = burst[m],
         answered'[m] = answered[m],
         bPc[m] # "scan" /\ bSrc[m] # Sink => Head(bQ'[bSrc[m]]) = Head(bQ[bSrc[m]]),
         bPc[m] # "scan" => \A n \in 1 .. wDone[m] :
                              Owed(<<m, n>>, bSrc[m])' => Owed(<<m, n>>, bSrc[m])
  PROVE  Draining(m)'
BY DEF Draining

LEMMA KeptAnswering ==
  ASSUME Answering,
         UNCHANGED <<burst, wDone, answered, released, idOrder, bPc, bNum, bSrc, errB,
                     writeOrder, wOrder, bQ, commit>>
  PROVE  Answering'
<1>1. \A b, s : Owed(b, s)' <=> Owed(b, s)
  BY OwedFrame
<1>2. ASSUME NEW s \in Slaves PROVE SlaveOwes(s)' /\ TurnsMatch(s)'
  BY <1>1, KeptSlaveOwes, KeptTurns DEF Answering
<1>3. BusOwes'
  BY <1>1, KeptBusOwes DEF Answering
<1>4. ASSUME NEW m \in Masters PROVE Tickets(m)' /\ Draining(m)'
  <2>1. Tickets(m)'
    BY KeptTickets DEF Answering
  <2>2. \A n : Owed(<<m, n>>, bSrc[m])' <=> Owed(<<m, n>>, bSrc[m])
    BY <1>1 DEF Owed, Acking
  <2>3. Draining(m)'
    BY <2>2, KeptDraining DEF Answering
  <2> QED
    BY <2>1, <2>3
<1>5. ASSUME NEW m \in Masters, NEW i \in Ids PROVE QueueOf(m, i)'
  BY KeptQueueOf DEF Answering
<1> QED
  BY <1>2, <1>3, <1>4, <1>5 DEF Answering

\* What a master has streamed, been granted and issued.
LEMMA StreamTyped ==
  ASSUME Routing, NEW m \in Masters
  PROVE  /\ wDone[m] \in Nat /\ awDone[m] \in Nat /\ Len(burst[m]) \in Nat
         /\ wDone[m] <= awDone[m] /\ awDone[m] <= Len(burst[m]) /\ Len(burst[m]) <= MaxBursts
         /\ wDone[m] <= Len(burst[m]) /\ burst[m] \in Seq(Shapes)
<1>1. /\ Retired(m) \in Nat /\ awDone[m] \in Nat /\ Len(burst[m]) \in Nat
      /\ Retired(m) <= awDone[m] /\ awDone[m] <= Len(burst[m]) /\ Len(burst[m]) <= MaxBursts
      /\ burst[m] \in Seq(Shapes)
  BY CountersTyped
<1>2. wDone[m] \in Nat /\ wDone[m] <= Retired(m)
  BY RoutingBooks
<1> QED
  BY <1>1, <1>2

\* A burst that is being answered, or is still to be, has been issued.
LEMMA OwedTyped ==
  ASSUME Routing, NEW b \in Ref, NEW s, Owed(b, s)
  PROVE  /\ b[1] \in Masters /\ b[2] \in Nat /\ b[2] \in 1 .. Len(burst[b[1]])
         /\ b[2] <= wDone[b[1]] /\ wDone[b[1]] \in Nat
<1>1. /\ b[1] \in Masters /\ wDone[b[1]] \in Nat /\ wDone[b[1]] <= Len(burst[b[1]])
      /\ Len(burst[b[1]]) \in Nat
  BY RefPair, StreamTyped
<1>2. b[2] \in 1 .. wDone[b[1]]
  BY DEF Owed
<1> QED
  BY <1>1, <1>2, RefPair

\* Whoever is being answered by s, s has a response up.
LEMMA DrainedSource ==
  ASSUME Routing, Answering, NEW m \in Masters, bPc[m] # "scan", bSrc[m] # Sink
  PROVE  /\ bSrc[m] \in Slaves /\ bQ[bSrc[m]] # <<>> /\ bQ[bSrc[m]] \in Seq(Ref)
         /\ Head(bQ[bSrc[m]]) = <<m, bNum[m]>>
         /\ \A x \in Masters : bPc[x] # "scan" /\ bSrc[x] = bSrc[m] => x = m
<1>1. bSrc[m] \in Slaves
  <2>1. bSrc[m] \in 0 .. NumS
    BY DEF Routing, TypeOK
  <2> QED
    BY <2>1, SinkNotSlave
<1>2. bUp[bSrc[m]] /\ Head(writeOrder[bSrc[m]]) = m
  BY DEF Routing, BRouted
<1>3. bQ[bSrc[m]] # <<>> /\ bQ[bSrc[m]] \in Seq(Ref)
  BY <1>1, <1>2 DEF Routing, BRouted, TypeOK
<1>4. Head(bQ[bSrc[m]]) = <<m, bNum[m]>>
  BY DEF Answering, Draining
<1>5. \A x \in Masters : bPc[x] # "scan" /\ bSrc[x] = bSrc[m] => x = m
  BY <1>2 DEF Routing, BRouted
<1> QED
  BY <1>1, <1>3, <1>4, <1>5

----------------------------------------------------------------------------
(* Issue, addresses and commits *)

LEMMA IssueAnswering ==
  ASSUME Routing, Answering, NEW m \in Masters, NEW b \in Shapes, IssueWrite(m, b)
  PROVE  Answering'
<1>1. PICK n \in Nat : n = Len(burst[m]) + 1
  BY StreamTyped
<1>2. /\ Len(burst[m]) < MaxBursts /\ Len(burst[m]) - released[m] < Pool
      /\ burst' = [burst EXCEPT ![m] = Append(@, b)]
      /\ idOrder' = [idOrder EXCEPT ![m][b.id] = Append(@, n)]
      /\ UNCHANGED <<wDone, answered, released, bPc, bNum, bSrc, errB, writeOrder, wOrder,
                     bQ, commit>>
      /\ burst \in [Masters -> Seq(Shapes)] /\ idOrder \in [Masters -> [Ids -> Seq(1 .. MaxBursts)]]
      /\ answered[m] \subseteq 1 .. MaxBursts
  BY <1>1 DEF IssueWrite, busVars, slaveVars, Routing, TypeOK
<1>3. /\ wDone[m] \in Nat /\ Len(burst[m]) \in Nat /\ wDone[m] <= Len(burst[m])
      /\ burst[m] \in Seq(Shapes) /\ MaxBursts \in Nat /\ b.id \in Ids
  BY StreamTyped, BusWriteAssumption
<1>4. /\ burst'[m] = Append(burst[m], b) /\ burst'[m] \in Seq(Shapes) /\ Len(burst'[m]) = n
      /\ burst'[m][n] = b /\ n \in 1 .. MaxBursts
      /\ \A k \in 1 .. Len(burst[m]) : burst'[m][k] = burst[m][k]
      /\ \A x \in Masters : x # m => burst'[x] = burst[x]
  <2>1. burst'[m] = Append(burst[m], b) /\ \A x \in Masters : x # m => burst'[x] = burst[x]
    BY <1>2
  <2>2. n \in 1 .. MaxBursts
    BY <1>1, <1>2, <1>3
  <2> QED
    BY <1>1, <1>3, <2>1, <2>2, AppendFacts
<1>5. ASSUME NEW x \in Masters, NEW k \in 1 .. wDone[x] PROVE burst'[x][k] = burst[x][k]
  <2>1. CASE x = m
    <3>1. k \in 1 .. Len(burst[m])
      BY <1>3, <1>5, <2>1
    <3> QED
      BY <1>4, <2>1, <3>1
  <2>2. CASE x # m
    BY <1>4, <2>2
  <2> QED
    BY <2>1, <2>2
<1>6. ASSUME NEW c, c[1] \in Masters, NEW s PROVE Owed(c, s)' <=> Owed(c, s)
  BY <1>2, <1>5, <1>6 DEF Owed, Acking
<1>7. \A c \in Ref : \A s : Owed(c, s)' <=> Owed(c, s)
  BY <1>6, RefPair
<1>8. ASSUME NEW s \in Slaves PROVE SlaveOwes(s)' /\ TurnsMatch(s)'
  BY <1>2, <1>7, KeptSlaveOwes, KeptTurns DEF Answering
<1>9. BusOwes'
  BY <1>2, <1>7, KeptBusOwes DEF Answering
<1>10. ASSUME NEW x \in Masters PROVE Tickets(x)'
  <2>1. CASE x = m
    <3>1. Tickets(m) /\ released[m] \in Int /\ Pool \in Int
      BY BusWriteAssumption DEF Answering, Routing, TypeOK
    <3>2. n - released[m] <= Pool
      BY <1>1, <1>2, <1>3, <3>1
    <3> QED
      BY <1>2, <1>4, <2>1, <3>1, <3>2 DEF Tickets
  <2>2. CASE x # m
    BY <1>2, <1>4, <2>2, KeptTickets DEF Answering
  <2> QED
    BY <2>1, <2>2
<1>11. ASSUME NEW x \in Masters PROVE Draining(x)'
  <2> SUFFICES ASSUME bPc[x] # "scan" PROVE Draining(x)'
    BY <1>2 DEF Draining
  <2>1. /\ bNum[x] \in 1 .. wDone[x] /\ burst[x][bNum[x]].dst = bSrc[x]
        /\ bPc[x] = "drive" <=> bNum[x] \notin answered[x]
        /\ bSrc[x] # Sink => Head(bQ[bSrc[x]]) = <<x, bNum[x]>>
        /\ \A k \in 1 .. wDone[x] : Owed(<<x, k>>, bSrc[x]) => bNum[x] <= k
    BY DEF Answering, Draining
  <2>2. burst'[x][bNum[x]].dst = bSrc[x]
    BY <1>5, <2>1
  <2>3. \A k \in 1 .. wDone[x] : Owed(<<x, k>>, bSrc[x])' => Owed(<<x, k>>, bSrc[x])
    BY <1>2, <1>5 DEF Owed, Acking
  <2> QED
    BY <1>2, <2>1, <2>2, <2>3 DEF Draining
<1>12. ASSUME NEW x \in Masters, NEW i \in Ids PROVE QueueOf(x, i)'
  <2>1. CASE x # m
    <3>1. idOrder'[x] = idOrder[x] /\ burst'[x] = burst[x] /\ answered'[x] = answered[x]
      BY <1>2, <1>4, <2>1
    <3> QED
      BY <3>1, KeptQueueOf DEF Answering
  <2>2. CASE x = m
    <3> DEFINE o == idOrder[m][i]  p == idOrder'[m][i]
    <3>1. o \in Seq(1 .. MaxBursts) /\ QueueOf(m, i) /\ Len(o) \in Nat
      <4>1. idOrder[m] \in [Ids -> Seq(1 .. MaxBursts)]
        BY <1>2
      <4>2. o \in Seq(1 .. MaxBursts)
        BY <4>1
      <4> QED
        BY <4>2 DEF Answering
    <3>2. n \notin answered[m]
      <4>1. answered[m] \subseteq 1 .. wDone[m]
        BY DEF Answering, Tickets
      <4> QED
        BY <1>1, <1>3, <4>1
    <3>3. \A k \in 1 .. MaxBursts : k <= Len(burst[m]) => k \in 1 .. Len(burst[m]) /\ k < n
      BY <1>1, <1>3
    <3>4. \A k \in 1 .. MaxBursts : k <= n <=> k <= Len(burst[m]) \/ k = n
      BY <1>1, <1>3
    <3>5. ~(n <= Len(burst[m]))
      BY <1>1, <1>3
    <3>6. CASE i # b.id
      <4>1. p = o
        BY <1>2, <3>6
      <4>2. ASSUME NEW k \in 1 .. MaxBursts
            PROVE  Holds(o, k) <=> k <= n /\ burst'[m][k].id = i /\ k \notin answered[m]
        <5>1. Holds(o, k) <=> k <= Len(burst[m]) /\ burst[m][k].id = i /\ k \notin answered[m]
          BY <3>1 DEF QueueOf
        <5>2. k = n => burst'[m][k].id # i /\ ~(k <= Len(burst[m]))
          BY <1>4, <3>5, <3>6
        <5>3. k <= Len(burst[m]) => burst'[m][k] = burst[m][k]
          BY <1>4, <3>3
        <5> QED
          BY <3>4, <5>1, <5>2, <5>3
      <4> QED
        BY <1>2, <1>4, <2>2, <3>1, <4>1, <4>2 DEF QueueOf
    <3>7. CASE i = b.id
      <4>1. p = Append(o, n)
        BY <1>2, <1>3, <3>7
      <4> DEFINE S == 1 .. MaxBursts
      <4>2. o \in Seq(S) /\ n \in S
        BY <1>4, <3>1
      <4> HIDE DEF S, o, p
      <4>3. /\ Len(p) = Len(o) + 1 /\ p[Len(o) + 1] = n
            /\ \A k \in 1 .. Len(o) : p[k] = o[k] /\ o[k] \in S
            /\ \A x_1 : Holds(p, x_1) <=> Holds(o, x_1) \/ x_1 = n
        BY <4>1, <4>2, AppendQueue, ElementOfSeq
      <4>4. ASSUME NEW k \in 1 .. Len(o) PROVE o[k] < n
        <5>1. o[k] \in 1 .. MaxBursts
          BY <4>3 DEF S
        <5>2. Holds(o, o[k])
          BY DEF Holds
        <5>3. o[k] <= Len(burst[m])
          BY <3>1, <5>1, <5>2 DEF QueueOf, o
        <5> QED
          BY <3>3, <5>1, <5>3
      <4>5. ASSUME NEW j \in 1 .. Len(p), NEW k \in 1 .. Len(p), j < k PROVE p[j] < p[k]
        <5>1. j \in 1 .. Len(o) /\ (k \in 1 .. Len(o) \/ k = Len(o) + 1)
          BY <3>1, <4>3, <4>5 DEF o
        <5>2. CASE k \in 1 .. Len(o)
          BY <3>1, <4>3, <4>5, <5>1, <5>2 DEF QueueOf, o
        <5>3. CASE k = Len(o) + 1
          BY <4>3, <4>4, <5>1, <5>3
        <5> QED
          BY <5>1, <5>2, <5>3
      <4>6. ASSUME NEW k \in 1 .. MaxBursts
            PROVE  Holds(p, k) <=> k <= n /\ burst'[m][k].id = i /\ k \notin answered[m]
        <5>1. Holds(o, k) <=> k <= Len(burst[m]) /\ burst[m][k].id = i /\ k \notin answered[m]
          BY <3>1 DEF QueueOf, o
        <5>2. k = n => burst'[m][k].id = i /\ k \notin answered[m]
          BY <1>4, <3>2, <3>7
        <5>3. k <= Len(burst[m]) => burst'[m][k] = burst[m][k]
          BY <1>4, <3>3
        <5> QED
          BY <3>4, <4>3, <5>1, <5>2, <5>3
      <4> QED
        BY <1>2, <1>4, <2>2, <4>5, <4>6 DEF QueueOf, p
    <3> QED
      BY <3>6, <3>7
  <2> QED
    BY <2>1, <2>2
<1> QED
  BY <1>8, <1>9, <1>10, <1>11, <1>12 DEF Answering

LEMMA ReleaseAnswering ==
  ASSUME Routing, Answering, NEW m \in Masters, ReleaseWrite(m)
  PROVE  Answering'
<1>1. /\ released[m] + 1 \in answered[m] /\ released' = [released EXCEPT ![m] = @ + 1]
      /\ released \in [Masters -> 0 .. MaxBursts] /\ released[m] \in Nat
      /\ UNCHANGED <<burst, wDone, answered, idOrder, bPc, bNum, bSrc, errB,
                     writeOrder, wOrder, bQ, commit>>
  BY DEF ReleaseWrite, busVars, slaveVars, Routing, TypeOK
<1>2. \A b, s : Owed(b, s)' <=> Owed(b, s)
  BY <1>1, OwedFrame
<1>3. ASSUME NEW s \in Slaves PROVE SlaveOwes(s)' /\ TurnsMatch(s)'
  BY <1>1, <1>2, KeptSlaveOwes, KeptTurns DEF Answering
<1>4. BusOwes'
  BY <1>1, <1>2, KeptBusOwes DEF Answering
<1>5. ASSUME NEW x \in Masters PROVE Tickets(x)'
  <2>1. CASE x = m
    <3>1. Tickets(m) /\ Len(burst[m]) \in Nat /\ Pool \in Int
      BY StreamTyped, BusWriteAssumption DEF Answering
    <3>2. \A n \in 1 .. released[m] + 1 : n \in 1 .. released[m] \/ n = released[m] + 1
      BY <1>1
    <3>3. released'[m] = released[m] + 1
      BY <1>1
    <3>4. Len(burst[m]) - (released[m] + 1) <= Pool
      BY <1>1, <3>1 DEF Tickets
    <3> QED
      BY <1>1, <2>1, <3>1, <3>2, <3>3, <3>4 DEF Tickets
  <2>2. CASE x # m
    BY <1>1, <2>2, KeptTickets DEF Answering
  <2> QED
    BY <2>1, <2>2
<1>6. ASSUME NEW x \in Masters PROVE Draining(x)'
  <2>1. \A n : Owed(<<x, n>>, bSrc[x])' <=> Owed(<<x, n>>, bSrc[x])
    BY <1>1 DEF Owed, Acking
  <2> QED
    BY <1>1, <2>1, KeptDraining DEF Answering
<1>7. ASSUME NEW x \in Masters, NEW i \in Ids PROVE QueueOf(x, i)'
  BY <1>1, KeptQueueOf DEF Answering
<1> QED
  BY <1>3, <1>4, <1>5, <1>6, <1>7 DEF Answering

LEMMA DecerrAnswering ==
  ASSUME Answering, NEW m \in Masters, AwDecerr(m)
  PROVE  Answering'
BY KeptAnswering DEF AwDecerr, slaveVars

LEMMA SlaveAwAnswering ==
  ASSUME Answering, NEW s \in Slaves, SlaveAw(s)
  PROVE  Answering'
BY KeptAnswering DEF SlaveAw, masterVars

LEMMA BValidAnswering ==
  ASSUME Answering, NEW s \in Slaves, SlaveBValid(s)
  PROVE  Answering'
BY KeptAnswering DEF SlaveBValid, masterVars, busVars

LEMMA ForwardAnswering ==
  ASSUME Routing, Answering, NEW m \in Masters, AwForward(m)
  PROVE  Answering'
<1>1. PICK d : d = burst[m][awDone[m] + 1].dst
  OBVIOUS
<1>2. /\ writeOrder' = [writeOrder EXCEPT ![d] = Append(@, m)]
      /\ wOrder' = [wOrder EXCEPT ![d] = Append(@, m)]
      /\ wOrder \in [Slaves -> Seq(Masters)] /\ writeOrder \in [Slaves -> Seq(Masters)]
      /\ UNCHANGED <<burst, wDone, answered, released, idOrder, bPc, bNum, bSrc, errB,
                     bQ, commit>>
  BY <1>1 DEF AwForward, slaveVars, Routing, TypeOK
<1>3. \A b, s : Owed(b, s)' <=> Owed(b, s)
  BY <1>2, OwedFrame
<1>4. ASSUME NEW s \in Slaves PROVE SlaveOwes(s)'
  BY <1>2, <1>3, KeptSlaveOwes DEF Answering
<1>5. ASSUME NEW s \in Slaves PROVE TurnsMatch(s)'
  <2>1. CASE s # d
    BY <1>2, <2>1, KeptTurns DEF Answering
  <2>2. CASE s = d
    <3>1. /\ writeOrder'[s] = Append(writeOrder[s], m) /\ wOrder'[s] = Append(wOrder[s], m)
          /\ writeOrder[s] \in Seq(Masters) /\ wOrder[s] \in Seq(Masters)
      BY <1>2, <2>2
    <3>2. /\ Len(writeOrder'[s]) = Len(writeOrder[s]) + 1 /\ Len(writeOrder[s]) \in Nat
          /\ writeOrder'[s][Len(writeOrder[s]) + 1] = m
          /\ \A k \in 1 .. Len(writeOrder[s]) : writeOrder'[s][k] = writeOrder[s][k]
      BY <3>1, AppendFacts
    <3>3. /\ Len(wOrder'[s]) = Len(wOrder[s]) + 1 /\ Len(wOrder[s]) \in Nat
          /\ wOrder'[s][Len(wOrder[s]) + 1] = m
          /\ \A k \in 1 .. Len(wOrder[s]) : wOrder'[s][k] = wOrder[s][k]
      BY <3>1, AppendFacts
    <3>4. Len(bQ[s]) \in Nat /\ Held(s) \in Nat /\ Held(s)' = Held(s)
          /\ (commit[s] # None => Held(s) = 1)
      <4>1. bQ[s] \in Seq(Ref)
        BY DEF Routing, TypeOK
      <4> QED
        BY <1>2, <4>1 DEF Held
    <3>5. /\ Len(writeOrder[s]) = Len(bQ[s]) + Held(s) + Len(wOrder[s])
          /\ \A k \in 1 .. Len(bQ[s]) : writeOrder[s][k] = bQ[s][k][1]
          /\ commit[s] # None => writeOrder[s][Len(bQ[s]) + 1] = commit[s][1]
          /\ \A k \in 1 .. Len(wOrder[s]) :
               writeOrder[s][Len(bQ[s]) + Held(s) + k] = wOrder[s][k]
      BY DEF Answering, TurnsMatch
    <3>10. PICK a \in Nat, h \in Nat, w \in Nat, o \in Nat :
                a = Len(bQ[s]) /\ h = Held(s) /\ w = Len(wOrder[s]) /\ o = Len(writeOrder[s])
      BY <3>2, <3>3, <3>4
    <3>11. o = a + h + w /\ (commit[s] # None => h = 1)
      BY <3>4, <3>5, <3>10
    <3>12. a + h + (w + 1) = o + 1
      BY <3>11
    <3>6. /\ \A k \in 1 .. Len(bQ[s]) : k \in 1 .. Len(writeOrder[s])
          /\ commit[s] # None => Len(bQ[s]) + 1 \in 1 .. Len(writeOrder[s])
          /\ \A k \in 1 .. Len(wOrder[s]) : Len(bQ[s]) + Held(s) + k \in 1 .. Len(writeOrder[s])
          /\ \A k \in 1 .. Len(wOrder[s]) + 1 : k \in 1 .. Len(wOrder[s]) \/ k = Len(wOrder[s]) + 1
          /\ Len(bQ[s]) + Held(s) + (Len(wOrder[s]) + 1) = Len(writeOrder[s]) + 1
      <4>1. \A k \in 1 .. a : k \in 1 .. o
        BY <3>11
      <4>2. h = 1 => a + 1 \in 1 .. o
        BY <3>11
      <4>3. \A k \in 1 .. w : a + h + k \in 1 .. o
        BY <3>11
      <4>4. \A k \in 1 .. w + 1 : k \in 1 .. w \/ k = w + 1
        OBVIOUS
      <4> QED
        BY <3>10, <3>11, <3>12, <4>1, <4>2, <4>3, <4>4
    <3>7. ASSUME NEW k \in 1 .. Len(wOrder'[s])
          PROVE  writeOrder'[s][Len(bQ[s]) + Held(s) + k] = wOrder'[s][k]
      <4>1. CASE k \in 1 .. Len(wOrder[s])
        BY <3>2, <3>3, <3>5, <3>6, <4>1
      <4>2. CASE k = Len(wOrder[s]) + 1
        BY <3>2, <3>3, <3>6, <4>2
      <4> QED
        BY <3>3, <3>6, <4>1, <4>2
    <3>8. Len(writeOrder'[s]) = Len(bQ[s]) + Held(s) + Len(wOrder'[s])
      <4>1. Len(writeOrder'[s]) = o + 1 /\ Len(wOrder'[s]) = w + 1
        BY <3>2, <3>3, <3>10
      <4> QED
        BY <3>10, <3>12, <4>1
    <3>9. /\ \A k \in 1 .. Len(bQ[s]) : writeOrder'[s][k] = bQ[s][k][1]
          /\ commit[s] # None => writeOrder'[s][Len(bQ[s]) + 1] = commit[s][1]
      BY <3>2, <3>5, <3>6
    <3>13. bQ'[s] = bQ[s] /\ Held(s)' = Held(s) /\ commit'[s] = commit[s]
      BY <1>2, <3>4
    <3>14. Len(writeOrder'[s]) = Len(bQ'[s]) + Held(s)' + Len(wOrder'[s])
      BY <3>8, <3>13
    <3>15. /\ \A k \in 1 .. Len(bQ'[s]) : writeOrder'[s][k] = bQ'[s][k][1]
           /\ commit'[s] # None => writeOrder'[s][Len(bQ'[s]) + 1] = commit'[s][1]
      BY <3>9, <3>13
    <3>16. \A k \in 1 .. Len(wOrder'[s]) :
              writeOrder'[s][Len(bQ'[s]) + Held(s)' + k] = wOrder'[s][k]
      BY <3>7, <3>13
    <3> QED
      BY <3>14, <3>15, <3>16, Zenon DEF TurnsMatch
  <2> QED
    BY <2>1, <2>2
<1>6. BusOwes'
  BY <1>2, <1>3, KeptBusOwes DEF Answering
<1>7. ASSUME NEW x \in Masters PROVE Tickets(x)' /\ Draining(x)'
  <2>1. \A n : Owed(<<x, n>>, bSrc[x])' <=> Owed(<<x, n>>, bSrc[x])
    BY <1>2 DEF Owed, Acking
  <2> QED
    BY <1>2, <2>1, KeptTickets, KeptDraining DEF Answering
<1>8. ASSUME NEW x \in Masters, NEW i \in Ids PROVE QueueOf(x, i)'
  BY <1>2, KeptQueueOf DEF Answering
<1> QED
  BY <1>4, <1>5, <1>6, <1>7, <1>8 DEF Answering

LEMMA CommitAnswering ==
  ASSUME Routing, Answering, NEW s \in Slaves, SlaveCommit(s)
  PROVE  Answering'
<1>1. PICK c : c = commit[s]
  OBVIOUS
<1>2. /\ c \in Ref /\ c # None /\ bQ' = [bQ EXCEPT ![s] = Append(@, c)]
      /\ commit' = [commit EXCEPT ![s] = None] /\ bQ[s] \in Seq(Ref)
      /\ bQ \in [Slaves -> Seq(Ref)] /\ commit \in [Slaves -> Ref \cup {None}]
      /\ UNCHANGED <<burst, wDone, answered, released, idOrder, bPc, bNum, bSrc, errB,
                     writeOrder, wOrder>>
  BY <1>1, RefNotNone DEF SlaveCommit, masterVars, busVars, Routing, TypeOK
<1>3. \A b, t : Owed(b, t)' <=> Owed(b, t)
  BY <1>2, OwedFrame
<1>4. /\ bQ'[s] = Append(bQ[s], c) /\ commit'[s] = None
      /\ \A t \in Slaves : t # s => bQ'[t] = bQ[t] /\ commit'[t] = commit[t]
  BY <1>2
<1>5. /\ Len(bQ[s]) \in Nat /\ Len(bQ'[s]) = Len(bQ[s]) + 1 /\ bQ'[s][Len(bQ[s]) + 1] = c
      /\ \A i \in 1 .. Len(bQ[s]) : bQ'[s][i] = bQ[s][i]
      /\ \A x : Holds(bQ'[s], x) <=> Holds(bQ[s], x) \/ x = c
      /\ bQ[s] # <<>> => Head(bQ'[s]) = Head(bQ[s])
  BY <1>2, <1>4, AppendQueue, AppendFacts
<1>6. ASSUME NEW t \in Slaves PROVE SlaveOwes(t)' /\ TurnsMatch(t)'
  <2>1. CASE t # s
    BY <1>2, <1>3, <1>4, <2>1, KeptSlaveOwes, KeptTurns DEF Answering
  <2>2. SlaveOwes(s)'
    <3>1. SlaveOwes(s)
      BY DEF Answering
    <3>2. MasterOrder(bQ'[s])
      <4>1. /\ MasterOrder(bQ[s])
            /\ \A k \in 1 .. Len(bQ[s]) : bQ[s][k][1] = c[1] => bQ[s][k][2] < c[2]
        BY <1>1, <1>2, <3>1 DEF SlaveOwes
      <4> QED
        BY <1>2, <1>4, <4>1, OrderAppend
    <3>3. \A b \in Ref : Owed(b, s) <=> Holds(bQ[s], b) \/ c = b
      BY <1>1, <3>1 DEF SlaveOwes
    <3>4. \A b \in Ref : Owed(b, s)' <=> Holds(bQ'[s], b) \/ commit'[s] = b
      BY <1>3, <1>4, <1>5, <3>3, RefNotNone
    <3> QED
      BY <1>4, <3>2, <3>4 DEF SlaveOwes, MasterOrder
  <2>3. TurnsMatch(s)'
    <3>1. /\ Len(writeOrder[s]) = Len(bQ[s]) + 1 + Len(wOrder[s]) /\ Len(wOrder[s]) \in Nat
          /\ \A k \in 1 .. Len(bQ[s]) : writeOrder[s][k] = bQ[s][k][1]
          /\ writeOrder[s][Len(bQ[s]) + 1] = c[1]
          /\ \A k \in 1 .. Len(wOrder[s]) : writeOrder[s][Len(bQ[s]) + 1 + k] = wOrder[s][k]
      <4>1. TurnsMatch(s) /\ Held(s) = 1 /\ wOrder[s] \in Seq(Masters)
        BY <1>1, <1>2 DEF Answering, Held, Routing, TypeOK
      <4> QED
        BY <1>1, <1>2, <4>1 DEF TurnsMatch
    <3>2. Held(s)' = 0 /\ Len(bQ'[s]) + 0 = Len(bQ[s]) + 1 /\ Len(bQ'[s]) = Len(bQ[s]) + 1
      BY <1>4, <1>5 DEF Held
    <3>3. \A k \in 1 .. Len(bQ'[s]) : k \in 1 .. Len(bQ[s]) \/ k = Len(bQ[s]) + 1
      BY <1>5
    <3>4. \A k \in 1 .. Len(bQ'[s]) : writeOrder[s][k] = bQ'[s][k][1]
      BY <1>5, <3>1, <3>3
    <3>5. Len(writeOrder[s]) = Len(bQ'[s]) + 0 + Len(wOrder[s])
      BY <1>5, <3>1
    <3>6. \A k \in 1 .. Len(wOrder[s]) : writeOrder[s][Len(bQ'[s]) + 0 + k] = wOrder[s][k]
      BY <3>1, <3>2
    <3> QED
      BY <1>2, <1>4, <3>2, <3>4, <3>5, <3>6 DEF TurnsMatch
  <2> QED
    BY <2>1, <2>2, <2>3
<1>7. BusOwes'
  BY <1>2, <1>3, KeptBusOwes DEF Answering
<1>8. ASSUME NEW x \in Masters PROVE Tickets(x)' /\ Draining(x)'
  <2>1. \A n : Owed(<<x, n>>, bSrc[x])' <=> Owed(<<x, n>>, bSrc[x])
    BY <1>2 DEF Owed, Acking
  <2>2. ASSUME bPc[x] # "scan", bSrc[x] # Sink PROVE Head(bQ'[bSrc[x]]) = Head(bQ[bSrc[x]])
    <3>1. bSrc[x] \in Slaves /\ bQ[bSrc[x]] # <<>>
      BY <2>2, DrainedSource
    <3> QED
      BY <1>4, <1>5, <3>1
  <2> QED
    BY <1>2, <2>1, <2>2, KeptTickets, KeptDraining DEF Answering
<1>9. ASSUME NEW x \in Masters, NEW i \in Ids PROVE QueueOf(x, i)'
  BY <1>2, KeptQueueOf DEF Answering
<1> QED
  BY <1>6, <1>7, <1>8, <1>9 DEF Answering


----------------------------------------------------------------------------
(* The end of a burst's data *)

\* WLAST of m's burst: its destination owes a response more, younger than the others.
LEMMA BurstEnds ==
  ASSUME Routing, InStep, Answering, NEW m \in Masters, masterWTargets[m] # <<>>, SendBeat(m),
         WLast(m), NEW n, n = wDone[m] + 1,
         UNCHANGED <<burst, awDone, answered, released, idOrder, bPc, bNum, bSrc, bQ>>
  PROVE  /\ n \in Nat /\ <<m, n>> \in Ref /\ burst[m][n].dst = Head(masterWTargets[m])
         /\ \A b \in Ref : \A t :
              Owed(b, t)' <=> Owed(b, t) \/ (b = <<m, n>> /\ t = burst[m][n].dst)
         /\ \A b \in Ref : \A t : Owed(b, t) /\ b[1] = m => b[2] < n
         /\ \A x \in Masters : Tickets(x)' /\ Draining(x)' /\ \A i \in Ids : QueueOf(x, i)'
<1>1. /\ wDone[m] \in Nat /\ awDone[m] \in Nat /\ Len(burst[m]) \in Nat
      /\ awDone[m] <= Len(burst[m]) /\ Len(burst[m]) <= MaxBursts /\ MaxBursts \in Nat
  BY StreamTyped, BusWriteAssumption
<1>2. n \in wDone[m] + 1 .. awDone[m] /\ burst[m][n].dst = Head(masterWTargets[m])
  BY NextBurst
<1>3. n \in Nat /\ n \in 1 .. MaxBursts /\ <<m, n>> \in Ref
  <2>1. n \in Nat /\ n \in 1 .. MaxBursts
    BY <1>1, <1>2
  <2> QED
    BY <2>1 DEF Ref
<1>4. wDone'[m] = n /\ \A x \in Masters : x # m => wDone'[x] = wDone[x]
  BY SendFacts
<1>5. \A x \in Masters : wDone[x] \in Nat /\ answered[x] \subseteq 1 .. wDone[x]
  BY StreamTyped DEF Answering, Tickets
<1>6. n \notin answered[m]
  BY <1>1, <1>5
<1>7. ASSUME NEW x \in Masters, NEW k \in Nat
      PROVE  k \in 1 .. wDone'[x] <=> k \in 1 .. wDone[x] \/ (x = m /\ k = n)
  <2>1. CASE x = m
    BY <1>1, <1>4, <2>1
  <2>2. CASE x # m
    BY <1>4, <2>2
  <2> QED
    BY <2>1, <2>2
<1>8. ~Acking(<<m, n>>)
  <2>1. bPc[m] # "scan" => bNum[m] \in 1 .. wDone[m]
    BY DEF Answering, Draining
  <2>2. n \notin 1 .. wDone[m]
    BY <1>1
  <2> QED
    BY <2>1, <2>2 DEF Acking
<1>9. ASSUME NEW b \in Ref, NEW t
      PROVE  Owed(b, t)' <=> Owed(b, t) \/ (b = <<m, n>> /\ t = burst[m][n].dst)
  <2>1. b[1] \in Masters /\ b[2] \in Nat /\ b = <<b[1], b[2]>>
    BY RefPair
  <2>2. b[2] \in 1 .. wDone'[b[1]] <=> b[2] \in 1 .. wDone[b[1]] \/ b = <<m, n>>
    BY <1>7, <2>1
  <2>3. b = <<m, n>> => b[1] = m /\ b[2] = n
    OBVIOUS
  <2> QED
    BY <1>6, <2>2, <2>3 DEF Owed, Acking
<1>10. ASSUME NEW b \in Ref, NEW t, Owed(b, t), b[1] = m PROVE b[2] < n
  BY <1>1, <1>10, OwedTyped
<1>11. ASSUME NEW x \in Masters PROVE Tickets(x)'
  <2>1. Tickets(x)
    BY DEF Answering
  <2>2. 1 .. wDone[x] \subseteq 1 .. wDone'[x]
    BY <1>7
  <2> QED
    BY <2>1, <2>2 DEF Tickets
<1>12. ASSUME NEW x \in Masters PROVE Draining(x)'
  <2> SUFFICES ASSUME bPc[x] # "scan" PROVE Draining(x)'
    BY DEF Draining
  <2>1. /\ bNum[x] \in 1 .. wDone[x] /\ burst[x][bNum[x]].dst = bSrc[x]
        /\ bPc[x] = "drive" <=> bNum[x] \notin answered[x]
        /\ bSrc[x] # Sink => Head(bQ[bSrc[x]]) = <<x, bNum[x]>>
        /\ \A k \in 1 .. wDone[x] : Owed(<<x, k>>, bSrc[x]) => bNum[x] <= k
    BY DEF Answering, Draining
  <2>2. bNum[x] \in 1 .. wDone'[x]
    BY <1>5, <1>7, <2>1
  <2>3. ASSUME NEW k \in 1 .. wDone'[x], Owed(<<x, k>>, bSrc[x])' PROVE bNum[x] <= k
    <3>1. CASE k \in 1 .. wDone[x]
      BY <2>1, <2>3, <3>1 DEF Owed, Acking
    <3>2. CASE x = m /\ k = n
      BY <1>1, <2>1, <3>2
    <3>3. wDone'[x] \in Nat
      BY <1>3, <1>4, <1>5
    <3> QED
      BY <1>7, <3>1, <3>2, <3>3
  <2> QED
    BY <2>1, <2>2, <2>3 DEF Draining
<1>13. ASSUME NEW x \in Masters, NEW i \in Ids PROVE QueueOf(x, i)'
  BY KeptQueueOf DEF Answering
<1> QED
  BY <1>2, <1>3, <1>9, <1>10, <1>11, <1>12, <1>13

\* A beat that leaves the stream in step has not retired a refused burst as well.
LEMMA OneRetired ==
  ASSUME Routing, InStep, InStep', NEW m \in Masters, NEW s \in Slaves, WTransfer(m, s)
  PROVE  errB' = errB
<1>1. CASE ~WLast(m)
  BY <1>1 DEF WTransfer, RetireMapped
<1>2. CASE WLast(m)
  <2> DEFINE t == Tail(masterWTargets[m])
  <2>1. /\ RetireRefused(m, t) /\ awDone' = awDone
        /\ masterWTargets[m] # <<>> /\ masterWTargets \in [Masters -> Seq(0 .. NumS)]
    BY <1>2 DEF WTransfer, RetireMapped, Serves, Routing, TypeOK
  <2>2. Retired(m)' = Retired(m) + 1
    <3>1. wDone'[m] = wDone[m] + 1
      BY <1>2, BeatRetires
    <3> QED
      BY <3>1 DEF InStep
  <2>3. masterWTargets[m] \in Seq(0 .. NumS)
    BY <2>1
  <2>4. Len(t) = Len(masterWTargets[m]) - 1 /\ Len(masterWTargets[m]) \in Nat \ {0}
        /\ t \in Seq(0 .. NumS)
    BY <2>1, <2>3, TailFacts
  <2>5. CASE t # <<>> /\ Head(t) = Sink
    <3> HIDE DEF t
    <3>1. masterWTargets'[m] = Tail(t)
      BY <2>1, <2>5 DEF RetireRefused
    <3>2. Len(Tail(t)) = Len(t) - 1 /\ Len(t) \in Nat
      BY <2>4, <2>5, TailFacts
    <3>3. awDone[m] \in Nat
      BY DEF Routing, TypeOK
    <3>4. awDone[m] - Len(masterWTargets'[m]) = awDone[m] - Len(masterWTargets[m]) + 1
      BY <2>1, <2>2 DEF Retired
    <3> QED
      BY <2>4, <3>1, <3>2, <3>3, <3>4
  <2>6. CASE ~(t # <<>> /\ Head(t) = Sink)
    BY <2>1, <2>6 DEF RetireRefused
  <2> QED
    BY <2>5, <2>6
<1> QED
  BY <1>1, <1>2

LEMMA TransferAnswering ==
  ASSUME Routing, InStep, InStep', Paired, Answering, NEW m \in Masters, NEW s \in Slaves,
         WTransfer(m, s)
  PROVE  Answering'
<1>1. /\ Serves(s, m) /\ WReady(s) /\ SendBeat(m) /\ wOrder[s] # <<>> /\ Head(wOrder[s]) = m
      /\ masterWTargets[m] # <<>> /\ Head(masterWTargets[m]) = s /\ commit[s] = None
      /\ UNCHANGED <<burst, awDone, answered, released, idOrder, bPc, bNum, bSrc, bQ,
                     errB, writeOrder>>
  BY OneRetired DEF WTransfer, Serves, WReady
<1>2. Head(awQ[s]) = <<m, wDone[m] + 1>> /\ received[s] = wBeat[m]
  BY <1>1, ServedIsHead DEF Paired
<1>3. received[s] + 1 = BurstOf(Head(awQ[s])).beats <=> WLast(m)
  BY <1>2 DEF BurstOf, WLast
<1>4. CASE ~WLast(m)
  <2>1. wOrder' = wOrder /\ commit' = commit /\ wDone' = wDone
    BY <1>3, <1>4 DEF WTransfer, RetireMapped, SendBeat
  <2> QED
    BY <1>1, <2>1, KeptAnswering
<1>5. CASE WLast(m)
  <2>1. PICK n : n = wDone[m] + 1
    OBVIOUS
  <2>2. /\ n \in Nat /\ <<m, n>> \in Ref /\ burst[m][n].dst = s
        /\ \A b \in Ref : \A t : Owed(b, t)' <=> Owed(b, t) \/ (b = <<m, n>> /\ t = s)
        /\ \A b \in Ref : \A t : Owed(b, t) /\ b[1] = m => b[2] < n
        /\ \A x \in Masters : Tickets(x)' /\ Draining(x)' /\ \A i \in Ids : QueueOf(x, i)'
    BY <1>1, <1>5, <2>1, BurstEnds
  <2>3. /\ wOrder' = [wOrder EXCEPT ![s] = Tail(@)]
        /\ commit' = [commit EXCEPT ![s] = <<m, n>>]
        /\ wOrder \in [Slaves -> Seq(Masters)] /\ commit \in [Slaves -> Ref \cup {None}]
    BY <1>2, <1>3, <1>5, <2>1 DEF WTransfer, RetireMapped, Routing, TypeOK
  <2>4. /\ wOrder'[s] = Tail(wOrder[s]) /\ commit'[s] = <<m, n>> /\ <<m, n>> # None
        /\ \A t \in Slaves : t # s => wOrder'[t] = wOrder[t] /\ commit'[t] = commit[t]
    BY <2>2, <2>3, RefNotNone
  <2>5. bQ[s] \in Seq(Ref) /\ Len(bQ[s]) \in Nat /\ wOrder[s] \in Seq(Masters)
    BY DEF Routing, TypeOK
  <2>6. SlaveOwes(s)'
    <3>1. SlaveOwes(s)
      BY DEF Answering
    <3>2. \A b \in Ref : Owed(b, s) <=> Holds(bQ[s], b)
      BY <1>1, <3>1, RefNotNone DEF SlaveOwes
    <3>3. \A b \in Ref : Owed(b, s)' <=> Holds(bQ[s], b) \/ b = <<m, n>>
      BY <2>2, <3>2
    <3>4. ASSUME NEW k \in 1 .. Len(bQ[s]), bQ[s][k][1] = m PROVE bQ[s][k][2] < n
      <4>1. bQ[s][k] \in Ref /\ Holds(bQ[s], bQ[s][k])
        BY <2>5 DEF Holds
      <4> QED
        BY <2>2, <3>2, <3>4, <4>1
    <3>5. MasterOrder(bQ[s])
      BY <3>1 DEF SlaveOwes
    <3>6. commit'[s][1] = m /\ commit'[s][2] = n
      BY <2>4
    <3>7. \A b \in Ref : Owed(b, s)' <=> Holds(bQ'[s], b) \/ commit'[s] = b
      BY <1>1, <2>4, <3>3
    <3>8. \A k \in 1 .. Len(bQ'[s]) : bQ'[s][k][1] = commit'[s][1] => bQ'[s][k][2] < commit'[s][2]
      BY <1>1, <3>4, <3>6
    <3>9. MasterOrder(bQ'[s])
      BY <1>1, <3>5
    <3> QED
      BY <3>7, <3>8, <3>9 DEF SlaveOwes, MasterOrder
  <2>7. TurnsMatch(s)'
    <3>1. /\ Len(wOrder[s]) \in Nat \ {0} /\ Len(Tail(wOrder[s])) = Len(wOrder[s]) - 1
          /\ wOrder[s][1] = m
          /\ \A k \in 1 .. Len(wOrder[s]) - 1 : Tail(wOrder[s])[k] = wOrder[s][k + 1]
      BY <1>1, <2>5, TailQueue
    <3>2. TurnsMatch(s) /\ Held(s) = 0 /\ Held(s)' = 1
      BY <1>1, <2>4 DEF Answering, Held
    <3>3. /\ Len(writeOrder[s]) = Len(bQ[s]) + 0 + Len(wOrder[s])
          /\ \A k \in 1 .. Len(bQ[s]) : writeOrder[s][k] = bQ[s][k][1]
          /\ \A k \in 1 .. Len(wOrder[s]) : writeOrder[s][Len(bQ[s]) + 0 + k] = wOrder[s][k]
      BY <3>2 DEF TurnsMatch
    <3>4. writeOrder[s][Len(bQ[s]) + 1] = m
      <4>1. 1 \in 1 .. Len(wOrder[s]) /\ Len(bQ[s]) + 0 + 1 = Len(bQ[s]) + 1
        BY <2>5, <3>1
      <4> QED
        BY <3>1, <3>3, <4>1
    <3>8. PICK a \in Nat, w \in Nat : a = Len(bQ[s]) /\ w = Len(wOrder[s])
      BY <2>5, <3>1
    <3>5. ASSUME NEW k \in 1 .. Len(Tail(wOrder[s]))
          PROVE  writeOrder[s][Len(bQ[s]) + 1 + k] = Tail(wOrder[s])[k]
      <4>0. k \in 1 .. w - 1
        BY <3>1, <3>8
      <4>1. k + 1 \in 1 .. w /\ a + 0 + (k + 1) = a + 1 + k
        BY <4>0
      <4>2. writeOrder[s][a + 0 + (k + 1)] = wOrder[s][k + 1]
        BY <3>3, <3>8, <4>1
      <4>3. Tail(wOrder[s])[k] = wOrder[s][k + 1]
        BY <3>1, <3>8, <4>0
      <4>4. writeOrder[s][a + 1 + k] = Tail(wOrder[s])[k]
        BY <4>1, <4>2, <4>3
      <4> QED
        BY <3>8, <4>4
    <3>9. a + 0 + w = a + 1 + (w - 1)
      OBVIOUS
    <3>6. Len(writeOrder[s]) = Len(bQ[s]) + 1 + Len(Tail(wOrder[s]))
      BY <3>1, <3>3, <3>8, <3>9
    <3>7. commit'[s][1] = m
      BY <2>4
    <3> QED
      BY <1>1, <2>4, <3>2, <3>3, <3>4, <3>5, <3>6, <3>7 DEF TurnsMatch
  <2>8. ASSUME NEW t \in Slaves, t # s PROVE SlaveOwes(t)' /\ TurnsMatch(t)'
    <3>1. \A b \in Ref : Owed(b, t)' <=> Owed(b, t)
      BY <2>2, <2>8
    <3> QED
      BY <1>1, <2>4, <2>8, <3>1, KeptSlaveOwes, KeptTurns DEF Answering
  <2>9. BusOwes'
    <3>1. \A b \in Ref : Owed(b, Sink)' <=> Owed(b, Sink)
      BY <2>2, SinkNotSlave
    <3> QED
      BY <1>1, <3>1, KeptBusOwes DEF Answering
  <2> QED
    BY <2>2, <2>6, <2>7, <2>8, <2>9 DEF Answering
<1> QED
  BY <1>4, <1>5

\* The refused burst that is ending is the oldest booked.
LEMMA OldestRefused ==
  ASSUME Routing, InStep, NEW m \in Masters, SinkServes(m)
  PROVE  errAwid[m] # <<>> /\ Head(errAwid[m]) = wDone[m] + 1
<1>0. Retired(m) = wDone[m]
  BY DEF InStep
<1>1. masterWTargets[m] # <<>> /\ Head(masterWTargets[m]) = Sink
  BY DEF SinkServes
<1>2. wDone[m] \in Nat /\ wDone[m] + 1 \in wDone[m] + 1 .. awDone[m] /\ awDone[m] \in Nat
      /\ burst[m][wDone[m] + 1].dst = Sink
  BY <1>1, NextBurst
<1>3. PICK k \in 1 .. Len(errAwid[m]) : errAwid[m][k] = wDone[m] + 1
  BY <1>2, <1>0 DEF ErrBooked, Routing
<1>4. errAwid[m] \in Seq(1 .. MaxBursts) /\ errAwid[m] # <<>>
  BY <1>3 DEF Routing, TypeOK
<1>5. Head(errAwid[m]) = errAwid[m][1] /\ 1 \in 1 .. Len(errAwid[m])
  BY <1>4, TailFacts
<1>6. errAwid[m][1] \in wDone[m] + 1 .. awDone[m]
  BY <1>5, <1>0 DEF ErrBooked, Routing
<1>7. 1 < k => errAwid[m][1] < wDone[m] + 1
  BY <1>3, <1>5 DEF ErrBooked, Routing
<1>8. k = 1
  BY <1>2, <1>3, <1>4, <1>6, <1>7
<1> QED
  BY <1>3, <1>4, <1>5, <1>8

LEMMA SinkAnswering ==
  ASSUME Routing, InStep, Answering, NEW m \in Masters, WSink(m)
  PROVE  Answering'
<1>1. /\ SinkServes(m) /\ SendBeat(m) /\ masterWTargets[m] # <<>> /\ Head(masterWTargets[m]) = Sink
      /\ UNCHANGED <<burst, awDone, answered, released, idOrder, bPc, bNum, bSrc, bQ,
                     commit, writeOrder, wOrder>>
  BY DEF WSink, SinkServes, slaveVars
<1>2. CASE ~WLast(m)
  <2>1. wDone' = wDone /\ errB' = errB
    BY <1>2 DEF WSink, SendBeat
  <2> QED
    BY <1>1, <2>1, KeptAnswering
<1>3. CASE WLast(m)
  <2>1. PICK n : n = wDone[m] + 1
    OBVIOUS
  <2>2. /\ n \in Nat /\ <<m, n>> \in Ref /\ burst[m][n].dst = Sink
        /\ \A b \in Ref : \A t : Owed(b, t)' <=> Owed(b, t) \/ (b = <<m, n>> /\ t = Sink)
        /\ \A b \in Ref : \A t : Owed(b, t) /\ b[1] = m => b[2] < n
        /\ \A x \in Masters : Tickets(x)' /\ Draining(x)' /\ \A i \in Ids : QueueOf(x, i)'
    BY <1>1, <1>3, <2>1, BurstEnds
  <2>3. errB' = Append(errB, <<m, n>>) /\ errB \in Seq(Ref)
    BY <1>1, <1>3, <2>1, OldestRefused DEF WSink, RetireRefused, Routing, TypeOK
  <2>4. ASSUME NEW s \in Slaves PROVE SlaveOwes(s)' /\ TurnsMatch(s)'
    <3>1. \A b \in Ref : Owed(b, s)' <=> Owed(b, s)
      BY <2>2, SinkNotSlave
    <3> QED
      BY <1>1, <3>1, KeptSlaveOwes, KeptTurns DEF Answering
  <2>5. BusOwes'
    <3>1. BusOwes
      BY DEF Answering
    <3>2. ASSUME NEW k \in 1 .. Len(errB), errB[k][1] = m PROVE errB[k][2] < n
      <4>1. errB[k] \in Ref /\ Holds(errB, errB[k])
        BY <2>3 DEF Holds
      <4> QED
        BY <2>2, <3>1, <3>2, <4>1 DEF BusOwes
    <3>3. MasterOrder(errB')
      <4>1. MasterOrder(errB) /\ <<m, n>>[1] = m /\ <<m, n>>[2] = n
        BY <3>1 DEF BusOwes
      <4> QED
        BY <2>2, <2>3, <3>2, <4>1, OrderAppend
    <3>4. \A x : Holds(errB', x) <=> Holds(errB, x) \/ x = <<m, n>>
      BY <2>2, <2>3, AppendQueue
    <3> QED
      BY <2>2, <3>1, <3>3, <3>4 DEF BusOwes, MasterOrder
  <2> QED
    BY <2>2, <2>4, <2>5 DEF Answering
<1> QED
  BY <1>2, <1>3

----------------------------------------------------------------------------
(* Responses *)

\* What is being answered is picked: the oldest burst of m that src owes.
LEMMA PickDrains ==
  ASSUME Routing, Answering, NEW m \in Masters, bPc[m] = "scan", NEW src, NEW b \in Ref,
         b[1] = m, Owed(b, src), src # Sink => Head(bQ[src]) = b,
         \A n \in 1 .. wDone[m] : Owed(<<m, n>>, src) => b[2] <= n,
         bSrc' = [bSrc EXCEPT ![m] = src], bNum' = [bNum EXCEPT ![m] = b[2]],
         bPc' = [bPc EXCEPT ![m] = "drive"],
         UNCHANGED <<burst, wDone, answered, released, idOrder, errB, writeOrder, wOrder,
                     bQ, commit>>
  PROVE  Answering'
<1>1. /\ bPc'[m] = "drive" /\ bSrc'[m] = src /\ bNum'[m] = b[2]
      /\ \A x \in Masters : x # m => bPc'[x] = bPc[x] /\ bSrc'[x] = bSrc[x] /\ bNum'[x] = bNum[x]
  BY DEF Routing, TypeOK
<1>2. ASSUME NEW c, c[1] \in Masters, NEW t PROVE Owed(c, t)' <=> Owed(c, t)
  <2>1. Acking(c)' <=> Acking(c)
    BY <1>1, <1>2 DEF Acking
  <2> QED
    BY <2>1 DEF Owed
<1>3. \A c \in Ref : \A t : Owed(c, t)' <=> Owed(c, t)
  BY <1>2, RefPair
<1>4. ASSUME NEW s \in Slaves PROVE SlaveOwes(s)' /\ TurnsMatch(s)'
  BY <1>3, KeptSlaveOwes, KeptTurns DEF Answering
<1>5. BusOwes'
  BY <1>3, KeptBusOwes DEF Answering
<1>6. ASSUME NEW x \in Masters PROVE Tickets(x)'
  BY KeptTickets DEF Answering
<1>7. ASSUME NEW x \in Masters PROVE Draining(x)'
  <2>1. CASE x # m
    <3>1. ASSUME NEW n PROVE Owed(<<x, n>>, bSrc[x])' <=> Owed(<<x, n>>, bSrc[x])
      BY <1>1, <2>1 DEF Owed, Acking
    <3> QED
      BY <1>1, <2>1, <3>1, KeptDraining DEF Answering
  <2>2. CASE x = m
    <3>1. b[2] \in 1 .. wDone[m] /\ burst[m][b[2]].dst = src /\ b[2] \notin answered[m]
      BY DEF Owed, Acking
    <3>2. b = <<m, b[2]>>
      BY RefPair
    <3>3. \A n \in 1 .. wDone[m] : Owed(<<m, n>>, src)' => b[2] <= n
      BY <1>2
    <3>4. \A n \in 1 .. wDone[m] : Owed(<<m, n>>, bSrc[m])' <=> Owed(<<m, n>>, src)'
      BY <1>1 DEF Owed, Acking
    <3> QED
      BY <1>1, <2>2, <3>1, <3>2, <3>3, <3>4 DEF Draining, Owed, Acking
  <2> QED
    BY <2>1, <2>2
<1>8. ASSUME NEW x \in Masters, NEW i \in Ids PROVE QueueOf(x, i)'
  BY KeptQueueOf DEF Answering
<1> QED
  BY <1>4, <1>5, <1>6, <1>7, <1>8 DEF Answering

\* The first of a master's refused bursts in err_writes_pending_b_ is its oldest.
LEMMA FirstRefused ==
  ASSUME Routing, Answering, NEW m \in Masters, NEW k \in First(ErrIndices(m))
  PROVE  /\ errB \in Seq(Ref) /\ k \in 1 .. Len(errB) /\ errB[k] \in Ref /\ errB[k][1] = m
         /\ Owed(errB[k], Sink)
         /\ \A n \in Nat : Owed(<<m, n>>, Sink) => errB[k][2] <= n
<1>1. errB \in Seq(Ref) /\ Len(errB) \in Nat
  BY DEF Routing, TypeOK
<1>2. /\ k \in 1 .. Len(errB) /\ errB[k][1] = m
      /\ \A j \in 1 .. Len(errB) : errB[j][1] = m => k <= j
  BY DEF First, ErrIndices
<1>3. errB[k] \in Ref
  BY <1>1, <1>2
<1>4. errB[k][2] \in Nat
  BY <1>3, RefPair
<1>5. Owed(errB[k], Sink)
  BY <1>2, <1>3 DEF Answering, BusOwes, Holds
<1>6. ASSUME NEW n \in Nat, Owed(<<m, n>>, Sink) PROVE errB[k][2] <= n
  <2>1. <<m, n>> \in Ref
    <3>1. n \in 1 .. wDone[m] /\ wDone[m] \in Nat /\ wDone[m] <= MaxBursts
      <4>1. /\ wDone[m] \in Nat /\ awDone[m] \in Nat /\ Len(burst[m]) \in Nat
            /\ wDone[m] <= awDone[m] /\ awDone[m] <= Len(burst[m])
            /\ Len(burst[m]) <= MaxBursts /\ MaxBursts \in Nat
        BY StreamTyped, BusWriteAssumption
      <4> QED
        BY <1>6, <4>1 DEF Owed
    <3>2. n \in 1 .. MaxBursts
      BY <3>1, BusWriteAssumption
    <3> QED
      BY <3>2 DEF Ref
  <2>2. PICK j \in 1 .. Len(errB) : errB[j] = <<m, n>>
    BY <1>6, <2>1 DEF Answering, BusOwes, Holds
  <2>3. k <= j /\ errB[j][1] = m /\ errB[j][2] = n
    BY <1>2, <2>2
  <2>4. k < j => errB[k][2] < n
    BY <1>2, <2>3 DEF Answering, BusOwes, MasterOrder
  <2>5. k = j => errB[k][2] = n
    BY <2>3
  <2>6. k < j \/ k = j
    BY <1>1, <1>2, <2>3
  <2> QED
    BY <1>4, <2>4, <2>5, <2>6
<1> QED
  BY <1>1, <1>2, <1>3, <1>5, <1>6

LEMMA BPickAnswering ==
  ASSUME Routing, Answering, NEW m \in Masters, BPick(m)
  PROVE  Answering'
<1>1. /\ bPc[m] = "scan" /\ bPc' = [bPc EXCEPT ![m] = "drive"]
      /\ UNCHANGED <<burst, wDone, answered, released, idOrder, errB, writeOrder, wOrder,
                     bQ, commit>>
  BY DEF BPick, masterVars, slaveVars
<1>2. ASSUME NEW k \in First(ErrIndices(m)), bSrc' = [bSrc EXCEPT ![m] = Sink],
             bNum' = [bNum EXCEPT ![m] = errB[k][2]]
      PROVE  Answering'
  <2>1. PICK b : b = errB[k]
    OBVIOUS
  <2>2. /\ b \in Ref /\ b[1] = m /\ Owed(b, Sink)
        /\ \A n \in Nat : Owed(<<m, n>>, Sink) => b[2] <= n
    BY <2>1, FirstRefused
  <2>3. \A n \in 1 .. wDone[m] : n \in Nat
    BY StreamTyped
  <2>4. bNum' = [bNum EXCEPT ![m] = b[2]]
    BY <1>2, <2>1
  <2> QED
    BY <1>1, <1>2, <2>2, <2>3, <2>4, PickDrains
<1>3. ASSUME NEW s \in First(BSources(m)), bSrc' = [bSrc EXCEPT ![m] = s],
             bNum' = [bNum EXCEPT ![m] = Head(bQ[s])[2]]
      PROVE  Answering'
  <2>1. s \in Slaves /\ bUp[s] /\ writeOrder[s] # <<>> /\ Head(writeOrder[s]) = m
    BY DEF First, BSources
  <2>2. PICK b : b = Head(bQ[s])
    OBVIOUS
  <2>3. bQ[s] # <<>> /\ bQ[s] \in Seq(Ref)
    BY <2>1 DEF Routing, BRouted, TypeOK
  <2>4. /\ b \in Ref /\ b = bQ[s][1] /\ Holds(bQ[s], b) /\ 1 \in 1 .. Len(bQ[s])
        /\ Len(bQ[s]) \in Nat
    <3>1. b \in Ref /\ b = bQ[s][1] /\ Holds(bQ[s], b) /\ Len(bQ[s]) \in Nat \ {0}
      BY <2>2, <2>3, TailQueue
    <3> QED
      BY <3>1
  <2>5. b[1] = m
    <3>1. Head(writeOrder[s]) = writeOrder[s][1]
      <4>1. writeOrder[s] \in Seq(Masters)
        BY <2>1 DEF Routing, TypeOK
      <4> QED
        BY <2>1, <4>1, TailQueue
    <3>2. writeOrder[s][1] = bQ[s][1][1]
      BY <2>1, <2>4 DEF Answering, TurnsMatch
    <3> QED
      BY <2>1, <2>4, <3>1, <3>2
  <2>6. Owed(b, s)
    BY <2>1, <2>4 DEF Answering, SlaveOwes
  <2>7. ASSUME NEW n \in 1 .. wDone[m], Owed(<<m, n>>, s) PROVE b[2] <= n
    <3>1. <<m, n>> \in Ref /\ n \in Nat /\ b[2] \in Nat
      <4>1. /\ wDone[m] \in Nat /\ awDone[m] \in Nat /\ Len(burst[m]) \in Nat
            /\ wDone[m] <= awDone[m] /\ awDone[m] <= Len(burst[m])
            /\ Len(burst[m]) <= MaxBursts /\ MaxBursts \in Nat
        BY StreamTyped, BusWriteAssumption
      <4>2. n \in 1 .. MaxBursts /\ n \in Nat
        BY <4>1
      <4> QED
        BY <2>4, <4>2, RefPair DEF Ref
    <3>2. CASE Holds(bQ[s], <<m, n>>)
      <4>1. PICK j \in 1 .. Len(bQ[s]) : bQ[s][j] = <<m, n>>
        BY <3>2 DEF Holds
      <4>2. bQ[s][j][1] = m /\ bQ[s][j][2] = n
        BY <4>1
      <4>3. 1 < j => b[2] < n
        BY <2>1, <2>4, <2>5, <4>2 DEF Answering, SlaveOwes, MasterOrder
      <4>4. 1 = j => b[2] = n
        BY <2>4, <4>2
      <4>5. 1 < j \/ 1 = j
        BY <2>4
      <4> QED
        BY <3>1, <4>3, <4>4, <4>5
    <3>3. CASE commit[s] = <<m, n>>
      <4>1. commit[s][1] = m /\ commit[s][2] = n /\ commit[s] # None
        BY <3>1, <3>3, RefNotNone
      <4>2. b[2] < n
        BY <2>1, <2>4, <2>5, <4>1 DEF Answering, SlaveOwes
      <4> QED
        BY <3>1, <4>2
    <3> QED
      BY <2>1, <2>7, <3>1, <3>2, <3>3 DEF Answering, SlaveOwes
  <2>8. bNum' = [bNum EXCEPT ![m] = b[2]] /\ Head(bQ[s]) = b
    BY <1>3, <2>2
  <2> QED
    BY <1>1, <1>3, <2>4, <2>5, <2>6, <2>7, <2>8, PickDrains
<1> QED
  BY <1>2, <1>3 DEF BPick

\* The response offered answers the oldest unanswered burst of its id.
LEMMA DrainMatches ==
  ASSUME Routing, Answering, Dedicated, NEW m \in Masters, bPc[m] = "drive"
  PROVE  /\ BId(m) = burst[m][bNum[m]].id /\ BId(m) \in Ids
         /\ idOrder[m][BId(m)] # <<>> /\ Head(idOrder[m][BId(m)]) = bNum[m]
         /\ idOrder[m][BId(m)] \in Seq(1 .. MaxBursts)
         /\ bNum[m] \in 1 .. wDone[m] /\ bNum[m] \in 1 .. MaxBursts /\ bNum[m] \notin answered[m]
         /\ bSrc[m] = burst[m][bNum[m]].dst
         /\ bSrc[m] # Sink => Head(bQ[bSrc[m]]) = <<m, bNum[m]>>
<1>1. PICK n : n = bNum[m]
  OBVIOUS
<1>2. /\ n \in 1 .. wDone[m] /\ burst[m][n].dst = bSrc[m] /\ n \notin answered[m]
      /\ bSrc[m] # Sink => Head(bQ[bSrc[m]]) = <<m, n>>
      /\ \A k \in 1 .. wDone[m] : Owed(<<m, k>>, bSrc[m]) => n <= k
  BY <1>1 DEF Answering, Draining
<1>3. /\ wDone[m] \in Nat /\ awDone[m] \in Nat /\ Len(burst[m]) \in Nat
      /\ wDone[m] <= awDone[m] /\ awDone[m] <= Len(burst[m])
      /\ Len(burst[m]) <= MaxBursts /\ MaxBursts \in Nat
  BY StreamTyped, BusWriteAssumption
<1>4. n \in 1 .. Len(burst[m]) /\ n \in 1 .. MaxBursts /\ n <= Len(burst[m])
  BY <1>2, <1>3
<1>5. \A k \in 1 .. Len(burst[m]) : burst[m][k] \in Shapes
  <2>1. burst[m] \in Seq(Shapes)
    BY DEF Routing, TypeOK
  <2> QED
    BY <2>1
<1>6. PICK i \in Ids : i = burst[m][n].id
  BY <1>4, <1>5, BusWriteAssumption
<1>7. BId(m) = i
  BY <1>1, <1>2, <1>6 DEF BId, BurstOf
<1>8. PICK q : q = idOrder[m][i]
  OBVIOUS
<1> DEFINE S == 1 .. MaxBursts
<1>9. q \in Seq(S) /\ QueueOf(m, i)
  <2>1. idOrder[m] \in [Ids -> Seq(1 .. MaxBursts)]
    BY DEF Routing, TypeOK
  <2> QED
    BY <1>8, <2>1 DEF Answering
<1>10. PICK k \in 1 .. Len(q) : q[k] = n
  BY <1>2, <1>4, <1>6, <1>8, <1>9 DEF QueueOf, Holds
<1>11. q # <<>>
  BY <1>9, <1>10
<1>12. Head(q) \in S /\ Head(q) = q[1] /\ Holds(q, Head(q)) /\ Len(q) \in Nat \ {0}
  <2> HIDE DEF S
  <2> QED
    BY <1>9, <1>11, TailQueue
<1>13. PICK h \in 1 .. MaxBursts : h = Head(q)
  BY <1>12
<1>14. /\ h \in 1 .. MaxBursts /\ h <= Len(burst[m]) /\ burst[m][h].id = i
       /\ h \notin answered[m]
  BY <1>8, <1>9, <1>12, <1>13 DEF QueueOf
<1>15. h <= n
  <2>1. 1 \in 1 .. Len(q) /\ (1 = k \/ 1 < k)
    BY <1>12
  <2>2. 1 < k => h < n
    BY <1>8, <1>9, <1>10, <1>12, <1>13, <2>1 DEF QueueOf
  <2>3. 1 = k => h = n
    BY <1>10, <1>12, <1>13
  <2> QED
    BY <1>3, <1>4, <1>14, <2>1, <2>2, <2>3
<1>16. burst[m][h].dst = bSrc[m]
  <2>1. h \in 1 .. Len(burst[m])
    BY <1>3, <1>14
  <2> QED
    BY <1>2, <1>4, <1>5, <1>6, <1>14, <2>1 DEF Dedicated
<1>17. h \in 1 .. wDone[m]
  BY <1>2, <1>3, <1>14, <1>15
<1>18. Owed(<<m, h>>, bSrc[m])
  BY <1>14, <1>16, <1>17 DEF Owed
<1>19. h = n
  BY <1>2, <1>3, <1>4, <1>14, <1>15, <1>17, <1>18
<1> QED
  BY <1>1, <1>2, <1>4, <1>6, <1>7, <1>8, <1>9, <1>11, <1>13, <1>19

\* The response is credited to burst n of id i.
LEMMA DeliverQueues ==
  ASSUME Routing, Answering, NEW m \in Masters, NEW i \in Ids, NEW n \in 1 .. wDone[m],
         n \in 1 .. MaxBursts, n \notin answered[m], burst[m][n].id = i,
         idOrder[m][i] # <<>>, Head(idOrder[m][i]) = n,
         answered' = [answered EXCEPT ![m] = @ \cup {n}],
         idOrder' = [idOrder EXCEPT ![m][i] = Tail(@)],
         UNCHANGED <<burst, wDone, released>>
  PROVE  \A x \in Masters : Tickets(x)' /\ \A j \in Ids : QueueOf(x, j)'
<1>1. /\ answered'[m] = answered[m] \cup {n}
      /\ \A x \in Masters : x # m => answered'[x] = answered[x]
  BY DEF Routing, TypeOK
<1>2. /\ idOrder'[m][i] = Tail(idOrder[m][i])
      /\ \A j \in Ids : j # i => idOrder'[m][j] = idOrder[m][j]
      /\ \A x \in Masters : x # m => idOrder'[x] = idOrder[x]
      /\ idOrder[m][i] \in Seq(1 .. MaxBursts)
  <2>1. idOrder \in [Masters -> [Ids -> Seq(1 .. MaxBursts)]]
    BY DEF Routing, TypeOK
  <2>2. idOrder[m] \in [Ids -> Seq(1 .. MaxBursts)]
    BY <2>1
  <2> QED
    BY <2>1, <2>2
<1>3. ASSUME NEW x \in Masters PROVE Tickets(x)'
  <2>1. Tickets(x)
    BY DEF Answering
  <2>2. CASE x = m
    BY <1>1, <2>1, <2>2 DEF Tickets
  <2>3. CASE x # m
    BY <1>1, <2>1, <2>3 DEF Tickets
  <2> QED
    BY <2>2, <2>3
<1>4. ASSUME NEW x \in Masters, NEW j \in Ids PROVE QueueOf(x, j)'
  <2>1. QueueOf(x, j)
    BY DEF Answering
  <2>2. CASE x # m
    <3>1. idOrder'[x][j] = idOrder[x][j] /\ answered'[x] = answered[x]
      BY <1>1, <1>2, <2>2
    <3> QED
      BY <2>1, <3>1, KeptQueueOf
  <2>3. CASE x = m /\ j # i
    <3>1. idOrder'[m][j] = idOrder[m][j]
      BY <1>2, <2>3
    <3>2. \A k \in 1 .. MaxBursts : burst[m][k].id = j => (k \in answered'[m] <=> k \in answered[m])
      BY <1>1, <2>3
    <3> QED
      BY <2>1, <2>3, <3>1, <3>2 DEF QueueOf
  <2>4. CASE x = m /\ j = i
    <3> DEFINE q == idOrder[m][i]  S == 1 .. MaxBursts
    <3>1. q \in Seq(S) /\ q # <<>> /\ Head(q) = n /\ Len(q) \in Nat
      BY <1>2
    <3>2. /\ \A k, l \in 1 .. Len(q) : k < l => q[k] < q[l]
          /\ \A k \in 1 .. MaxBursts :
               Holds(q, k) <=> k <= Len(burst[m]) /\ burst[m][k].id = i /\ k \notin answered[m]
      BY <2>1, <2>4 DEF QueueOf
    <3>3. \A k \in 1 .. Len(q) : q[k] \in Int
      <4>1. \A k \in 1 .. Len(q) : q[k] \in S
        <5> HIDE DEF q, S
        <5> QED
          BY <3>1, ElementOfSeq
      <4> QED
        BY <4>1, BusWriteAssumption
    <3>4. Distinct(q)
      <4> SUFFICES ASSUME NEW k \in 1 .. Len(q), NEW l \in 1 .. Len(q), q[k] = q[l] PROVE k = l
        BY DEF Distinct
      <4>1. ~(k < l) /\ ~(l < k)
        BY <3>2, <3>3
      <4>2. k \in Int /\ l \in Int
        BY <3>1
      <4> QED
        BY <4>1, <4>2
    <3>5. idOrder'[x][j] = Tail(q)
      BY <1>2, <2>4
    <3> HIDE DEF q, S
    <3>6. /\ Len(Tail(q)) = Len(q) - 1 /\ Len(q) \in Nat \ {0}
          /\ \A k \in 1 .. Len(q) - 1 : Tail(q)[k] = q[k + 1]
          /\ \A y : Holds(Tail(q), y) <=> Holds(q, y) /\ y # n
      BY <3>1, <3>4, TailQueue
    <3>7. ASSUME NEW k \in 1 .. Len(Tail(q)), NEW l \in 1 .. Len(Tail(q)), k < l
          PROVE  Tail(q)[k] < Tail(q)[l]
      <4>1. k + 1 \in 1 .. Len(q) /\ l + 1 \in 1 .. Len(q) /\ k + 1 < l + 1
        BY <3>6, <3>7
      <4>2. q[k + 1] < q[l + 1]
        BY <3>2, <4>1
      <4> QED
        BY <3>6, <4>2
    <3>8. \A k \in 1 .. MaxBursts :
            Holds(Tail(q), k) <=>
              k <= Len(burst[m]) /\ burst[m][k].id = i /\ k \notin answered'[m]
      BY <1>1, <3>2, <3>6
    <3> QED
      BY <2>4, <3>5, <3>7, <3>8 DEF QueueOf
  <2> QED
    BY <2>2, <2>3, <2>4
<1> QED
  BY <1>3, <1>4

LEMMA BDeliverAnswering ==
  ASSUME Routing, Answering, Dedicated, NEW m \in Masters, BDeliver(m)
  PROVE  Answering'
<1>1. PICK n : n = bNum[m]
  OBVIOUS
<1>2. PICK i : i = BId(m)
  OBVIOUS
<1>3. /\ i = burst[m][n].id /\ i \in Ids
      /\ idOrder[m][i] # <<>> /\ Head(idOrder[m][i]) = n
      /\ n \in 1 .. wDone[m] /\ n \in 1 .. MaxBursts /\ n \notin answered[m]
      /\ bSrc[m] = burst[m][n].dst
      /\ bSrc[m] # Sink => Head(bQ[bSrc[m]]) = <<m, n>>
  <2>1. bPc[m] = "drive"
    BY DEF BDeliver
  <2> QED
    BY <1>1, <1>2, <2>1, DrainMatches
<1>4. /\ answered' = [answered EXCEPT ![m] = @ \cup {n}]
      /\ idOrder' = [idOrder EXCEPT ![m][i] = Tail(@)]
      /\ UNCHANGED <<burst, wDone, released, writeOrder, wOrder, bSrc, bNum, bQ, commit>>
      /\ bPc[m] = "drive"
  BY <1>2, <1>3 DEF BDeliver, slaveVars
<1>5. \A x \in Masters : Tickets(x)' /\ \A j \in Ids : QueueOf(x, j)'
  BY <1>3, <1>4, DeliverQueues
<1>6. /\ answered'[m] = answered[m] \cup {n}
      /\ \A x \in Masters : x # m => answered'[x] = answered[x]
  BY <1>4 DEF Routing, TypeOK
<1>7. <<m, n>> \in Ref /\ n \in Nat
  BY <1>3 DEF Ref
<1>8. CASE bSrc[m] = Sink
  <2>1. PICK k \in First(ErrIndices(m)) :
           errB' = [j \in 1 .. Len(errB) - 1 |-> IF j < k THEN errB[j] ELSE errB[j + 1]]
    BY <1>8 DEF BDeliver
  <2>2. bPc' = [bPc EXCEPT ![m] = "scan"]
    BY <1>8 DEF BDeliver
  <2>3. bPc'[m] = "scan" /\ \A x \in Masters : x # m => bPc'[x] = bPc[x]
    BY <2>2 DEF Routing, TypeOK
  <2>4. /\ errB \in Seq(Ref) /\ k \in 1 .. Len(errB) /\ errB[k] \in Ref /\ errB[k][1] = m
        /\ Owed(errB[k], Sink)
        /\ \A l \in Nat : Owed(<<m, l>>, Sink) => errB[k][2] <= l
    BY FirstRefused
  <2>5. Owed(<<m, n>>, Sink)
    BY <1>3, <1>8 DEF Owed
  <2>6. errB[k] = <<m, n>>
    <3>1. errB[k] = <<m, errB[k][2]>> /\ errB[k][2] \in Nat
      BY <2>4, RefPair
    <3>2. errB[k][2] <= n
      BY <1>7, <2>4, <2>5
    <3>3. errB[k][2] \in 1 .. wDone[m]
      BY <2>4 DEF Owed
    <3>4. n <= errB[k][2]
      <4>1. \A l \in 1 .. wDone[m] : Owed(<<m, l>>, Sink) => n <= l
        BY <1>1, <1>4, <1>8 DEF Answering, Draining
      <4>2. Owed(<<m, errB[k][2]>>, Sink)
        BY <2>4, <3>1
      <4> QED
        BY <3>3, <4>1, <4>2
    <3> QED
      BY <1>7, <3>1, <3>2, <3>4
  <2>7. ASSUME NEW b \in Ref, NEW t PROVE Owed(b, t)' <=> Owed(b, t) /\ b # <<m, n>>
    <3>1. b[1] \in Masters /\ b = <<b[1], b[2]>>
      BY RefPair
    <3>2. CASE b[1] # m
      <4>1. b # <<m, n>>
        BY <3>2
      <4> QED
        BY <1>4, <1>6, <2>3, <3>1, <3>2, <4>1 DEF Owed, Acking
    <3>3. CASE b[1] = m
      <4>1. b = <<m, n>> <=> b[2] = n
        BY <3>1, <3>3
      <4>2. ~Acking(b) /\ ~Acking(b)'
        BY <1>4, <2>3, <3>3 DEF Acking
      <4> QED
        BY <1>4, <1>6, <3>3, <4>1, <4>2 DEF Owed
    <3> QED
      BY <3>2, <3>3
  <2>8. ASSUME NEW s \in Slaves PROVE SlaveOwes(s)' /\ TurnsMatch(s)'
    <3>1. ~Owed(<<m, n>>, s)
      BY <1>3, <1>8, SinkNotSlave DEF Owed
    <3>2. \A b \in Ref : Owed(b, s)' <=> Owed(b, s)
      BY <2>7, <3>1
    <3> QED
      BY <1>4, <3>2, KeptSlaveOwes, KeptTurns DEF Answering
  <2>9. BusOwes'
    <3>1. BusOwes
      BY DEF Answering
    <3>2. /\ MasterOrder(errB')
          /\ \A x : Holds(errB', x) <=> Holds(errB, x) /\ x # <<m, n>>
      <4>1. MasterOrder(errB)
        BY <3>1 DEF BusOwes
      <4>2. PICK r : r = errB'
        OBVIOUS
      <4>3. r = Without(errB, k)
        BY <2>1, <4>2 DEF Without
      <4>4. MasterOrder(r) /\ \A x : Holds(r, x) <=> Holds(errB, x) /\ x # errB[k]
        BY <2>4, <4>1, <4>3, OrderRemove
      <4> QED
        BY <2>6, <4>2, <4>4
    <3> QED
      BY <2>7, <3>1, <3>2 DEF BusOwes, MasterOrder
  <2>10. ASSUME NEW x \in Masters PROVE Draining(x)'
    <3>1. CASE x = m
      BY <2>3, <3>1 DEF Draining
    <3>2. CASE x # m
      <4>1. ASSUME NEW l PROVE Owed(<<x, l>>, bSrc[x])' <=> Owed(<<x, l>>, bSrc[x])
        BY <1>4, <1>6, <2>3, <3>2 DEF Owed, Acking
      <4> QED
        BY <1>4, <1>6, <2>3, <3>2, <4>1, KeptDraining DEF Answering
    <3> QED
      BY <3>1, <3>2
  <2> QED
    BY <1>5, <2>8, <2>9, <2>10 DEF Answering
<1>9. CASE bSrc[m] # Sink
  <2>1. bPc' = [bPc EXCEPT ![m] = "ack"] /\ errB' = errB
    BY <1>9 DEF BDeliver
  <2>2. bPc'[m] = "ack" /\ \A x \in Masters : x # m => bPc'[x] = bPc[x]
    BY <2>1 DEF Routing, TypeOK
  <2>3. ASSUME NEW b, b[1] \in Masters, NEW t PROVE Owed(b, t)' <=> Owed(b, t)
    <3>1. CASE b[1] # m
      BY <1>4, <1>6, <2>2, <2>3, <3>1 DEF Owed, Acking
    <3>2. CASE b[1] = m
      <4>1. ~Acking(b) /\ (Acking(b)' <=> b[2] = n)
        BY <1>1, <1>4, <2>2, <3>2 DEF Acking
      <4>2. b[2] \notin answered'[m] \/ b[2] = n <=> b[2] \notin answered[m]
        BY <1>3, <1>6
      <4> QED
        BY <1>4, <3>2, <4>1, <4>2 DEF Owed
    <3> QED
      BY <3>1, <3>2
  <2>4. \A b \in Ref : \A t : Owed(b, t)' <=> Owed(b, t)
    BY <2>3, RefPair
  <2>5. ASSUME NEW s \in Slaves PROVE SlaveOwes(s)' /\ TurnsMatch(s)'
    BY <1>4, <2>4, KeptSlaveOwes, KeptTurns DEF Answering
  <2>6. BusOwes'
    BY <2>1, <2>4, KeptBusOwes DEF Answering
  <2>7. ASSUME NEW x \in Masters PROVE Draining(x)'
    <3>1. ASSUME NEW l PROVE Owed(<<x, l>>, bSrc[x])' <=> Owed(<<x, l>>, bSrc[x])
      <4>1. <<x, l>>[1] \in Masters /\ bSrc'[x] = bSrc[x]
        BY <1>4
      <4>2. \A t : Owed(<<x, l>>, t)' <=> Owed(<<x, l>>, t)
        BY <2>3, <4>1
      <4> QED
        BY <4>1, <4>2 DEF Owed, Acking
    <3>2. CASE x # m
      BY <1>4, <1>6, <2>2, <3>1, <3>2, KeptDraining, SMTT(30) DEF Answering
    <3>3. CASE x = m
      <4>1. /\ \A k \in 1 .. wDone[m] : Owed(<<m, k>>, bSrc[m]) => n <= k
            /\ n \in answered'[m]
        BY <1>1, <1>4, <1>6 DEF Answering, Draining
      <4>2. \A k \in 1 .. wDone[m] : Owed(<<m, k>>, bSrc[m])' => n <= k
        BY <3>1, <3>3, <4>1
      <4> QED
        BY <1>1, <1>3, <1>4, <2>2, <3>3, <4>1, <4>2 DEF Draining
    <3> QED
      BY <3>2, <3>3
  <2> QED
    BY <1>5, <2>5, <2>6, <2>7 DEF Answering
<1> QED
  BY <1>8, <1>9

LEMMA BAckAnswering ==
  ASSUME Routing, Answering, NEW m \in Masters, BAck(m)
  PROVE  Answering'
<1>1. PICK s : s = bSrc[m]
  OBVIOUS
<1>2. PICK n : n = bNum[m]
  OBVIOUS
<1>3. /\ bPc[m] = "ack" /\ s # Sink
      /\ bQ' = [bQ EXCEPT ![s] = Tail(@)]
      /\ writeOrder' = [writeOrder EXCEPT ![s] = Tail(@)]
      /\ bPc' = [bPc EXCEPT ![m] = "scan"]
      /\ UNCHANGED <<burst, wDone, answered, released, idOrder, bNum, bSrc, errB,
                     wOrder, commit>>
  BY <1>1 DEF BAck, masterVars, Routing, BRouted
<1>4. /\ s \in Slaves /\ bQ[s] # <<>> /\ bQ[s] \in Seq(Ref) /\ Head(bQ[s]) = <<m, n>>
      /\ \A x \in Masters : bPc[x] # "scan" /\ bSrc[x] = s => x = m
      /\ writeOrder[s] # <<>> /\ writeOrder[s] \in Seq(Masters)
  <2>1. s \in Slaves /\ bQ[s] # <<>> /\ bQ[s] \in Seq(Ref) /\ Head(bQ[s]) = <<m, n>>
        /\ \A x \in Masters : bPc[x] # "scan" /\ bSrc[x] = s => x = m
    BY <1>1, <1>2, <1>3, DrainedSource
  <2>2. writeOrder[s] # <<>> /\ writeOrder[s] \in Seq(Masters)
    BY <1>1, <1>3, <2>1 DEF Routing, BRouted, TypeOK
  <2> QED
    BY <2>1, <2>2
<1>5. /\ n \in 1 .. wDone[m] /\ burst[m][n].dst = s /\ n \in answered[m]
  BY <1>1, <1>2, <1>3 DEF Answering, Draining
<1>6. /\ bPc'[m] = "scan" /\ bQ'[s] = Tail(bQ[s]) /\ writeOrder'[s] = Tail(writeOrder[s])
      /\ \A x \in Masters : x # m => bPc'[x] = bPc[x]
      /\ \A t \in Slaves : t # s => bQ'[t] = bQ[t] /\ writeOrder'[t] = writeOrder[t]
  BY <1>3, <1>4 DEF Routing, TypeOK
<1>7. ASSUME NEW b \in Ref, NEW t PROVE Owed(b, t)' <=> Owed(b, t) /\ b # <<m, n>>
  <2>1. b[1] \in Masters /\ b = <<b[1], b[2]>>
    BY RefPair
  <2>2. CASE b[1] # m
    <3>1. b # <<m, n>>
      BY <2>2
    <3> QED
      BY <1>3, <1>6, <2>1, <2>2, <3>1 DEF Owed, Acking
  <2>3. CASE b[1] = m
    <3>1. b = <<m, n>> <=> b[2] = n
      BY <2>1, <2>3
    <3>2. (Acking(b) <=> b[2] = n) /\ ~Acking(b)'
      BY <1>2, <1>3, <1>6, <2>3 DEF Acking
    <3> QED
      BY <1>3, <1>5, <2>3, <3>1, <3>2 DEF Owed
  <2> QED
    BY <2>2, <2>3
<1>8. /\ Len(bQ[s]) \in Nat \ {0} /\ Len(Tail(bQ[s])) = Len(bQ[s]) - 1 /\ bQ[s][1] = <<m, n>>
      /\ \A k \in 1 .. Len(bQ[s]) - 1 : Tail(bQ[s])[k] = bQ[s][k + 1]
  BY <1>4, TailQueue
<1>9. SlaveOwes(s)'
  <2>1. SlaveOwes(s)
    BY <1>4 DEF Answering
  <2>2. MasterOrder(Tail(bQ[s])) /\ Distinct(bQ[s])
    BY <1>4, <2>1, OrderTail, OrderDistinct DEF SlaveOwes
  <2>3. \A x : Holds(Tail(bQ[s]), x) <=> Holds(bQ[s], x) /\ x # <<m, n>>
    <3>1. PICK q \in Seq(Ref) : q = bQ[s]
      BY <1>4
    <3>2. q # <<>> /\ Distinct(q) /\ Head(q) = <<m, n>>
      BY <1>4, <2>2, <3>1
    <3>3. \A x : Holds(Tail(q), x) <=> Holds(q, x) /\ x # Head(q)
      BY <3>2, TailQueue
    <3> QED
      BY <3>1, <3>2, <3>3
  <2>4. commit[s] # <<m, n>>
    <3> SUFFICES ASSUME commit[s] = <<m, n>> PROVE FALSE
      OBVIOUS
    <3>1. <<m, n>> \in Ref /\ n \in Nat
      <4>1. /\ wDone[m] \in Nat /\ awDone[m] \in Nat /\ Len(burst[m]) \in Nat
            /\ wDone[m] <= awDone[m] /\ awDone[m] <= Len(burst[m])
            /\ Len(burst[m]) <= MaxBursts /\ MaxBursts \in Nat
        BY StreamTyped, BusWriteAssumption
      <4>2. n \in 1 .. MaxBursts /\ n \in Nat
        BY <1>5, <4>1
      <4> QED
        BY <4>2 DEF Ref
    <3>2. commit[s] # None /\ commit[s][1] = m /\ commit[s][2] = n
      BY <3>1, RefNotNone
    <3>3. 1 \in 1 .. Len(bQ[s]) /\ bQ[s][1][1] = m /\ bQ[s][1][2] = n
      BY <1>8
    <3>4. n < n
      BY <2>1, <3>2, <3>3 DEF SlaveOwes
    <3> QED
      BY <3>1, <3>4
  <2>5. \A b \in Ref : Owed(b, s)' <=> Holds(bQ'[s], b) \/ commit'[s] = b
    BY <1>3, <1>6, <1>7, <2>1, <2>3, <2>4 DEF SlaveOwes
  <2>6. commit'[s] # None =>
          \A k \in 1 .. Len(bQ'[s]) : bQ'[s][k][1] = commit'[s][1] => bQ'[s][k][2] < commit'[s][2]
    <3>1. \A k \in 1 .. Len(bQ[s]) - 1 : k + 1 \in 1 .. Len(bQ[s])
      BY <1>8
    <3>2. commit[s] # None =>
            \A k \in 1 .. Len(bQ[s]) : bQ[s][k][1] = commit[s][1] => bQ[s][k][2] < commit[s][2]
      BY <2>1 DEF SlaveOwes
    <3>3. commit'[s] = commit[s]
      BY <1>3
    <3> QED
      BY <1>6, <1>8, <3>1, <3>2, <3>3
  <2>7. MasterOrder(bQ'[s])
    BY <1>6, <2>2
  <2> QED
    BY <2>5, <2>6, <2>7 DEF SlaveOwes, MasterOrder
<1>10. TurnsMatch(s)'
  <2>1. /\ Len(writeOrder[s]) \in Nat \ {0} /\ Len(Tail(writeOrder[s])) = Len(writeOrder[s]) - 1
        /\ \A k \in 1 .. Len(writeOrder[s]) - 1 : Tail(writeOrder[s])[k] = writeOrder[s][k + 1]
    BY <1>4, TailQueue
  <2>2. PICK a \in Nat, h \in Nat, w \in Nat, o \in Nat :
          a + 1 = Len(bQ[s]) /\ h = Held(s) /\ w = Len(wOrder[s]) /\ o + 1 = Len(writeOrder[s])
    <3>1. Held(s) \in Nat
      BY DEF Held
    <3>2. Len(wOrder[s]) \in Nat
      <4>1. wOrder[s] \in Seq(Masters)
        BY <1>4 DEF Routing, TypeOK
      <4> QED
        BY <4>1
    <3>3. Len(bQ[s]) - 1 \in Nat /\ Len(writeOrder[s]) - 1 \in Nat
          /\ (Len(bQ[s]) - 1) + 1 = Len(bQ[s]) /\ (Len(writeOrder[s]) - 1) + 1 = Len(writeOrder[s])
      BY <1>8, <2>1
    <3> QED
      BY <3>1, <3>2, <3>3
  <2>3. /\ o + 1 = (a + 1) + h + w
        /\ \A k \in 1 .. a + 1 : writeOrder[s][k] = bQ[s][k][1]
        /\ commit[s] # None => writeOrder[s][(a + 1) + 1] = commit[s][1]
        /\ \A k \in 1 .. w : writeOrder[s][(a + 1) + h + k] = wOrder[s][k]
    <3>1. TurnsMatch(s)
      BY <1>4 DEF Answering
    <3> QED
      BY <2>2, <3>1 DEF TurnsMatch
  <2>4. commit[s] # None => h = 1
    BY <2>2 DEF Held
  <2>5. /\ Len(bQ'[s]) = a /\ Len(writeOrder'[s]) = o /\ Held(s)' = h
        /\ Len(wOrder'[s]) = w /\ wOrder'[s] = wOrder[s] /\ commit'[s] = commit[s]
    <3>1. Len(bQ'[s]) = a /\ Len(writeOrder'[s]) = o
      BY <1>6, <1>8, <2>1, <2>2
    <3> QED
      BY <1>3, <2>2, <3>1 DEF Held
  <2>6. /\ \A k \in 1 .. a : bQ'[s][k] = bQ[s][k + 1]
        /\ \A k \in 1 .. o : writeOrder'[s][k] = writeOrder[s][k + 1]
    <3>1. Len(bQ[s]) - 1 = a /\ Len(writeOrder[s]) - 1 = o
      BY <2>2
    <3> QED
      BY <1>6, <1>8, <2>1, <3>1
  <2>7. o = a + h + w
    BY <2>3
  <2>8. ASSUME NEW k \in 1 .. a PROVE writeOrder'[s][k] = bQ'[s][k][1]
    <3>1. k \in 1 .. o /\ k + 1 \in 1 .. a + 1
      BY <2>7
    <3> QED
      BY <2>3, <2>6, <3>1
  <2>9. ASSUME commit[s] # None PROVE writeOrder'[s][a + 1] = commit[s][1]
    <3>1. a + 1 \in 1 .. o
      BY <2>4, <2>7, <2>9
    <3> QED
      BY <2>3, <2>6, <2>9, <3>1
  <2>10. ASSUME NEW k \in 1 .. w PROVE writeOrder'[s][a + h + k] = wOrder[s][k]
    <3>1. a + h + k \in 1 .. o /\ (a + h + k) + 1 = (a + 1) + h + k
      BY <2>7
    <3>2. writeOrder'[s][a + h + k] = writeOrder[s][(a + h + k) + 1]
      BY <2>6, <3>1
    <3> QED
      BY <2>3, <3>1, <3>2
  <2> QED
    BY <2>5, <2>7, <2>8, <2>9, <2>10 DEF TurnsMatch
<1>11. ASSUME NEW t \in Slaves, t # s PROVE SlaveOwes(t)' /\ TurnsMatch(t)'
  <2>1. ~Owed(<<m, n>>, t)
    BY <1>5, <1>11 DEF Owed
  <2>2. \A b \in Ref : Owed(b, t)' <=> Owed(b, t)
    BY <1>7, <2>1
  <2> QED
    BY <1>3, <1>6, <1>11, <2>2, KeptSlaveOwes, KeptTurns DEF Answering
<1>12. BusOwes'
  <2>1. ~Owed(<<m, n>>, Sink)
    BY <1>3, <1>5 DEF Owed
  <2>2. \A b \in Ref : Owed(b, Sink)' <=> Owed(b, Sink)
    BY <1>7, <2>1
  <2> QED
    BY <1>3, <2>2, KeptBusOwes DEF Answering
<1>13. ASSUME NEW x \in Masters PROVE Tickets(x)' /\ Draining(x)'
  <2>1. Tickets(x)'
    BY <1>3, KeptTickets DEF Answering
  <2>2. CASE x = m
    BY <1>6, <2>1, <2>2 DEF Draining
  <2>3. CASE x # m
    <3>1. ASSUME NEW l PROVE Owed(<<x, l>>, bSrc[x])' <=> Owed(<<x, l>>, bSrc[x])
      BY <1>3, <1>6, <2>3 DEF Owed, Acking
    <3>2. bPc[x] # "scan" /\ bSrc[x] # Sink => bQ'[bSrc[x]] = bQ[bSrc[x]]
      BY <1>4, <1>6, <2>3, DrainedSource
    <3> QED
      BY <1>3, <1>6, <2>1, <2>3, <3>1, <3>2, KeptDraining DEF Answering
  <2> QED
    BY <2>2, <2>3
<1>14. ASSUME NEW x \in Masters, NEW i \in Ids PROVE QueueOf(x, i)'
  BY <1>3, KeptQueueOf DEF Answering
<1> QED
  BY <1>9, <1>10, <1>11, <1>12, <1>13, <1>14 DEF Answering

----------------------------------------------------------------------------
(* Responses, as long as no pulse is lost *)

LEMMA InitAnswering == Init => Answering
<1> SUFFICES ASSUME Init PROVE Answering
  OBVIOUS
<1>1. \A b \in Ref : \A s : ~Owed(b, s)
  BY RefPair DEF Owed, Init
<1>2. Len(<<>>) = 0 /\ MasterOrder(<<>>) /\ \A x : ~Holds(<<>>, x)
  BY EmptyQueue DEF MasterOrder
<1>3. ASSUME NEW s \in Slaves PROVE SlaveOwes(s) /\ TurnsMatch(s)
  <2>1. /\ bQ[s] = <<>> /\ commit[s] = None /\ writeOrder[s] = <<>> /\ wOrder[s] = <<>>
    BY DEF Init
  <2>2. SlaveOwes(s)
    BY <1>1, <1>2, <2>1, RefNotNone DEF SlaveOwes
  <2>3. TurnsMatch(s)
    BY <1>2, <2>1 DEF TurnsMatch, Held
  <2> QED
    BY <2>2, <2>3
<1>4. BusOwes
  BY <1>1, <1>2 DEF BusOwes, Init
<1>5. ASSUME NEW m \in Masters PROVE Tickets(m) /\ Draining(m)
  BY <1>2, BusWriteAssumption DEF Init, Tickets, Draining
<1>6. ASSUME NEW m \in Masters, NEW i \in Ids PROVE QueueOf(m, i)
  BY <1>2 DEF Init, QueueOf
<1> QED
  BY <1>3, <1>4, <1>5, <1>6 DEF Answering

LEMMA AnsweringNext ==
  ASSUME Dedicated, Routing, InStep, InStep', Paired, Answering, [Next]_vars
  PROVE  Answering'
<1>1. ASSUME NEW m \in Masters, MasterStep(m) PROVE Answering'
  BY <1>1, DecerrAnswering, ForwardAnswering, SinkAnswering, BPickAnswering,
     BDeliverAnswering, BAckAnswering, ReleaseAnswering DEF MasterStep
<1>2. ASSUME NEW s \in Slaves, SlaveStep(s) PROVE Answering'
  BY <1>2, SlaveAwAnswering, CommitAnswering, BValidAnswering DEF SlaveStep
<1>3. CASE UNCHANGED vars
  BY <1>3, KeptAnswering DEF vars, masterVars, busVars, slaveVars
<1>4. ASSUME NEW m \in Masters, NEW b \in Shapes, IssueWrite(m, b) PROVE Answering'
  BY <1>4, IssueAnswering
<1>5. ASSUME NEW m \in Masters, NEW s \in Slaves, WTransfer(m, s) PROVE Answering'
  BY <1>5, TransferAnswering
<1> QED
  BY <1>1, <1>2, <1>3, <1>4, <1>5 DEF Next, Progress

\* If the bursts of an id all go to one slave, then until a pulse is lost or a stream gets out
\* of step write_order_, b_q_, err_writes_pending_b_ and id_write_order_ name the bursts owed a
\* response, in order.
THEOREM ResponsesFollow ==
  ASSUME Dedicated
  PROVE  Spec => [](lost = {} /\ InStep => Answering)
<1>1. Init => (lost = {} /\ InStep => Answering)
  BY InitAnswering
<1>2. /\ Routing /\ Pairing /\ (lost = {} /\ InStep => Answering) /\ [Next]_vars
      => (lost = {} /\ InStep => Answering)'
  <2> SUFFICES ASSUME Routing, Pairing, lost = {} /\ InStep => Answering, [Next]_vars,
                      lost' = {}, InStep'
               PROVE  Answering'
    OBVIOUS
  <2>1. lost = {} /\ InStep
    BY LostForGood, OutOfStepForGood
  <2> QED
    BY <2>1, AnsweringNext DEF Pairing
<1> QED
  BY <1>1, <1>2, RoutingAlways, PairingAlways, PTL DEF Spec

----------------------------------------------------------------------------
(* A slave that takes a write for every ticket never misses a pulse *)

\* The slave's aw_q_ and the WriteOp in w_thread together hold all writes that can be under way.
Roomy == NumM * Pool <= AwCap + 1

\* Each unanswered burst holds a ticket of its master: it is one of the Pool issued last.
Place(b) == <<b[1], b[2] - released[b[1]]>>

LEMMA UnansweredHasTicket ==
  ASSUME Routing, Answering, NEW b \in Ref, b[2] <= Len(burst[b[1]]), b[2] \notin answered[b[1]]
  PROVE  Place(b) \in Masters \X (1 .. Pool)
<1>1. b[1] \in Masters /\ b[2] \in Nat \ {0}
  BY RefPair, BusWriteAssumption DEF Ref
<1>2. /\ released[b[1]] \in Nat /\ Len(burst[b[1]]) \in Nat /\ Pool \in Nat
      /\ \A n \in 1 .. released[b[1]] : n \in answered[b[1]]
      /\ Len(burst[b[1]]) - released[b[1]] <= Pool
  <2>1. released[b[1]] \in Nat
    BY <1>1, BusWriteAssumption DEF Routing, TypeOK
  <2>2. Tickets(b[1])
    BY <1>1 DEF Answering
  <2> QED
    BY <1>1, <2>1, <2>2, StreamTyped, BusWriteAssumption DEF Tickets
<1>3. ~(b[2] <= released[b[1]])
  BY <1>1, <1>2
<1>4. b[2] - released[b[1]] \in 1 .. Pool
  BY <1>1, <1>2, <1>3
<1> QED
  BY <1>1, <1>4 DEF Place

LEMMA PlacesApart ==
  ASSUME Routing, NEW b \in Ref, NEW c \in Ref, Place(b) = Place(c)
  PROVE  b = c
<1>1. b[1] = c[1] /\ b[2] - released[b[1]] = c[2] - released[b[1]]
  BY DEF Place
<1>2. b[2] \in Nat /\ c[2] \in Nat /\ b = <<b[1], b[2]>> /\ c = <<c[1], c[2]>> /\ b[1] \in Masters
  BY RefPair
<1>3. released[b[1]] \in Nat
  BY <1>2, BusWriteAssumption DEF Routing, TypeOK
<1>4. b[2] = c[2]
  BY <1>1, <1>2, <1>3
<1> QED
  BY <1>1, <1>2, <1>4

\* A burst being committed is not answered yet.
LEMMA CommitUnanswered ==
  ASSUME Routing, Answering, NEW s \in Slaves, NEW c \in Ref, c = commit[s]
  PROVE  /\ c[2] \notin answered[c[1]] /\ c[2] \in 1 .. wDone[c[1]]
         /\ c[2] <= Len(burst[c[1]])
<1>1. SlaveOwes(s) /\ c # None
  BY RefNotNone DEF Answering
<1>2. Owed(c, s)
  BY <1>1 DEF SlaveOwes
<1>3. ~Acking(c)
  <2> SUFFICES ASSUME Acking(c) PROVE FALSE
    OBVIOUS
  <2>1. PICK m \in Masters, n \in Nat : m = c[1] /\ n = c[2] /\ bPc[m] = "ack" /\ bNum[m] = n
    BY RefPair DEF Acking
  <2>2. bSrc[m] # Sink /\ bSrc[m] = s
    BY <1>2, <2>1 DEF Answering, Draining, Routing, BRouted, Owed
  <2>3. bQ[s] # <<>> /\ bQ[s] \in Seq(Ref) /\ Head(bQ[s]) = <<m, n>>
    BY <2>1, <2>2, DrainedSource
  <2>4. 1 \in 1 .. Len(bQ[s]) /\ bQ[s][1] = <<m, n>>
    <3>1. Len(bQ[s]) \in Nat \ {0} /\ Head(bQ[s]) = bQ[s][1]
      BY <2>3, TailQueue
    <3> QED
      BY <2>3, <3>1
  <2>5. bQ[s][1][1] = m /\ bQ[s][1][2] = n
    BY <2>4
  <2>6. n < n
    BY <1>1, <2>1, <2>4, <2>5 DEF SlaveOwes
  <2> QED
    BY <2>1, <2>6
<1>4. c[2] <= Len(burst[c[1]])
  <2>1. c[2] \in 1 .. Len(burst[c[1]])
    BY <1>2, OwedTyped
  <2>2. c[1] \in Masters /\ Len(burst[c[1]]) \in Nat
    BY RefPair, StreamTyped
  <2> QED
    BY <2>1, <2>2
<1> QED
  BY <1>2, <1>3, <1>4 DEF Owed

LEMMA AlwaysRoom ==
  ASSUME Routing, Paired, Answering, Roomy, NEW s \in Slaves, awWire[s] # None
  PROVE  AwQueued(s) < AwCap
<1>1. PICK l \in Nat : l = Len(awQ[s]) /\ PendingLen(s) = l + 1
  BY PendingTyped DEF PendingLen
<1>2. PICK lo \in {0, 1} : lo = 0 <=> commit[s] # None
  BY (0 \in {0, 1}) /\ (1 \in {0, 1})
<1>3. ASSUME NEW k \in lo .. l + 1
      PROVE  k \in Int /\ ((k = 0 /\ lo = 0) \/ (k # 0 /\ k \in 1 .. PendingLen(s)))
  <2>1. k \in Int /\ lo <= k /\ k <= l + 1 /\ (lo = 0 \/ lo = 1)
    OBVIOUS
  <2>2. k = 0 => lo = 0
    BY <2>1
  <2>3. k # 0 => k \in 1 .. l + 1
    BY <2>1
  <2> QED
    BY <1>1, <2>1, <2>2, <2>3
<1> DEFINE e(k) == IF k = 0 THEN commit[s] ELSE Pending(s, k)
           f == [k \in lo .. l + 1 |-> Place(e(k))]
           U == Masters \X (1 .. Pool)
<1>4. ASSUME NEW k \in 1 .. PendingLen(s)
      PROVE  /\ Pending(s, k) \in Ref
             /\ Pending(s, k)[2] > wDone[Pending(s, k)[1]]
             /\ Pending(s, k)[2] <= Len(burst[Pending(s, k)[1]])
             /\ Pending(s, k)[2] \notin answered[Pending(s, k)[1]]
  <2>1. PICK b \in Ref : b = Pending(s, k)
    BY <1>4, PendingTyped
  <2>2. InFlight(b, s) /\ b[1] \in Masters /\ b[2] \in Nat
    BY <1>4, <2>1, RefPair DEF Paired, ListsPending
  <2>3. /\ wDone[b[1]] \in Nat /\ awDone[b[1]] \in Nat /\ Len(burst[b[1]]) \in Nat
        /\ awDone[b[1]] <= Len(burst[b[1]])
    BY <2>2, StreamTyped
  <2>4. b[2] \in wDone[b[1]] + 1 .. awDone[b[1]]
    BY <2>2 DEF InFlight
  <2>5. answered[b[1]] \subseteq 1 .. wDone[b[1]]
    BY <2>2 DEF Answering, Tickets
  <2>6. b[2] > wDone[b[1]] /\ b[2] <= Len(burst[b[1]]) /\ b[2] \notin 1 .. wDone[b[1]]
    BY <2>2, <2>3, <2>4
  <2> QED
    BY <2>1, <2>5, <2>6
<1>5. ASSUME lo = 0
      PROVE  /\ commit[s] \in Ref
             /\ commit[s][2] <= wDone[commit[s][1]]
             /\ commit[s][2] <= Len(burst[commit[s][1]])
             /\ commit[s][2] \notin answered[commit[s][1]]
  <2>1. PICK c \in Ref : c = commit[s]
    BY <1>2, <1>5 DEF Routing, TypeOK
  <2>2. /\ c[2] \notin answered[c[1]] /\ c[2] \in 1 .. wDone[c[1]] /\ c[2] <= Len(burst[c[1]])
    BY <2>1, CommitUnanswered
  <2>3. wDone[c[1]] \in Nat
    BY <2>1, RefPair, StreamTyped
  <2>4. c[2] <= wDone[c[1]]
    BY <2>2, <2>3
  <2> QED
    BY <2>1, <2>2, <2>4
<1>6. ASSUME NEW k \in lo .. l + 1
      PROVE  e(k) \in Ref /\ Place(e(k)) \in U
  <2>1. CASE k = 0
    BY <1>3, <1>5, <2>1, UnansweredHasTicket
  <2>2. CASE k # 0
    BY <1>3, <1>4, <2>2, UnansweredHasTicket
  <2> QED
    BY <2>1, <2>2
<1>7. ASSUME NEW j \in lo .. l + 1, NEW k \in lo .. l + 1, j < k PROVE e(j) # e(k)
  <2>1. CASE j = 0
    <3>1. k # 0 /\ k \in 1 .. PendingLen(s)
      BY <1>3, <1>7, <2>1
    <3>2. e(j) = commit[s] /\ e(k) = Pending(s, k)
      BY <2>1, <3>1
    <3>3. PICK b \in Ref : b = Pending(s, k) /\ b[2] > wDone[b[1]]
      BY <1>4, <3>1
    <3>4. PICK c \in Ref : c = commit[s] /\ c[2] <= wDone[c[1]]
      BY <1>3, <1>5, <2>1
    <3>5. b # c
      <4>1. b[2] \in Nat /\ wDone[b[1]] \in Nat
        BY RefPair, StreamTyped
      <4> QED
        BY <3>3, <3>4, <4>1
    <3> QED
      BY <3>2, <3>3, <3>4, <3>5
  <2>2. CASE j # 0
    <3>1. j \in 1 .. PendingLen(s) /\ k \in 1 .. PendingLen(s) /\ k # 0
      <4>1. lo = 0 \/ lo = 1
        OBVIOUS
      <4> QED
        BY <1>3, <1>7, <2>2, <4>1
    <3>2. e(j) = Pending(s, j) /\ e(k) = Pending(s, k)
      BY <2>2, <3>1
    <3>3. Pending(s, j)[1] = Pending(s, k)[1] => Pending(s, j)[2] < Pending(s, k)[2]
      BY <1>7, <3>1 DEF Paired, ListsPending
    <3>4. Pending(s, k) \in Ref /\ Pending(s, k)[2] \in Nat
      BY <1>4, <3>1, RefPair
    <3>5. Pending(s, j) # Pending(s, k)
      BY <3>3, <3>4
    <3> QED
      BY <3>2, <3>5
  <2> QED
    BY <2>1, <2>2
<1> HIDE DEF e, U
<1>8. f \in [lo .. l + 1 -> U] /\ \A j, k \in lo .. l + 1 : f[j] = f[k] => j = k
  <2>1. f \in [lo .. l + 1 -> U]
    BY <1>6
  <2>2. ASSUME NEW j \in lo .. l + 1, NEW k \in lo .. l + 1, f[j] = f[k] PROVE j = k
    <3>1. e(j) = e(k)
      <4>1. Place(e(j)) = Place(e(k))
        BY <2>2
      <4> QED
        BY <1>6, <4>1, PlacesApart
    <3>2. ~(j < k) /\ ~(k < j)
      BY <1>7, <3>1
    <3> QED
      BY <1>3, <3>2
  <2> QED
    BY <2>1, <2>2
<1>9. f \in Injection(lo .. l + 1, U)
  BY <1>8, Fun_IsInj, Zenon
<1>10. IsFiniteSet(U) /\ Cardinality(U) = NumM * Pool
  BY PlacesCount, BusWriteAssumption DEF U, Masters
<1>11. IsFiniteSet(lo .. l + 1) /\ Cardinality(lo .. l + 1) = l + 2 - lo
  <2>1. lo \in Int /\ l + 1 \in Int /\ ~(lo > l + 1)
    OBVIOUS
  <2>2. /\ IsFiniteSet(lo .. l + 1)
        /\ Cardinality(lo .. l + 1) = IF lo > l + 1 THEN 0 ELSE (l + 1) - lo + 1
    BY <2>1, FS_Interval
  <2> QED
    BY <2>1, <2>2
<1>12. l + 2 - lo <= NumM * Pool
  <2> HIDE DEF f
  <2>1. Cardinality(lo .. l + 1) <= Cardinality(U)
    BY <1>9, <1>10, <1>11, FS_Injection
  <2> QED
    BY <1>10, <1>11, <2>1
<1>13. l + 2 - lo <= AwCap + 1 /\ AwCap \in Nat \ {0}
  <2> DEFINE c == NumM * Pool
  <2>1. c \in Int /\ c <= AwCap + 1 /\ AwCap \in Nat \ {0} /\ l + 2 - lo <= c
    BY <1>12, BusWriteAssumption DEF Roomy
  <2> HIDE DEF c
  <2> QED
    BY <2>1
<1>14. CASE commit[s] # None
  <2>1. lo = 0 /\ AwQueued(s) = l
    BY <1>1, <1>2, <1>14 DEF AwQueued
  <2> QED
    BY <1>13, <2>1
<1>15. CASE commit[s] = None
  <2>1. lo = 1
    BY <1>2, <1>15
  <2>2. CASE awQ[s] = <<>>
    <3>1. AwQueued(s) = 0
      BY <2>2 DEF AwQueued
    <3> QED
      BY <1>13, <3>1
  <2>3. CASE awQ[s] # <<>>
    <3>1. AwQueued(s) = l - 1
      BY <1>1, <1>15, <2>3 DEF AwQueued
    <3> QED
      BY <1>13, <2>1, <3>1
  <2> QED
    BY <2>2, <2>3
<1> QED
  BY <1>14, <1>15

\* As long as the streams are in step no AW pulse is lost, although aw_thread never looks at
\* AWREADY, provided that the slave has room for every ticket of every master and that an id
\* stays with one slave.
THEOREM NoAwIsLost ==
  ASSUME Roomy, Dedicated
  PROVE  Spec => [](InStep => NoAwLost)
<1>1. Init => (InStep => NoAwLost)
  BY DEF Init, NoAwLost
<1>2. /\ Routing /\ Pairing /\ (lost = {} /\ InStep => Answering) /\ (InStep => NoAwLost)
      /\ [Next]_vars
      => (InStep => NoAwLost)'
  <2> SUFFICES ASSUME Routing, Paired, Answering, lost = {}, [Next]_vars PROVE lost' = {}
    BY OutOfStepForGood DEF NoAwLost, Pairing
  <2>1. ASSUME NEW s \in Slaves, SlaveAw(s) PROVE lost' = {}
    BY <2>1, AlwaysRoom DEF SlaveAw
  <2>2. ASSUME NEW s \in Slaves, SlaveStep(s) PROVE lost' = {}
    BY <2>1, <2>2, SMTT(30) DEF SlaveStep, SlaveCommit, SlaveBValid
  <2>3. ASSUME NEW m \in Masters, MasterStep(m) PROVE lost' = {}
    BY <2>3 DEF MasterStep, AwDecerr, AwForward, WSink, BPick, BDeliver, BAck, ReleaseWrite,
                slaveVars
  <2>4. ASSUME NEW m \in Masters, NEW b \in Shapes, IssueWrite(m, b) PROVE lost' = {}
    BY <2>4 DEF IssueWrite, slaveVars
  <2>5. ASSUME NEW m \in Masters, NEW s \in Slaves, WTransfer(m, s) PROVE lost' = {}
    BY <2>5 DEF WTransfer
  <2>6. CASE UNCHANGED vars
    BY <2>6 DEF vars, slaveVars
  <2> QED
    BY <2>2, <2>3, <2>4, <2>5, <2>6 DEF Next, Progress
<1>3. Spec => [](lost = {} /\ InStep => Answering)
  BY ResponsesFollow
<1> QED
  BY <1>1, <1>2, <1>3, RoutingAlways, PairingAlways, PTL DEF Spec

\* Under the same conditions, and as long as the streams are in step, every response is
\* credited to the burst it answers, although Master::b_thread goes by the id alone.
THEOREM ResponsesMatch ==
  ASSUME Roomy, Dedicated
  PROVE  Spec => [](InStep => ResponseMatchesBurst)
<1>1. Routing /\ Answering => ResponseMatchesBurst
  BY DrainMatches DEF ResponseMatchesBurst
<1>2. /\ Routing /\ (lost = {} /\ InStep => Answering) /\ (InStep => NoAwLost)
      => (InStep => ResponseMatchesBurst)
  BY <1>1 DEF NoAwLost
<1>3. Spec => [](lost = {} /\ InStep => Answering)
  BY ResponsesFollow
<1>4. Spec => [](InStep => NoAwLost)
  BY NoAwIsLost
<1> QED
  BY <1>2, <1>3, <1>4, RoutingAlways, PTL
================================================================================
