--------------------------- MODULE AxiBusReadProofs ---------------------------
(***************************************************************************)
(* Proofs about AxiBusRead for any number of masters, slaves, ids, reads   *)
(* and tickets.                                                            *)
(*                                                                         *)
(* Wiring is what the bus keeps in every configuration: the types, that    *)
(* everything queued, driven or refused was asked for, and that a slave    *)
(* is told to advance exactly when its beat is shown to the master.  It    *)
(* gives BeatsCrossOnce.  Delivery says where each mapped read is between  *)
(* its AR handshake and its last beat, and how much of it its slot holds;  *)
(* it needs slaves that take every read there can be (Roomy) and an id     *)
(* that stays with one destination (Dedicated), and gives NoArLost.        *)
(* Refused says the same of the reads the bus answers itself, for bursts   *)
(* of two beats and more (Bursts), and gives SlotsHoldTheirOwnBeats.       *)
(***************************************************************************)
EXTENDS AxiBusRead, QueueLemmas, TLAPS

----------------------------------------------------------------------------
(* The inductive invariant *)

Read(m, n) == n \in 1 .. Len(reads[m])

\* Read n of master m has had its AR handshake and goes to s.
Mapped(m, n, s) == Read(m, n) /\ n <= arDone[m] /\ reads[m][n].dst = s

Issued ==
  \A m \in Masters : Len(reads[m]) <= MaxReads /\ arDone[m] <= Len(reads[m])

\* What is queued at a slave, driven at it or refused was asked for and taken.
QueuedWasAsked ==
  \A s \in Slaves : \A i \in 1 .. Len(rdQ[s]) : Mapped(rdQ[s][i][1], rdQ[s][i][2], s)
DrivenWasAsked ==
  \A s \in Slaves : arWire[s] # None => Mapped(arWire[s][1], arWire[s][2], s)
RefusedWasAsked ==
  \A m \in Masters : \A k \in 1 .. Len(errReads[m]) :
    /\ Mapped(m, errReads[m][k].n, Sink)
    /\ errReads[m][k].left <= reads[m][errReads[m][k].n].beats

Asked == Issued /\ QueuedWasAsked /\ DrivenWasAsked /\ RefusedWasAsked

\* The bus has booked what a slave holds, and a slave shows a beat of its oldest read.
Driven(s) == IF arWire[s] = None THEN 0 ELSE 1
Booked == \A s \in Slaves : Len(rdQ[s]) + Driven(s) <= Len(readOrder[s])

ShowsOldest(s) ==
  /\ rdQ[s] # <<>>
  /\ sOut[s].k <= reads[Head(rdQ[s])[1]][Head(rdQ[s])[2]].beats
  /\ sOut[s] = Beat(Head(rdQ[s])[1], Head(rdQ[s])[2], sOut[s].k)
Serving == \A s \in Slaves : sOut[s] # None => ShowsOldest(s)

\* Unless r_forward is due to run, a slave sees RREADY exactly when the master its
\* next response is for is shown its beat, and a master is shown nothing else but
\* the beat of its oldest refused read.
ReadyMeansShown(s) ==
  sReady[s] <=> sOut[s] # None /\ readOrder[s] # <<>> /\ mOut[Head(readOrder[s])] = sOut[s]
FromSlave(m, s) == sReady[s] /\ Head(readOrder[s]) = m /\ mOut[m] = sOut[s]
FromErr(m)      == errReads[m] # <<>> /\ mOut[m] = ErrBeat(m)
Wired ==
  /\ \A s \in Slaves : ReadyMeansShown(s)
  /\ \A m \in Masters : mOut[m] # None => (\E s \in Slaves : FromSlave(m, s)) \/ FromErr(m)
Shown == (~settling => ~trigger) /\ (~trigger => Wired)

Wiring == TypeOK /\ Asked /\ Booked /\ Serving /\ Shown

----------------------------------------------------------------------------
(* Facts about the model's operators *)

LEMMA Members == /\ Masters \subseteq Int /\ Slaves \subseteq Nat
                 /\ Sink \notin Slaves /\ NumS \in Nat
BY BusReadAssumption DEF Masters, Slaves, Sink

LEMMA ShapeFields ==
  ASSUME NEW r \in Shapes
  PROVE  r.dst \in 0 .. NumS /\ r.id \in Ids /\ r.beats \in Nat \ {0}
BY BusReadAssumption

LEMMA BeatTyped ==
  ASSUME NEW m \in Masters, NEW n \in 1 .. MaxReads, NEW k \in Nat \ {0}
  PROVE  /\ Beat(m, n, k) \in Beats
         /\ Beat(m, n, k).m = m /\ Beat(m, n, k).n = n /\ Beat(m, n, k).k = k
BY DEF Beat, Beats

\* A beat is not the empty wire.
LEMMA BeatNotNone == ASSUME NEW b \in Beats PROVE b # None
<1>1. "m" \in DOMAIN b
  BY DEF Beats
<1>2. DOMAIN <<>> = {}
  OBVIOUS
<1> QED
  BY <1>1, <1>2 DEF None

LEMMA RefNotNone ==
  ASSUME NEW r \in Ref
  PROVE  r # None /\ r[1] \in Masters /\ r[2] \in 1 .. MaxReads /\ r = <<r[1], r[2]>>
<1>1. PICK m \in Masters, n \in 1 .. MaxReads : r = <<m, n>>
  BY DEF Ref
<1>2. Len(r) = 2 /\ Len(<<>>) = 0 /\ r[1] = m /\ r[2] = n
  BY <1>1
<1> QED
  BY <1>1, <1>2 DEF None

LEMMA HeadOf ==
  ASSUME NEW S, NEW q \in Seq(S), q # <<>>
  PROVE  Len(q) \in Nat \ {0} /\ 1 \in 1 .. Len(q) /\ Head(q) = q[1] /\ Head(q) \in S
OBVIOUS

LEMMA AppendHead ==
  ASSUME NEW S, NEW q \in Seq(S), q # <<>>, NEW x \in S
  PROVE  Append(q, x) # <<>> /\ Head(Append(q, x)) = Head(q)
OBVIOUS

\* The first slave whose response is for m is one of them.
LEMMA FirstIsOne ==
  ASSUME NEW m, SourcesOf(m) # {}
  PROVE  First(SourcesOf(m)) \in SourcesOf(m)
<1>1. SourcesOf(m) \subseteq Nat
  BY Members DEF SourcesOf
<1>2. \E x \in SourcesOf(m) : \A y \in SourcesOf(m) : x <= y
  BY <1>1, LeastNatural
<1> QED
  BY <1>2 DEF First

LEMMA ReadTyped ==
  ASSUME TypeOK, Issued, NEW m \in Masters, NEW n, Read(m, n)
  PROVE  /\ reads[m][n] \in Shapes /\ n \in 1 .. MaxReads /\ n \in Nat
         /\ reads[m][n].dst \in 0 .. NumS /\ reads[m][n].id \in Ids
         /\ reads[m][n].beats \in Nat \ {0}
<1>1. reads[m] \in Seq(Shapes) /\ Len(reads[m]) \in Nat /\ Len(reads[m]) <= MaxReads
      /\ MaxReads \in Nat
  BY BusReadAssumption DEF TypeOK, Issued
<1>2. reads[m][n] \in Shapes /\ n \in 1 .. MaxReads
  BY <1>1 DEF Read
<1> QED
  BY <1>2, ShapeFields

\* The entries of the queues and wires, typed.
LEMMA QueuedTyped ==
  ASSUME TypeOK, NEW s \in Slaves, NEW i \in 1 .. Len(rdQ[s])
  PROVE  /\ rdQ[s][i] \in Ref /\ rdQ[s][i][1] \in Masters /\ rdQ[s][i][2] \in 1 .. MaxReads
<1>1. rdQ[s] \in Seq(Ref)
  BY DEF TypeOK
<1>2. rdQ[s][i] \in Ref
  BY <1>1
<1> QED
  BY <1>2, RefNotNone

LEMMA OldestAsked ==
  ASSUME TypeOK, Asked, NEW s \in Slaves, rdQ[s] # <<>>
  PROVE  /\ Head(rdQ[s]) \in Ref /\ Head(rdQ[s])[1] \in Masters
         /\ Head(rdQ[s])[2] \in 1 .. MaxReads
         /\ Mapped(Head(rdQ[s])[1], Head(rdQ[s])[2], s)
<1>1. rdQ[s] \in Seq(Ref)
  BY DEF TypeOK
<1>2. 1 \in 1 .. Len(rdQ[s]) /\ Head(rdQ[s]) = rdQ[s][1]
  BY <1>1, HeadOf
<1>3. Mapped(rdQ[s][1][1], rdQ[s][1][2], s)
  BY <1>2 DEF Asked, QueuedWasAsked
<1>4. rdQ[s][1] \in Ref /\ rdQ[s][1][1] \in Masters /\ rdQ[s][1][2] \in 1 .. MaxReads
  BY <1>2, QueuedTyped
<1> QED
  BY <1>2, <1>3, <1>4

LEMMA RefusedAsked ==
  ASSUME TypeOK, Asked, NEW m \in Masters, NEW k \in 1 .. Len(errReads[m])
  PROVE  /\ errReads[m][k] \in [n : 1 .. MaxReads, left : Nat \ {0}]
         /\ errReads[m][k].n \in 1 .. MaxReads /\ errReads[m][k].left \in Nat \ {0}
         /\ Mapped(m, errReads[m][k].n, Sink)
         /\ errReads[m][k].left <= reads[m][errReads[m][k].n].beats
         /\ reads[m][errReads[m][k].n].beats \in Nat \ {0}
<1>1. errReads[m] \in Seq([n : 1 .. MaxReads, left : Nat \ {0}])
  BY DEF TypeOK
<1>2. errReads[m][k] \in [n : 1 .. MaxReads, left : Nat \ {0}]
  BY <1>1, ElementOfSeq
<1>3. errReads[m][k].n \in 1 .. MaxReads /\ errReads[m][k].left \in Nat \ {0}
  BY <1>2
<1>4. /\ Mapped(m, errReads[m][k].n, Sink)
      /\ errReads[m][k].left <= reads[m][errReads[m][k].n].beats
  BY DEF Asked, RefusedWasAsked
<1>5. reads[m][errReads[m][k].n].beats \in Nat \ {0}
  BY <1>4, ReadTyped, SMTT(30) DEF Asked, Mapped
<1> QED
  BY <1>2, <1>3, <1>4, <1>5

\* The beat synthesized for a refused read is one of its beats.
LEMMA ErrBeatTyped ==
  ASSUME TypeOK, Asked, NEW m \in Masters, errReads[m] # <<>>
  PROVE  /\ Mapped(m, Head(errReads[m]).n, Sink) /\ Head(errReads[m]).n \in 1 .. MaxReads
         /\ ErrBeat(m) \in Beats /\ ErrBeat(m).m = m /\ ErrBeat(m).n = Head(errReads[m]).n
<1> DEFINE e == Head(errReads[m])
           k == reads[m][e.n].beats - e.left + 1
<1>1. errReads[m] \in Seq([n : 1 .. MaxReads, left : Nat \ {0}])
  BY DEF TypeOK
<1>2. 1 \in 1 .. Len(errReads[m]) /\ e = errReads[m][1]
  BY <1>1, HeadOf
<1>3. /\ e.n \in 1 .. MaxReads /\ e.left \in Nat \ {0} /\ Mapped(m, e.n, Sink)
      /\ e.left <= reads[m][e.n].beats /\ reads[m][e.n].beats \in Nat \ {0}
  BY <1>2, RefusedAsked
<1>4. k \in Nat \ {0}
  BY <1>3
<1>5. ErrBeat(m) = Beat(m, e.n, k)
  BY DEF ErrBeat
<1>6. Beat(m, e.n, k) \in Beats /\ Beat(m, e.n, k).m = m /\ Beat(m, e.n, k).n = e.n
  BY <1>3, <1>4, BeatTyped
<1> QED
  BY <1>3, <1>5, <1>6

\* The beat a slave shows is one of a read mapped to that slave.
LEMMA ServedBeat ==
  ASSUME TypeOK, Asked, Serving, NEW s \in Slaves, sOut[s] # None
  PROVE  /\ sOut[s] \in Beats /\ sOut[s].m \in Masters /\ sOut[s].n \in 1 .. MaxReads
         /\ sOut[s].k \in Nat \ {0}
         /\ rdQ[s] # <<>> /\ Head(rdQ[s]) \in Ref
         /\ sOut[s].m = Head(rdQ[s])[1] /\ sOut[s].n = Head(rdQ[s])[2]
         /\ Mapped(sOut[s].m, sOut[s].n, s)
         /\ sOut[s] = Beat(sOut[s].m, sOut[s].n, sOut[s].k)
         /\ sOut[s].k <= reads[sOut[s].m][sOut[s].n].beats
<1>1. sOut[s] \in Beats
  BY DEF TypeOK
<1>2. sOut[s].m \in Masters /\ sOut[s].n \in 1 .. MaxReads /\ sOut[s].k \in Nat \ {0}
  BY <1>1 DEF Beats
<1>3. ShowsOldest(s)
  BY DEF Serving
<1>4. /\ Head(rdQ[s])[1] \in Masters /\ Head(rdQ[s])[2] \in 1 .. MaxReads
      /\ Mapped(Head(rdQ[s])[1], Head(rdQ[s])[2], s) /\ Head(rdQ[s]) \in Ref
  BY <1>3, OldestAsked DEF ShowsOldest
<1>5. sOut[s] = Beat(Head(rdQ[s])[1], Head(rdQ[s])[2], sOut[s].k)
  BY <1>3 DEF ShowsOldest
<1>6. sOut[s].m = Head(rdQ[s])[1] /\ sOut[s].n = Head(rdQ[s])[2]
  BY <1>2, <1>4, <1>5, BeatTyped
<1> QED
  BY <1>1, <1>2, <1>3, <1>4, <1>5, <1>6 DEF ShowsOldest

\* The beat a master is shown while r_forward is not due is one of its own reads'.
LEMMA ShownBeat ==
  ASSUME TypeOK, Asked, Serving, Wired, NEW m \in Masters, mOut[m] # None
  PROVE  /\ mOut[m] \in Beats /\ mOut[m].m \in Masters
         /\ Read(mOut[m].m, mOut[m].n) /\ Rid(mOut[m]) \in Ids
<1>1. mOut[m].m \in Masters /\ Read(mOut[m].m, mOut[m].n)
  <2>1. ASSUME NEW s \in Slaves, FromSlave(m, s)
        PROVE  mOut[m].m \in Masters /\ Read(mOut[m].m, mOut[m].n)
    <3>1. sOut[s] = mOut[m]
      BY <2>1 DEF FromSlave
    <3>2. sOut[s].m \in Masters /\ Mapped(sOut[s].m, sOut[s].n, s)
      BY <3>1, ServedBeat
    <3> QED
      BY <3>1, <3>2 DEF Mapped
  <2>2. ASSUME FromErr(m) PROVE mOut[m].m \in Masters /\ Read(mOut[m].m, mOut[m].n)
    BY <2>2, ErrBeatTyped DEF FromErr, Mapped
  <2> QED
    BY <2>1, <2>2 DEF Wired
<1>2. Rid(mOut[m]) \in Ids
  BY <1>1, ReadTyped DEF Rid, Asked
<1>3. mOut[m] \in Beats
  BY DEF TypeOK
<1> QED
  BY <1>1, <1>2, <1>3

----------------------------------------------------------------------------
(* Steps only add to what was asked for *)

Grows ==
  \A m \in Masters :
    /\ Len(reads[m]) \in Nat /\ Len(reads'[m]) \in Nat /\ Len(reads[m]) <= Len(reads'[m])
    /\ arDone[m] \in Nat /\ arDone'[m] \in Nat /\ arDone[m] <= arDone'[m]
    /\ \A n \in 1 .. Len(reads[m]) : reads'[m][n] = reads[m][n]

LEMMA IssueGrows ==
  ASSUME TypeOK, Issued, NEW m \in Masters, NEW r \in Shapes, IssueRead(m, r)
  PROVE  /\ Grows /\ Issued' /\ arDone' = arDone
         /\ reads' = [reads EXCEPT ![m] = Append(reads[m], r)]
         /\ reads' \in [Masters -> Seq(Shapes)]
         /\ Len(reads[m]) \in Nat /\ Len(reads[m]) + 1 \in 1 .. MaxReads
         /\ Len(reads'[m]) = Len(reads[m]) + 1 /\ reads'[m][Len(reads[m]) + 1] = r
         /\ \A a \in Masters : a # m => reads'[a] = reads[a]
<1>1. reads \in [Masters -> Seq(Shapes)] /\ arDone \in [Masters -> Nat] /\ MaxReads \in Nat
  BY BusReadAssumption DEF TypeOK
<1>2. /\ reads' = [reads EXCEPT ![m] = Append(reads[m], r)] /\ arDone' = arDone
      /\ Len(reads[m]) < MaxReads
  BY DEF IssueRead
<1>3. /\ Append(reads[m], r) \in Seq(Shapes) /\ Len(reads[m]) \in Nat
      /\ Len(Append(reads[m], r)) = Len(reads[m]) + 1
      /\ Append(reads[m], r)[Len(reads[m]) + 1] = r
      /\ \A n \in 1 .. Len(reads[m]) : Append(reads[m], r)[n] = reads[m][n]
  BY <1>1, AppendQueue
<1>4. reads'[m] = Append(reads[m], r) /\ \A a \in Masters : a # m => reads'[a] = reads[a]
  BY <1>1, <1>2
<1>5. reads' \in [Masters -> Seq(Shapes)]
  BY <1>1, <1>2, <1>3
<1>6. \A a \in Masters : Len(reads[a]) \in Nat /\ arDone[a] \in Nat
  BY <1>1
<1>7. Grows
  BY <1>2, <1>3, <1>4, <1>6 DEF Grows
<1>8. Issued'
  BY <1>1, <1>2, <1>3, <1>4, <1>6 DEF Issued
<1> QED
  BY <1>1, <1>2, <1>3, <1>4, <1>5, <1>7, <1>8

LEMMA TakeGrows ==
  ASSUME TypeOK, Issued, NEW m \in Masters, ArPending(m),
         reads' = reads, arDone' = [arDone EXCEPT ![m] = arDone[m] + 1]
  PROVE  /\ Grows /\ Issued' /\ arDone' \in [Masters -> Nat]
         /\ arDone'[m] = arDone[m] + 1 /\ Read(m, arDone[m] + 1)
         /\ \A a \in Masters : a # m => arDone'[a] = arDone[a]
<1>1. reads \in [Masters -> Seq(Shapes)] /\ arDone \in [Masters -> Nat]
  BY DEF TypeOK
<1>2. \A a \in Masters : Len(reads[a]) \in Nat /\ arDone[a] \in Nat
  BY <1>1
<1>3. arDone[m] < Len(reads[m])
  BY DEF ArPending
<1>4. arDone'[m] = arDone[m] + 1 /\ \A a \in Masters : a # m => arDone'[a] = arDone[a]
  BY <1>1
<1>5. Read(m, arDone[m] + 1)
  BY <1>2, <1>3 DEF Read
<1>6. Grows
  BY <1>2, <1>4 DEF Grows
<1>7. Issued'
  BY <1>2, <1>3, <1>4 DEF Issued
<1>8. arDone' \in [Masters -> Nat]
  BY <1>1, <1>2
<1> QED
  BY <1>4, <1>5, <1>6, <1>7, <1>8

LEMMA SameGrows ==
  ASSUME TypeOK, Issued, reads' = reads, arDone' = arDone
  PROVE  Grows /\ Issued'
<1>1. \A a \in Masters : Len(reads[a]) \in Nat /\ arDone[a] \in Nat
  BY DEF TypeOK
<1> QED
  BY <1>1 DEF Grows, Issued

LEMMA GrownRead ==
  ASSUME Grows, NEW m \in Masters, NEW n, Read(m, n)
  PROVE  Read(m, n)' /\ reads'[m][n] = reads[m][n] /\ \A k : Beat(m, n, k)' = Beat(m, n, k)
<1>1. reads'[m][n] = reads[m][n]
  BY DEF Grows, Read
<1>2. Read(m, n)'
  BY DEF Grows, Read
<1> QED
  BY <1>1, <1>2 DEF Beat

\* What Mapped says after the step.
NextMapped(m, n, s) ==
  n \in 1 .. Len(reads'[m]) /\ n <= arDone'[m] /\ reads'[m][n].dst = s

LEMMA GrownMapped ==
  ASSUME Grows, NEW m \in Masters, NEW n, NEW s, Mapped(m, n, s)
  PROVE  NextMapped(m, n, s) /\ Read(m, n) /\ reads'[m][n] = reads[m][n]
<1>1. Read(m, n) /\ n <= arDone[m] /\ n \in Nat
  BY DEF Mapped, Read, Grows
<1>2. n <= arDone'[m]
  BY <1>1 DEF Grows
<1>3. reads'[m][n] = reads[m][n] /\ n \in 1 .. Len(reads'[m])
  BY <1>1, GrownRead DEF Read
<1> QED
  BY <1>1, <1>2, <1>3 DEF Mapped, NextMapped

----------------------------------------------------------------------------
(* The parts that a step leaves alone *)

LEMMA KeptQueued ==
  ASSUME TypeOK, Asked, Grows, rdQ' = rdQ
  PROVE  QueuedWasAsked'
<1>1. ASSUME NEW s \in Slaves, NEW i \in 1 .. Len(rdQ[s])
      PROVE  NextMapped(rdQ[s][i][1], rdQ[s][i][2], s)
  <2>1. Mapped(rdQ[s][i][1], rdQ[s][i][2], s) /\ rdQ[s][i][1] \in Masters
    BY QueuedTyped DEF Asked, QueuedWasAsked
  <2> QED
    BY <2>1, GrownMapped
<1> QED
  BY <1>1 DEF QueuedWasAsked, NextMapped, Mapped, Read

LEMMA KeptDriven ==
  ASSUME TypeOK, Asked, Grows, arWire' = arWire
  PROVE  DrivenWasAsked'
<1>1. ASSUME NEW s \in Slaves, arWire[s] # None
      PROVE  NextMapped(arWire[s][1], arWire[s][2], s)
  <2>1. Mapped(arWire[s][1], arWire[s][2], s)
    BY <1>1 DEF Asked, DrivenWasAsked
  <2>2. arWire[s] \in Ref
    BY <1>1 DEF TypeOK
  <2>3. arWire[s][1] \in Masters
    BY <2>2, RefNotNone
  <2> QED
    BY <2>1, <2>3, GrownMapped
<1> QED
  BY <1>1 DEF DrivenWasAsked, NextMapped, Mapped, Read

LEMMA KeptRefused ==
  ASSUME TypeOK, Asked, Grows, errReads' = errReads
  PROVE  RefusedWasAsked'
<1>1. ASSUME NEW m \in Masters, NEW k \in 1 .. Len(errReads[m])
      PROVE  /\ NextMapped(m, errReads[m][k].n, Sink)
             /\ errReads[m][k].left <= reads'[m][errReads[m][k].n].beats
  BY RefusedAsked, GrownMapped, SMTT(30)
<1> QED
  BY <1>1 DEF RefusedWasAsked, NextMapped, Mapped, Read

LEMMA KeptServing ==
  ASSUME TypeOK, Asked, Serving, Grows, rdQ' = rdQ, sOut' = sOut
  PROVE  Serving'
<1>1. ASSUME NEW s \in Slaves, sOut[s] # None
      PROVE  /\ rdQ[s] # <<>>
             /\ reads'[Head(rdQ[s])[1]][Head(rdQ[s])[2]] = reads[Head(rdQ[s])[1]][Head(rdQ[s])[2]]
             /\ ShowsOldest(s)
  <2>1. ShowsOldest(s)
    BY <1>1 DEF Serving
  <2>2. Head(rdQ[s])[1] \in Masters /\ Mapped(Head(rdQ[s])[1], Head(rdQ[s])[2], s)
    BY <2>1, OldestAsked DEF ShowsOldest
  <2> QED
    BY <2>1, <2>2, GrownMapped DEF ShowsOldest
<1> QED
  BY <1>1 DEF Serving, ShowsOldest, Beat

\* The synthesized beat depends on the front entry of err_reads_ alone.
LEMMA KeptErrBeat ==
  ASSUME TypeOK, Asked, Grows, NEW m \in Masters, errReads[m] # <<>>,
         Head(errReads'[m]) = Head(errReads[m])
  PROVE  ErrBeat(m)' = ErrBeat(m)
<1>1. Mapped(m, Head(errReads[m]).n, Sink)
  BY ErrBeatTyped
<1>2. reads'[m][Head(errReads[m]).n] = reads[m][Head(errReads[m]).n]
  BY <1>1, GrownMapped
<1> QED
  BY <1>2 DEF ErrBeat, Beat

LEMMA KeptShown ==
  ASSUME TypeOK, Asked, Shown, Grows,
         UNCHANGED <<readOrder, mOut, sReady, sOut, trigger, settling>>,
         \A m \in Masters :
           errReads[m] # <<>> => errReads'[m] # <<>> /\ Head(errReads'[m]) = Head(errReads[m])
  PROVE  Shown'
<1>1. ASSUME Wired PROVE Wired'
  <2>1. ASSUME NEW s \in Slaves PROVE ReadyMeansShown(s)'
    BY <1>1 DEF Wired, ReadyMeansShown
  <2>2. ASSUME NEW m \in Masters, mOut[m] # None
        PROVE  (\E s \in Slaves : FromSlave(m, s)') \/ FromErr(m)'
    <3>1. CASE \E s \in Slaves : FromSlave(m, s)
      BY <3>1 DEF FromSlave
    <3>2. CASE FromErr(m)
      BY <3>2, KeptErrBeat DEF FromErr
    <3> QED
      BY <2>2, <1>1, <3>1, <3>2 DEF Wired
  <2> QED
    BY <2>1, <2>2 DEF Wired
<1> QED
  BY <1>1 DEF Shown

\* A step that makes r_forward due needs no wires in order.
LEMMA DueShown == ASSUME trigger', settling' PROVE Shown'
BY DEF Shown

----------------------------------------------------------------------------
(* The steps between clock edges *)

LEMMA IssueStep ==
  ASSUME Wiring, NEW m \in Masters, NEW r \in Shapes, IssueRead(m, r)
  PROVE  Wiring'
<1>1. /\ Grows /\ Issued' /\ reads' \in [Masters -> Seq(Shapes)]
      /\ Len(reads[m]) + 1 \in 1 .. MaxReads
  BY IssueGrows DEF Wiring, Asked
<1>2. UNCHANGED <<arDone, got, answered, released, readOrder, errReads, arWire, mOut, sReady,
                  settling, trigger, rdQ, inMem, sOut, lost>>
  BY DEF IssueRead, wireVars, slaveVars
<1>3. idOrder' \in [Masters -> [Ids -> Seq(1 .. MaxReads)]]
  <2>1. idOrder \in [Masters -> [Ids -> Seq(1 .. MaxReads)]] /\ r.id \in Ids
    BY ShapeFields DEF Wiring, TypeOK
  <2>2. Append(idOrder[m][r.id], Len(reads[m]) + 1) \in Seq(1 .. MaxReads)
    BY <2>1, <1>1, AppendQueue
  <2>3. idOrder' = [idOrder EXCEPT ![m][r.id] = Append(idOrder[m][r.id], Len(reads[m]) + 1)]
    BY DEF IssueRead
  <2> QED
    BY <2>1, <2>2, <2>3
<1>4. TypeOK'
  BY <1>1, <1>2, <1>3 DEF Wiring, TypeOK
<1>5. Asked'
  BY <1>1, <1>2, KeptQueued, KeptDriven, KeptRefused DEF Wiring, Asked
<1>6. Booked'
  BY <1>2 DEF Wiring, Booked, Driven
<1>7. Serving'
  BY <1>1, <1>2, KeptServing DEF Wiring
<1>8. Shown'
  BY <1>1, <1>2, KeptShown DEF Wiring
<1> QED
  BY <1>4, <1>5, <1>6, <1>7, <1>8 DEF Wiring

LEMMA ReleaseStep ==
  ASSUME Wiring, NEW m \in Masters, ReleaseRead(m)
  PROVE  Wiring'
<1>1. UNCHANGED <<reads, arDone, idOrder, got, answered, readOrder, errReads, arWire, mOut,
                  sReady, settling, trigger, rdQ, inMem, sOut, lost>>
  BY DEF ReleaseRead, wireVars, slaveVars
<1>2. released' \in [Masters -> 0 .. MaxReads]
  <2>1. /\ released \in [Masters -> 0 .. MaxReads] /\ answered[m] \subseteq 1 .. MaxReads
        /\ released' = [released EXCEPT ![m] = released[m] + 1]
        /\ released[m] + 1 \in answered[m]
    BY DEF ReleaseRead, Wiring, TypeOK
  <2>2. released[m] + 1 \in 0 .. MaxReads
    BY <2>1
  <2> QED
    BY <2>1, <2>2
<1>3. TypeOK'
  BY <1>1, <1>2 DEF Wiring, TypeOK
<1>4. Grows /\ Issued'
  BY <1>1, SameGrows DEF Wiring, Asked
<1>5. Asked'
  BY <1>1, <1>4, KeptQueued, KeptDriven, KeptRefused DEF Wiring, Asked
<1>6. Booked'
  BY <1>1 DEF Wiring, Booked, Driven
<1>7. Serving'
  BY <1>1, <1>4, KeptServing DEF Wiring
<1>8. Shown'
  BY <1>1, <1>4, KeptShown DEF Wiring
<1> QED
  BY <1>3, <1>5, <1>6, <1>7, <1>8 DEF Wiring

LEMMA DecerrTaken ==
  ASSUME Wiring, NEW m \in Masters, ArDecerr(m)
  PROVE  /\ Grows /\ Issued' /\ arDone' \in [Masters -> Nat]
         /\ Read(m, arDone[m] + 1) /\ reads[m][arDone[m] + 1].dst = Sink
         /\ NextMapped(m, arDone[m] + 1, Sink) /\ reads' = reads
         /\ UNCHANGED <<idOrder, got, answered, released, readOrder, arWire, mOut, sReady,
                        settling, trigger, rdQ, inMem, sOut, lost>>
         /\ \A a \in Masters : a # m => errReads'[a] = errReads[a] /\ arDone'[a] = arDone[a]
         /\ arDone'[m] = arDone[m] + 1
         /\ errReads'[m] = Append(errReads[m], [n |-> arDone[m] + 1,
                                                left |-> reads[m][arDone[m] + 1].beats])
         /\ [n |-> arDone[m] + 1, left |-> reads[m][arDone[m] + 1].beats]
              \in [n : 1 .. MaxReads, left : Nat \ {0}]
         /\ errReads' \in [Masters -> Seq([n : 1 .. MaxReads, left : Nat \ {0}])]
<1> DEFINE n == arDone[m] + 1
           e == [n |-> n, left |-> reads[m][n].beats]
<1>1. /\ ArPending(m) /\ reads[m][n].dst = Sink /\ reads' = reads
      /\ arDone' = [arDone EXCEPT ![m] = n] /\ errReads' = [errReads EXCEPT ![m] = Append(errReads[m], e)]
      /\ UNCHANGED <<idOrder, got, answered, released, readOrder, arWire, mOut, sReady,
                     settling, trigger, rdQ, inMem, sOut, lost>>
  BY DEF ArDecerr, wireVars, slaveVars
<1>2. /\ Grows /\ Issued' /\ arDone' \in [Masters -> Nat] /\ arDone'[m] = n /\ Read(m, n)
      /\ \A a \in Masters : a # m => arDone'[a] = arDone[a]
  BY <1>1, TakeGrows DEF Wiring, Asked
<1>3. n \in 1 .. MaxReads /\ reads[m][n].beats \in Nat \ {0}
  BY <1>2, ReadTyped DEF Wiring, Asked
<1>4. e \in [n : 1 .. MaxReads, left : Nat \ {0}]
  BY <1>3
<1>5. errReads \in [Masters -> Seq([n : 1 .. MaxReads, left : Nat \ {0}])]
  BY DEF Wiring, TypeOK
<1>6. /\ Append(errReads[m], e) \in Seq([n : 1 .. MaxReads, left : Nat \ {0}])
  <2> HIDE DEF e
  <2> QED
    BY <1>4, <1>5, AppendQueue
<1>7. /\ errReads'[m] = Append(errReads[m], e)
      /\ \A a \in Masters : a # m => errReads'[a] = errReads[a]
      /\ errReads' \in [Masters -> Seq([n : 1 .. MaxReads, left : Nat \ {0}])]
  BY <1>1, <1>5, <1>6
<1>8. NextMapped(m, n, Sink)
  BY <1>1, <1>2, <1>3 DEF NextMapped, Read
<1> QED
  BY <1>1, <1>2, <1>4, <1>7, <1>8

LEMMA DecerrStep ==
  ASSUME Wiring, NEW m \in Masters, ArDecerr(m)
  PROVE  Wiring'
<1> DEFINE n == arDone[m] + 1
           e == [n |-> n, left |-> reads[m][n].beats]
           E == [n : 1 .. MaxReads, left : Nat \ {0}]
<1>1. /\ Grows /\ Issued' /\ arDone' \in [Masters -> Nat] /\ NextMapped(m, n, Sink)
      /\ Read(m, n) /\ reads' = reads
      /\ errReads' \in [Masters -> Seq(E)] /\ errReads'[m] = Append(errReads[m], e) /\ e \in E
      /\ \A a \in Masters : a # m => errReads'[a] = errReads[a]
      /\ UNCHANGED <<idOrder, got, answered, released, readOrder, arWire, mOut, sReady,
                     settling, trigger, rdQ, inMem, sOut, lost>>
  BY DecerrTaken
<1>2. errReads[m] \in Seq(E) /\ e.n = n /\ e.left = reads[m][n].beats
  BY DEF Wiring, TypeOK
<1>3. /\ Len(errReads[m]) \in Nat /\ Len(errReads'[m]) = Len(errReads[m]) + 1
      /\ errReads'[m][Len(errReads[m]) + 1] = e
      /\ \A k \in 1 .. Len(errReads[m]) : errReads'[m][k] = errReads[m][k]
  <2> HIDE DEF e, E
  <2> QED
    BY <1>1, <1>2, AppendQueue
<1>4. TypeOK'
  BY <1>1 DEF Wiring, TypeOK
<1>5. RefusedWasAsked'
  <2>1. ASSUME NEW a \in Masters, NEW k \in 1 .. Len(errReads[a])
        PROVE  /\ NextMapped(a, errReads[a][k].n, Sink)
               /\ errReads[a][k].left <= reads'[a][errReads[a][k].n].beats
    BY <1>1, RefusedAsked, GrownMapped DEF Wiring
  <2>2. NextMapped(m, e.n, Sink) /\ e.left <= reads'[m][e.n].beats
    <3>1. reads[m][n].beats \in Nat
      BY <1>1, ReadTyped DEF Wiring, Asked
    <3> QED
      BY <3>1, <1>1, <1>2
  <2>3. ASSUME NEW a \in Masters, NEW k \in 1 .. Len(errReads'[a])
        PROVE  /\ NextMapped(a, errReads'[a][k].n, Sink)
               /\ errReads'[a][k].left <= reads'[a][errReads'[a][k].n].beats
    <3>1. CASE a # m
      BY <3>1, <2>1, <1>1
    <3>2. CASE a = m /\ k \in 1 .. Len(errReads[m])
      BY <3>2, <2>1, <1>3
    <3>3. CASE a = m /\ k = Len(errReads[m]) + 1
      BY <3>3, <2>2, <1>3
    <3>4. a = m => k \in 1 .. Len(errReads[m]) \/ k = Len(errReads[m]) + 1
      BY <1>3
    <3> QED
      BY <3>1, <3>2, <3>3, <3>4
  <2> QED
    BY <2>3 DEF RefusedWasAsked, NextMapped, Mapped, Read
<1>6. Asked'
  BY <1>1, <1>5, KeptQueued, KeptDriven DEF Wiring, Asked
<1>7. Booked'
  BY <1>1 DEF Wiring, Booked, Driven
<1>8. Serving'
  BY <1>1, KeptServing DEF Wiring
<1>9. Shown'
  <2>1. ASSUME NEW a \in Masters, errReads[a] # <<>>
        PROVE  errReads'[a] # <<>> /\ Head(errReads'[a]) = Head(errReads[a])
    <3> HIDE DEF e, E
    <3>1. CASE a = m
      BY <3>1, <2>1, <1>1, <1>2, AppendHead
    <3>2. CASE a # m
      BY <3>2, <2>1, <1>1
    <3> QED
      BY <3>1, <3>2
  <2> QED
    BY <2>1, <1>1, KeptShown DEF Wiring
<1> QED
  BY <1>4, <1>6, <1>7, <1>8, <1>9 DEF Wiring

LEMMA ForwardTaken ==
  ASSUME Wiring, NEW m \in Masters, ArForward(m)
  PROVE  /\ Grows /\ Issued' /\ arDone' \in [Masters -> Nat] /\ reads' = reads
         /\ Read(m, arDone[m] + 1) /\ reads[m][arDone[m] + 1].dst \in Slaves
         /\ NextMapped(m, arDone[m] + 1, reads[m][arDone[m] + 1].dst)
         /\ <<m, arDone[m] + 1>> \in Ref /\ arDone'[m] = arDone[m] + 1
         /\ \A a \in Masters : a # m => arDone'[a] = arDone[a]
         /\ arWire[reads[m][arDone[m] + 1].dst] = None
         /\ arWire' = [arWire EXCEPT ![reads[m][arDone[m] + 1].dst] = <<m, arDone[m] + 1>>]
         /\ readOrder' = [readOrder EXCEPT ![reads[m][arDone[m] + 1].dst] = Append(@, m)]
         /\ UNCHANGED <<idOrder, got, answered, released, errReads, mOut, sReady,
                        settling, trigger, rdQ, inMem, sOut, lost>>
<1> DEFINE n == arDone[m] + 1
           s == reads[m][n].dst
<1>1. /\ ArPending(m) /\ s # Sink /\ arWire[s] = None /\ reads' = reads
      /\ arDone' = [arDone EXCEPT ![m] = n] /\ arWire' = [arWire EXCEPT ![s] = <<m, n>>]
      /\ readOrder' = [readOrder EXCEPT ![s] = Append(@, m)]
      /\ UNCHANGED <<idOrder, got, answered, released, errReads, mOut, sReady,
                     settling, trigger, rdQ, inMem, sOut, lost>>
  BY DEF ArForward, wireVars, slaveVars
<1>2. /\ Grows /\ Issued' /\ arDone' \in [Masters -> Nat] /\ arDone'[m] = n /\ Read(m, n)
      /\ \A a \in Masters : a # m => arDone'[a] = arDone[a]
  BY <1>1, TakeGrows DEF Wiring, Asked
<1>3. n \in 1 .. MaxReads /\ s \in 0 .. NumS
  BY <1>2, ReadTyped DEF Wiring, Asked
<1>4. s \in Slaves
  BY <1>1, <1>3, Members DEF Slaves, Sink
<1>5. NextMapped(m, n, s) /\ <<m, n>> \in Ref
  BY <1>1, <1>2, <1>3 DEF NextMapped, Read, Ref
<1> QED
  BY <1>1, <1>2, <1>4, <1>5

LEMMA ForwardStep ==
  ASSUME Wiring, NEW m \in Masters, ArForward(m)
  PROVE  Wiring'
<1> DEFINE n == arDone[m] + 1
           s == reads[m][n].dst
<1>1. /\ Grows /\ Issued' /\ arDone' \in [Masters -> Nat] /\ reads' = reads
      /\ s \in Slaves /\ NextMapped(m, n, s) /\ <<m, n>> \in Ref
      /\ arWire[s] = None /\ arWire' = [arWire EXCEPT ![s] = <<m, n>>]
      /\ readOrder' = [readOrder EXCEPT ![s] = Append(@, m)]
      /\ UNCHANGED <<idOrder, got, answered, released, errReads, mOut, sReady,
                     settling, trigger, rdQ, inMem, sOut, lost>>
  BY ForwardTaken
<1>2. /\ arWire \in [Slaves -> Ref \cup {None}] /\ readOrder \in [Slaves -> Seq(Masters)]
      /\ rdQ \in [Slaves -> Seq(Ref)]
  BY DEF Wiring, TypeOK
<1> HIDE DEF n, s
<1>3. /\ arWire'[s] = <<m, n>> /\ <<m, n>> # None
      /\ \A x \in Slaves : x # s => arWire'[x] = arWire[x]
  BY <1>1, <1>2, RefNotNone
<1>4. /\ readOrder'[s] = Append(readOrder[s], m)
      /\ \A x \in Slaves : x # s => readOrder'[x] = readOrder[x]
  BY <1>1, <1>2
<1>5. /\ Append(readOrder[s], m) \in Seq(Masters) /\ Len(readOrder[s]) \in Nat
      /\ Len(readOrder'[s]) = Len(readOrder[s]) + 1
  BY <1>1, <1>2, <1>4, AppendQueue
<1>6. TypeOK'
  <2>1. arWire' \in [Slaves -> Ref \cup {None}]
    BY <1>1, <1>2
  <2>2. readOrder' \in [Slaves -> Seq(Masters)]
    BY <1>1, <1>2, <1>5
  <2> QED
    BY <2>1, <2>2, <1>1 DEF Wiring, TypeOK
<1>7. DrivenWasAsked'
  <2>1. ASSUME NEW x \in Slaves, x # s, arWire[x] # None
        PROVE  NextMapped(arWire[x][1], arWire[x][2], x)
    <3>1. Mapped(arWire[x][1], arWire[x][2], x)
      BY <2>1 DEF Wiring, Asked, DrivenWasAsked
    <3>2. arWire[x] \in Ref
      BY <2>1, <1>2
    <3> QED
      BY <1>1, <3>1, <3>2, RefNotNone, GrownMapped
  <2>2. NextMapped(arWire'[s][1], arWire'[s][2], s)
    BY <1>1, <1>3
  <2> QED
    BY <2>1, <2>2, <1>3 DEF DrivenWasAsked, NextMapped, Mapped, Read
<1>8. Asked'
  BY <1>1, <1>7, KeptQueued, KeptRefused DEF Wiring, Asked
<1>9. Booked'
  <2>1. ASSUME NEW x \in Slaves
        PROVE  Len(rdQ[x]) + (IF arWire'[x] = None THEN 0 ELSE 1) <= Len(readOrder'[x])
    <3>1. Len(rdQ[x]) + Driven(x) <= Len(readOrder[x]) /\ Len(rdQ[x]) \in Nat
      BY <1>2 DEF Wiring, Booked
    <3>2. CASE x = s
      <4>1. Driven(x) = 0 /\ arWire'[x] # None
        BY <3>2, <1>1, <1>3 DEF Driven
      <4>2. Len(readOrder[x]) \in Nat /\ Len(readOrder'[x]) = Len(readOrder[x]) + 1
        BY <3>2, <1>5
      <4> QED
        BY <3>1, <4>1, <4>2
    <3>3. CASE x # s
      BY <3>1, <3>3, <1>3, <1>4 DEF Driven
    <3> QED
      BY <3>2, <3>3
  <2> QED
    BY <2>1, <1>1 DEF Booked, Driven
<1>10. Serving'
  BY <1>1, KeptServing DEF Wiring
<1>11. ASSUME Wired PROVE Wired'
  <2>1. ASSUME NEW x \in Slaves, readOrder[x] # <<>>
        PROVE  readOrder'[x] # <<>> /\ Head(readOrder'[x]) = Head(readOrder[x])
    <3>1. readOrder[x] \in Seq(Masters)
      BY <1>2
    <3>2. Append(readOrder[x], m) # <<>> /\ Head(Append(readOrder[x], m)) = Head(readOrder[x])
      BY <2>1, <3>1, AppendHead
    <3> QED
      BY <2>1, <3>2, <1>4
  <2>2. ASSUME NEW x \in Slaves, readOrder[x] = <<>> PROVE sOut[x] = None
    <3>1. Len(rdQ[x]) + Driven(x) <= 0 /\ Len(rdQ[x]) \in Nat /\ rdQ[x] \in Seq(Ref)
      BY <2>2, <1>2 DEF Wiring, Booked
    <3>2. rdQ[x] = <<>>
      <4>1. Driven(x) \in {0, 1}
        BY DEF Driven
      <4>2. Len(rdQ[x]) = 0
        BY <3>1, <4>1
      <4> QED
        BY <3>1, <4>2, EmptySeq
    <3> QED
      BY <3>2 DEF Wiring, Serving, ShowsOldest
  <2>3. ASSUME NEW x \in Slaves PROVE ReadyMeansShown(x)'
    <3>1. ReadyMeansShown(x)
      BY <1>11 DEF Wired
    <3> QED
      BY <3>1, <2>1, <2>2, <1>1 DEF ReadyMeansShown
  <2>4. ASSUME NEW a \in Masters, mOut[a] # None
        PROVE  (\E x \in Slaves : FromSlave(a, x)') \/ FromErr(a)'
    <3>1. ASSUME NEW x \in Slaves, FromSlave(a, x) PROVE FromSlave(a, x)'
      <4>1. readOrder[x] # <<>>
        BY <3>1, <1>11 DEF FromSlave, Wired, ReadyMeansShown
      <4> QED
        BY <4>1, <3>1, <2>1, <1>1 DEF FromSlave
    <3>2. ASSUME FromErr(a) PROVE FromErr(a)'
      BY <3>2, <1>1, KeptErrBeat DEF FromErr, Wiring
    <3> QED
      BY <2>4, <1>11, <3>1, <3>2 DEF Wired
  <2> QED
    BY <2>3, <2>4, <1>1 DEF Wired
<1>12. Shown'
  BY <1>1, <1>11 DEF Wiring, Shown
<1> QED
  BY <1>6, <1>8, <1>9, <1>10, <1>12 DEF Wiring

LEMMA SlaveArStep ==
  ASSUME Wiring, NEW s \in Slaves, SlaveAr(s)
  PROVE  Wiring'
<1>1. /\ arWire[s] # None /\ arWire' = [arWire EXCEPT ![s] = None]
      /\ \/ /\ rdQ' = [rdQ EXCEPT ![s] = Append(rdQ[s], arWire[s])]
            /\ inMem' = [inMem EXCEPT ![s] = inMem[s] \cup {arWire[s]}] /\ lost' = lost
         \/ lost' = lost \cup {arWire[s]} /\ rdQ' = rdQ /\ inMem' = inMem
      /\ UNCHANGED <<reads, arDone, idOrder, got, answered, released, readOrder, errReads,
                     mOut, sReady, settling, trigger, sOut>>
  BY DEF SlaveAr, masterVars, wireVars
<1>2. /\ arWire \in [Slaves -> Ref \cup {None}] /\ rdQ \in [Slaves -> Seq(Ref)]
      /\ inMem \in [Slaves -> SUBSET Ref] /\ lost \in SUBSET Ref
      /\ readOrder \in [Slaves -> Seq(Masters)]
  BY DEF Wiring, TypeOK
<1>3. Grows /\ Issued'
  BY <1>1, SameGrows DEF Wiring, Asked
<1>4. arWire[s] \in Ref /\ rdQ[s] \in Seq(Ref)
  BY <1>1, <1>2
<1>5. /\ Append(rdQ[s], arWire[s]) \in Seq(Ref) /\ Len(rdQ[s]) \in Nat
      /\ Len(Append(rdQ[s], arWire[s])) = Len(rdQ[s]) + 1
      /\ Append(rdQ[s], arWire[s])[Len(rdQ[s]) + 1] = arWire[s]
      /\ \A i \in 1 .. Len(rdQ[s]) : Append(rdQ[s], arWire[s])[i] = rdQ[s][i]
  BY <1>4, AppendQueue
<1>6. /\ arWire'[s] = None /\ \A x \in Slaves : x # s => arWire'[x] = arWire[x] /\ rdQ'[x] = rdQ[x]
      /\ rdQ'[s] = rdQ[s] \/ rdQ'[s] = Append(rdQ[s], arWire[s])
  BY <1>1, <1>2
<1>7. TypeOK'
  <2>1. arWire' \in [Slaves -> Ref \cup {None}]
    BY <1>1, <1>2
  <2>2. rdQ' \in [Slaves -> Seq(Ref)]
    BY <1>1, <1>2, <1>5
  <2>3. inMem' \in [Slaves -> SUBSET Ref] /\ lost' \in SUBSET Ref
    BY <1>1, <1>2, <1>4, ZenonT(40)
  <2> QED
    BY <2>1, <2>2, <2>3, <1>1 DEF Wiring, TypeOK
<1>8. QueuedWasAsked'
  <2>1. ASSUME NEW x \in Slaves, NEW i \in 1 .. Len(rdQ[x])
        PROVE  NextMapped(rdQ[x][i][1], rdQ[x][i][2], x)
    <3>1. Mapped(rdQ[x][i][1], rdQ[x][i][2], x) /\ rdQ[x][i][1] \in Masters
      BY QueuedTyped DEF Wiring, Asked, QueuedWasAsked
    <3> QED
      BY <3>1, <1>3, GrownMapped
  <2>2. NextMapped(arWire[s][1], arWire[s][2], s)
    <3>1. Mapped(arWire[s][1], arWire[s][2], s) /\ arWire[s][1] \in Masters
      BY <1>1, <1>4, RefNotNone DEF Wiring, Asked, DrivenWasAsked
    <3> QED
      BY <3>1, <1>3, GrownMapped
  <2>3. ASSUME NEW x \in Slaves, NEW i \in 1 .. Len(rdQ'[x])
        PROVE  NextMapped(rdQ'[x][i][1], rdQ'[x][i][2], x)
    <3>1. CASE x # s
      BY <3>1, <2>1, <1>6
    <3>2. CASE x = s /\ rdQ'[s] = rdQ[s]
      BY <3>2, <2>1
    <3>3. CASE x = s /\ rdQ'[s] = Append(rdQ[s], arWire[s])
      <4>1. i \in 1 .. Len(rdQ[s]) \/ i = Len(rdQ[s]) + 1
        BY <3>3, <1>5
      <4> QED
        BY <4>1, <3>3, <2>1, <2>2, <1>5
    <3> QED
      BY <3>1, <3>2, <3>3, <1>6
  <2> QED
    BY <2>3 DEF QueuedWasAsked, NextMapped, Mapped, Read
<1>9. DrivenWasAsked'
  <2>1. ASSUME NEW x \in Slaves, arWire'[x] # None
        PROVE  NextMapped(arWire'[x][1], arWire'[x][2], x)
    <3>1. x # s /\ arWire'[x] = arWire[x]
      BY <2>1, <1>6
    <3>2. Mapped(arWire[x][1], arWire[x][2], x)
      BY <2>1, <3>1 DEF Wiring, Asked, DrivenWasAsked
    <3>3. arWire[x] \in Ref
      BY <2>1, <3>1, <1>2
    <3>4. arWire[x][1] \in Masters
      BY <3>3, RefNotNone
    <3>5. NextMapped(arWire[x][1], arWire[x][2], x)
      BY <3>2, <3>4, <1>3, GrownMapped
    <3> QED
      BY <3>1, <3>5
  <2> QED
    BY <2>1 DEF DrivenWasAsked, NextMapped, Mapped, Read
<1>10. Asked'
  BY <1>1, <1>3, <1>8, <1>9, KeptRefused DEF Wiring, Asked
<1>11. Booked'
  <2>1. ASSUME NEW x \in Slaves
        PROVE  Len(rdQ'[x]) + (IF arWire'[x] = None THEN 0 ELSE 1) <= Len(readOrder[x])
    <3>1. Len(rdQ[x]) + Driven(x) <= Len(readOrder[x]) /\ Len(rdQ[x]) \in Nat /\ Len(readOrder[x]) \in Nat
      BY <1>2 DEF Wiring, Booked
    <3>2. CASE x # s
      BY <3>1, <3>2, <1>6 DEF Driven
    <3>3. CASE x = s
      <4>1. Driven(x) = 1 /\ arWire'[x] = None
        BY <3>3, <1>1, <1>6 DEF Driven
      <4>2. Len(rdQ'[x]) = Len(rdQ[x]) \/ Len(rdQ'[x]) = Len(rdQ[x]) + 1
        BY <3>3, <1>5, <1>6
      <4> QED
        BY <4>1, <4>2, <3>1
    <3> QED
      BY <3>2, <3>3
  <2> QED
    BY <2>1, <1>1 DEF Booked, Driven
<1>12. Serving'
  <2>1. ASSUME NEW x \in Slaves, sOut[x] # None
        PROVE  rdQ'[x] # <<>> /\ Head(rdQ'[x]) = Head(rdQ[x]) /\ ShowsOldest(x)
    <3>1. ShowsOldest(x) /\ rdQ[x] # <<>>
      BY <2>1 DEF Wiring, Serving, ShowsOldest
    <3>2. CASE x = s
      <4>1. Append(rdQ[s], arWire[s]) # <<>> /\ Head(Append(rdQ[s], arWire[s])) = Head(rdQ[s])
        BY <3>1, <3>2, <1>4, AppendHead
      <4> QED
        BY <4>1, <3>1, <3>2, <1>6
    <3>3. CASE x # s
      BY <3>1, <3>3, <1>6
    <3> QED
      BY <3>2, <3>3
  <2> QED
    BY <2>1, <1>1 DEF Serving, ShowsOldest, Beat
<1>13. Shown'
  BY <1>1, <1>3, KeptShown DEF Wiring
<1> QED
  BY <1>7, <1>10, <1>11, <1>12, <1>13 DEF Wiring

LEMMA MemStepKept ==
  ASSUME Wiring, NEW s \in Slaves, MemStep(s)
  PROVE  Wiring'
<1>1. PICK r \in inMem[s] : MemComplete(s, r)
  BY DEF MemStep
<1>2. /\ inMem' = [inMem EXCEPT ![s] = inMem[s] \ {r}]
      /\ UNCHANGED <<reads, arDone, idOrder, got, answered, released, readOrder, errReads,
                     arWire, mOut, sReady, settling, trigger, rdQ, sOut, lost>>
  BY <1>1 DEF MemComplete, masterVars, wireVars
<1>3. Grows /\ Issued'
  BY <1>2, SameGrows DEF Wiring, Asked
<1>4. inMem' \in [Slaves -> SUBSET Ref]
  BY <1>2 DEF Wiring, TypeOK
<1>5. TypeOK'
  BY <1>2, <1>4 DEF Wiring, TypeOK
<1>6. Asked'
  BY <1>2, <1>3, KeptQueued, KeptDriven, KeptRefused DEF Wiring, Asked
<1>7. Booked'
  BY <1>2 DEF Wiring, Booked, Driven
<1>8. Serving'
  BY <1>2, <1>3, KeptServing DEF Wiring
<1>9. Shown'
  BY <1>2, <1>3, KeptShown DEF Wiring
<1> QED
  BY <1>5, <1>6, <1>7, <1>8, <1>9 DEF Wiring

LEMMA RValidStep ==
  ASSUME Wiring, NEW s \in Slaves, SlaveRValid(s)
  PROVE  Wiring'
<1> DEFINE m == Head(rdQ[s])[1]
           n == Head(rdQ[s])[2]
<1>1. /\ settling /\ sOut[s] = None /\ rdQ[s] # <<>> /\ trigger'
      /\ sOut' = [sOut EXCEPT ![s] = Beat(m, n, 1)] /\ trigger' \in BOOLEAN
      /\ UNCHANGED <<reads, arDone, idOrder, got, answered, released, readOrder, errReads,
                     arWire, mOut, sReady, settling, rdQ, inMem, lost>>
  BY DEF SlaveRValid, masterVars, wireVars
<1>2. m \in Masters /\ n \in 1 .. MaxReads /\ Mapped(m, n, s)
  BY <1>1, OldestAsked DEF Wiring
<1>3. reads[m][n].beats \in Nat \ {0}
  BY <1>2, ReadTyped DEF Wiring, Asked, Mapped
<1>4. Beat(m, n, 1) \in Beats /\ Beat(m, n, 1).k = 1
  BY <1>2, BeatTyped
<1>5. sOut \in [Slaves -> Beats \cup {None}]
  BY DEF Wiring, TypeOK
<1> HIDE DEF m, n
<1>6. sOut'[s] = Beat(m, n, 1) /\ \A x \in Slaves : x # s => sOut'[x] = sOut[x]
  BY <1>1, <1>5
<1>7. Grows /\ Issued'
  BY <1>1, SameGrows DEF Wiring, Asked
<1>8. sOut' \in [Slaves -> Beats \cup {None}]
  BY <1>1, <1>4, <1>5
<1>9. TypeOK'
  BY <1>1, <1>8 DEF Wiring, TypeOK
<1>10. Asked'
  BY <1>1, <1>7, KeptQueued, KeptDriven, KeptRefused DEF Wiring, Asked
<1>11. Booked'
  BY <1>1 DEF Wiring, Booked, Driven
<1>12. Serving'
  <2>1. ASSUME NEW x \in Slaves, sOut'[x] # None PROVE ShowsOldest(x)'
    <3>1. CASE x = s
      <4>1. sOut'[x] = Beat(m, n, sOut'[x].k) /\ sOut'[x].k <= reads[m][n].beats
        BY <3>1, <1>3, <1>4, <1>6
      <4>2. /\ sOut'[x] = Beat(Head(rdQ[x])[1], Head(rdQ[x])[2], sOut'[x].k)
            /\ sOut'[x].k <= reads[Head(rdQ[x])[1]][Head(rdQ[x])[2]].beats
        BY <3>1, <4>1 DEF m, n
      <4> QED
        BY <3>1, <4>2, <1>1 DEF ShowsOldest, Beat
    <3>2. CASE x # s
      <4>1. ShowsOldest(x)
        BY <3>2, <2>1, <1>6 DEF Wiring, Serving
      <4> QED
        BY <4>1, <3>2, <1>1, <1>6 DEF ShowsOldest, Beat
    <3> QED
      BY <3>1, <3>2
  <2> QED
    BY <2>1 DEF Serving
<1>13. Shown'
  BY <1>1, DueShown
<1> QED
  BY <1>9, <1>10, <1>11, <1>12, <1>13 DEF Wiring

----------------------------------------------------------------------------
(* The clock edge *)

\* What the edge does to slave s.
LEMMA EdgeSlave ==
  ASSUME Wiring, ClockEdge, NEW s \in Slaves
  PROVE  /\ Taken(s) \in BOOLEAN
         /\ sOut[s] # None => sOut[s].last = (sOut[s].k = reads[sOut[s].m][sOut[s].n].beats)
         /\ ~Taken(s) => /\ sOut'[s] = sOut[s] /\ rdQ'[s] = rdQ[s]
                         /\ readOrder'[s] = readOrder[s]
         /\ Taken(s) /\ ~sOut[s].last =>
              /\ sOut'[s] = Beat(sOut[s].m, sOut[s].n, sOut[s].k + 1)
              /\ sOut[s].k + 1 <= reads[sOut[s].m][sOut[s].n].beats
              /\ rdQ'[s] = rdQ[s] /\ readOrder'[s] = readOrder[s]
         /\ Taken(s) /\ sOut[s].last =>
              /\ sOut'[s] = None /\ rdQ[s] # <<>> /\ readOrder[s] # <<>>
              /\ rdQ'[s] = Tail(rdQ[s]) /\ readOrder'[s] = Tail(readOrder[s])
<1>1. /\ sOut'[s] = IF Retires(s) THEN None
                    ELSE IF Taken(s) THEN Beat(sOut[s].m, sOut[s].n, sOut[s].k + 1) ELSE sOut[s]
      /\ rdQ'[s] = IF Retires(s) THEN Tail(rdQ[s]) ELSE rdQ[s]
      /\ readOrder'[s] = IF Retires(s) /\ readOrder[s] # <<>> THEN Tail(readOrder[s])
                         ELSE readOrder[s]
  BY DEF ClockEdge
<1>2. ASSUME sOut[s] # None
      PROVE  /\ sOut[s].last = (sOut[s].k = reads[sOut[s].m][sOut[s].n].beats)
             /\ ~sOut[s].last => sOut[s].k + 1 <= reads[sOut[s].m][sOut[s].n].beats
             /\ rdQ[s] # <<>> /\ readOrder[s] # <<>>
  <2>1. /\ sOut[s].m \in Masters /\ sOut[s].k \in Nat \ {0} /\ rdQ[s] # <<>>
        /\ Mapped(sOut[s].m, sOut[s].n, s)
        /\ sOut[s] = Beat(sOut[s].m, sOut[s].n, sOut[s].k)
        /\ sOut[s].k <= reads[sOut[s].m][sOut[s].n].beats
    BY <1>2, ServedBeat DEF Wiring
  <2>2. reads[sOut[s].m][sOut[s].n].beats \in Nat \ {0}
    BY <2>1, ReadTyped DEF Wiring, Asked, Mapped
  <2>3. sOut[s].last = (sOut[s].k = reads[sOut[s].m][sOut[s].n].beats)
    <3> DEFINE a == sOut[s].m  n == sOut[s].n  k == sOut[s].k
    <3>1. sOut[s] = Beat(a, n, k)
      BY <2>1
    <3> HIDE DEF a, n, k
    <3>2. sOut[s].last = (k = reads[a][n].beats)
      BY <3>1 DEF Beat
    <3> QED
      BY <3>2 DEF a, n, k
  <2>4. ~sOut[s].last => sOut[s].k # reads[sOut[s].m][sOut[s].n].beats
    BY <2>3
  <2>5. rdQ[s] \in Seq(Ref) /\ readOrder[s] \in Seq(Masters)
    BY DEF Wiring, TypeOK
  <2>6. Len(rdQ[s]) \in Nat \ {0} /\ Len(readOrder[s]) \in Nat
    BY <2>1, <2>5, HeadOf
  <2>7. Len(rdQ[s]) + Driven(s) <= Len(readOrder[s]) /\ Driven(s) \in {0, 1}
    BY DEF Wiring, Booked, Driven
  <2>8. readOrder[s] # <<>>
    BY <2>6, <2>7, EmptySeq
  <2> QED
    BY <2>1, <2>2, <2>3, <2>4, <2>8
<1>3. Taken(s) \in BOOLEAN
  BY DEF Taken, Wiring, TypeOK
<1> QED
  BY <1>1, <1>2, <1>3 DEF Retires, Taken

LEMMA EdgeFrame ==
  ASSUME Wiring, ClockEdge
  PROVE  /\ ~settling /\ settling' = TRUE /\ ~trigger /\ Wired /\ Grows /\ Issued'
         /\ UNCHANGED <<reads, arDone, released, arWire, mOut, sReady, inMem, lost>>
         /\ trigger' \in BOOLEAN
         /\ ~trigger' => /\ \A m \in Masters : errReads[m] = <<>>
                         /\ \A s \in Slaves : ~Taken(s)
<1>1. /\ ~settling /\ settling' = TRUE
      /\ UNCHANGED <<reads, arDone, released, arWire, mOut, sReady, inMem, lost>>
  BY DEF ClockEdge
<1>2. ~trigger /\ Wired
  BY <1>1 DEF Wiring, Shown
<1>3. Grows /\ Issued'
  BY <1>1, SameGrows DEF Wiring, Asked
<1>4. /\ trigger' \in BOOLEAN
      /\ ~trigger' => /\ \A m \in Masters : errReads[m] = <<>>
                      /\ \A s \in Slaves : ~Taken(s)
  BY <1>2, Zenon DEF ClockEdge, Wiring, TypeOK
<1> QED
  BY <1>1, <1>2, <1>3, <1>4

\* What r_advance leaves of a master's refused reads: all of them, or all but the
\* front one; the front one may have lost a beat.
LEMMA ErrAfter ==
  ASSUME TypeOK, NEW m \in Masters
  PROVE  /\ ErrReadsAfter(errReads[m]) \in Seq([n : 1 .. MaxReads, left : Nat \ {0}])
         /\ \A k \in 1 .. Len(ErrReadsAfter(errReads[m])) :
              \E i \in 1 .. Len(errReads[m]) :
                /\ i = k \/ i = k + 1
                /\ ErrReadsAfter(errReads[m])[k].n = errReads[m][i].n
                /\ ErrReadsAfter(errReads[m])[k].left <= errReads[m][i].left
<1> DEFINE E == [n : 1 .. MaxReads, left : Nat \ {0}]
           q == errReads[m]
           r == [q EXCEPT ![1].left = q[1].left - 1]
<1>1. q \in Seq(E)
  BY DEF TypeOK
<1>2. ASSUME NEW i \in 1 .. Len(q) PROVE q[i] \in E /\ q[i].left \in Nat \ {0}
  <2>1. q[i] \in E
    BY <1>1, ElementOfSeq
  <2> QED
    BY <2>1
<1>3. CASE q = <<>>
  <2>1. ErrReadsAfter(q) = <<>>
    BY <1>3 DEF ErrReadsAfter
  <2> QED
    BY <2>1, EmptySeq
<1>4. CASE q # <<>> /\ Head(q).left = 1
  <2>1. ErrReadsAfter(q) = Tail(q)
    BY <1>4 DEF ErrReadsAfter
  <2> HIDE DEF E, q
  <2>2. /\ Tail(q) \in Seq(E) /\ Len(q) \in Nat \ {0} /\ Len(Tail(q)) = Len(q) - 1
        /\ \A i \in 1 .. Len(q) - 1 : Tail(q)[i] = q[i + 1]
    BY <1>1, <1>4, TailQueue
  <2>3. ASSUME NEW k \in 1 .. Len(q) - 1
        PROVE  k + 1 \in 1 .. Len(q) /\ Tail(q)[k] = q[k + 1] /\ q[k + 1].left \in Nat
    BY <1>2, <2>2
  <2>4. ASSUME NEW k \in 1 .. Len(Tail(q))
        PROVE  \E i \in 1 .. Len(q) : /\ i = k \/ i = k + 1
                                      /\ Tail(q)[k].n = q[i].n /\ Tail(q)[k].left <= q[i].left
    BY <2>2, <2>3
  <2> QED
    BY <2>1, <2>2, <2>4 DEF E, q
<1>5. CASE q # <<>> /\ Head(q).left # 1
  <2>1. ErrReadsAfter(q) = r
    BY <1>5, <1>1, HeadOf DEF ErrReadsAfter
  <2>2. 1 \in 1 .. Len(q) /\ Head(q) = q[1] /\ Len(q) \in Nat
    BY <1>1, <1>5, HeadOf
  <2>3. q[1] \in E /\ q[1].left \in Nat \ {0, 1} /\ q[1].n \in 1 .. MaxReads
    BY <1>2, <1>5, <2>2
  <2>4. /\ r[1].n = q[1].n /\ r[1].left = q[1].left - 1 /\ r[1] \in E
        /\ \A i \in 1 .. Len(q) : i # 1 => r[i] = q[i]
        /\ DOMAIN r = 1 .. Len(q)
    <3>1. DOMAIN q = 1 .. Len(q)
      BY <1>1, LenProperties
    <3>2. /\ r[1] = [q[1] EXCEPT !.left = q[1].left - 1] /\ DOMAIN r = 1 .. Len(q)
          /\ \A i \in 1 .. Len(q) : i # 1 => r[i] = q[i]
      <4> HIDE DEF q
      <4> QED
        BY <3>1, <2>2
    <3>3. q[1].left - 1 \in Nat \ {0}
      BY <2>3
    <3>4. ASSUME NEW e \in E, NEW l \in Nat \ {0}
          PROVE  LET f == [e EXCEPT !.left = l] IN f \in E /\ f.n = e.n /\ f.left = l
      OBVIOUS
    <3> HIDE DEF q, r, E
    <3> QED
      BY <2>3, <3>2, <3>3, <3>4
  <2>5. r \in Seq(E) /\ Len(r) = Len(q)
    BY <1>1, <1>2, <2>2, <2>4
  <2> HIDE DEF E, q, r
  <2>6. ASSUME NEW k \in 1 .. Len(r)
        PROVE  \E i \in 1 .. Len(q) : /\ i = k \/ i = k + 1
                                      /\ r[k].n = q[i].n /\ r[k].left <= q[i].left
    BY <1>2, <2>3, <2>4, <2>5
  <2> QED
    BY <2>1, <2>5, <2>6 DEF E, q
<1> QED
  BY <1>3, <1>4, <1>5

\* What the edge does to master m.
LEMMA EdgeMaster ==
  ASSUME Wiring, ClockEdge, NEW m \in Masters
  PROVE  /\ Receives(m) => /\ mOut[m] \in Beats /\ Rid(mOut[m]) \in Ids
                           /\ Credited(m) \in Seq(1 .. MaxReads) /\ Credited(m) # <<>>
                           /\ Head(Credited(m)) \in 1 .. MaxReads
                           /\ got'[m] = [got[m] EXCEPT ![Head(Credited(m))] = Append(@, mOut[m])]
         /\ ~Receives(m) => got'[m] = got[m]
         /\ Receives(m) /\ mOut[m].last =>
              /\ answered'[m] = answered[m] \cup {Head(Credited(m))}
              /\ idOrder'[m] = [idOrder[m] EXCEPT ![Rid(mOut[m])] = Tail(Credited(m))]
         /\ ~(Receives(m) /\ mOut[m].last) => answered'[m] = answered[m] /\ idOrder'[m] = idOrder[m]
         /\ errReads'[m] = ErrReadsAfter(errReads[m])
<1>1. ASSUME Receives(m)
      PROVE  /\ mOut[m] \in Beats /\ Rid(mOut[m]) \in Ids
             /\ Credited(m) \in Seq(1 .. MaxReads) /\ Credited(m) # <<>>
             /\ Head(Credited(m)) \in 1 .. MaxReads
  <2>1. mOut[m] # None /\ Credited(m) # <<>>
    BY <1>1 DEF Receives
  <2>2. mOut[m] \in Beats /\ Rid(mOut[m]) \in Ids
    BY <2>1, EdgeFrame, ShownBeat DEF Wiring
  <2>3. Credited(m) \in Seq(1 .. MaxReads)
    BY <2>2 DEF Credited, Wiring, TypeOK
  <2> QED
    BY <2>1, <2>2, <2>3, HeadOf
<1>2. got'[m] = IF Receives(m) THEN [got[m] EXCEPT ![Head(Credited(m))] = Append(@, mOut[m])]
                ELSE got[m]
  BY DEF ClockEdge
<1>3. answered'[m] = IF Receives(m) /\ mOut[m].last THEN answered[m] \cup {Head(Credited(m))}
                     ELSE answered[m]
  BY DEF ClockEdge
<1>4. idOrder'[m] = IF Receives(m) /\ mOut[m].last
                      THEN [idOrder[m] EXCEPT ![Rid(mOut[m])] = Tail(Credited(m))]
                      ELSE idOrder[m]
  BY DEF ClockEdge, Credited
<1>5. errReads'[m] = ErrReadsAfter(errReads[m])
  BY DEF ClockEdge
<1> QED
  BY <1>1, <1>2, <1>3, <1>4, <1>5

LEMMA EdgeTypeOK ==
  ASSUME Wiring, ClockEdge
  PROVE  TypeOK'
<1>1. /\ settling' = TRUE /\ trigger' \in BOOLEAN
      /\ UNCHANGED <<reads, arDone, released, arWire, mOut, sReady, inMem, lost>>
  BY EdgeFrame
<1>2. got' \in [Masters -> [1 .. MaxReads -> Seq(Beats)]]
  <2>1. ASSUME NEW m \in Masters PROVE got'[m] \in [1 .. MaxReads -> Seq(Beats)]
    <3>1. got[m] \in [1 .. MaxReads -> Seq(Beats)]
      BY DEF Wiring, TypeOK
    <3>2. ASSUME NEW n \in 1 .. MaxReads, mOut[m] \in Beats
          PROVE  Append(got[m][n], mOut[m]) \in Seq(Beats)
      BY <3>1, <3>2, AppendQueue
    <3>3. CASE Receives(m)
      <4> DEFINE h == Head(Credited(m))
      <4>1. /\ h \in 1 .. MaxReads /\ mOut[m] \in Beats
            /\ got'[m] = [got[m] EXCEPT ![h] = Append(got[m][h], mOut[m])]
        BY <3>3, EdgeMaster
      <4> HIDE DEF h
      <4> QED
        BY <3>1, <3>2, <4>1
    <3>4. CASE ~Receives(m)
      BY <3>1, <3>4, EdgeMaster
    <3> QED
      BY <3>3, <3>4
  <2>2. got' = [m \in Masters |-> got'[m]]
    BY DEF ClockEdge
  <2> QED
    BY <2>1, <2>2
<1>3. answered' \in [Masters -> SUBSET (1 .. MaxReads)]
  <2>1. ASSUME NEW m \in Masters PROVE answered'[m] \in SUBSET (1 .. MaxReads)
    <3>1. answered[m] \in SUBSET (1 .. MaxReads)
      BY DEF Wiring, TypeOK
    <3> QED
      BY <3>1, EdgeMaster, ZenonT(40)
  <2>2. answered' = [m \in Masters |-> answered'[m]]
    BY DEF ClockEdge
  <2> QED
    BY <2>1, <2>2
<1>4. idOrder' \in [Masters -> [Ids -> Seq(1 .. MaxReads)]]
  <2>1. ASSUME NEW m \in Masters PROVE idOrder'[m] \in [Ids -> Seq(1 .. MaxReads)]
    <3>1. idOrder[m] \in [Ids -> Seq(1 .. MaxReads)]
      BY DEF Wiring, TypeOK
    <3>2. ASSUME Receives(m) PROVE Tail(Credited(m)) \in Seq(1 .. MaxReads)
      BY <3>2, EdgeMaster, TailQueue
    <3> QED
      BY <3>1, <3>2, EdgeMaster, ZenonT(40)
  <2>2. idOrder' = [m \in Masters |-> idOrder'[m]]
    BY DEF ClockEdge
  <2> QED
    BY <2>1, <2>2
<1>5. errReads' \in [Masters -> Seq([n : 1 .. MaxReads, left : Nat \ {0}])]
  <2>1. \A m \in Masters : errReads'[m] \in Seq([n : 1 .. MaxReads, left : Nat \ {0}])
    BY ErrAfter, EdgeMaster DEF Wiring
  <2>2. errReads' = [m \in Masters |-> errReads'[m]]
    BY DEF ClockEdge
  <2> QED
    BY <2>1, <2>2
<1>6. ASSUME NEW s \in Slaves
      PROVE  /\ sOut'[s] \in Beats \cup {None} /\ rdQ'[s] \in Seq(Ref)
             /\ readOrder'[s] \in Seq(Masters)
  <2>1. rdQ[s] \in Seq(Ref) /\ readOrder[s] \in Seq(Masters) /\ sOut[s] \in Beats \cup {None}
    BY DEF Wiring, TypeOK
  <2>2. rdQ[s] # <<>> => Tail(rdQ[s]) \in Seq(Ref)
    BY <2>1, TailQueue
  <2>3. readOrder[s] # <<>> => Tail(readOrder[s]) \in Seq(Masters)
    BY <2>1, TailQueue
  <2>4. ASSUME Taken(s) PROVE Beat(sOut[s].m, sOut[s].n, sOut[s].k + 1) \in Beats
    <3>1. sOut[s].m \in Masters /\ sOut[s].n \in 1 .. MaxReads /\ sOut[s].k \in Nat \ {0}
      BY <2>4, ServedBeat DEF Taken, Wiring
    <3> QED
      BY <3>1, BeatTyped
  <2> QED
    BY <2>1, <2>2, <2>3, <2>4, EdgeSlave
<1>7. /\ sOut' \in [Slaves -> Beats \cup {None}] /\ rdQ' \in [Slaves -> Seq(Ref)]
      /\ readOrder' \in [Slaves -> Seq(Masters)]
  <2>1. /\ sOut' = [s \in Slaves |-> sOut'[s]] /\ rdQ' = [s \in Slaves |-> rdQ'[s]]
        /\ readOrder' = [s \in Slaves |-> readOrder'[s]]
    BY DEF ClockEdge
  <2> QED
    BY <2>1, <1>6
<1> QED
  BY <1>1, <1>2, <1>3, <1>4, <1>5, <1>7 DEF Wiring, TypeOK

LEMMA EdgeAsked ==
  ASSUME Wiring, ClockEdge
  PROVE  Asked'
<1>1. /\ Grows /\ Issued'
      /\ UNCHANGED <<reads, arDone, released, arWire, mOut, sReady, inMem, lost>>
  BY EdgeFrame
<1>2. QueuedWasAsked'
  <2>1. ASSUME NEW s \in Slaves, NEW i \in 1 .. Len(rdQ'[s])
        PROVE  \E j \in 1 .. Len(rdQ[s]) : rdQ'[s][i] = rdQ[s][j]
    <3>1. rdQ[s] \in Seq(Ref)
      BY DEF Wiring, TypeOK
    <3>2. CASE rdQ'[s] = rdQ[s]
      BY <3>2
    <3>3. CASE rdQ[s] # <<>> /\ rdQ'[s] = Tail(rdQ[s])
      <4>1. /\ Len(rdQ[s]) \in Nat \ {0} /\ Len(Tail(rdQ[s])) = Len(rdQ[s]) - 1
            /\ \A j \in 1 .. Len(rdQ[s]) - 1 : Tail(rdQ[s])[j] = rdQ[s][j + 1]
        BY <3>1, <3>3, TailQueue
      <4>2. i + 1 \in 1 .. Len(rdQ[s]) /\ rdQ'[s][i] = rdQ[s][i + 1]
        BY <4>1, <3>3
      <4> QED
        BY <4>2
    <3> QED
      BY <3>2, <3>3, EdgeSlave
  <2>2. ASSUME NEW s \in Slaves, NEW i \in 1 .. Len(rdQ'[s])
        PROVE  Mapped(rdQ'[s][i][1], rdQ'[s][i][2], s)
    BY <2>1 DEF Wiring, Asked, QueuedWasAsked
  <2> QED
    BY <2>2, <1>1 DEF QueuedWasAsked, Mapped, Read
<1>3. RefusedWasAsked'
  <2>1. ASSUME NEW m \in Masters, NEW k \in 1 .. Len(errReads'[m])
        PROVE  /\ Mapped(m, errReads'[m][k].n, Sink)
               /\ errReads'[m][k].left <= reads[m][errReads'[m][k].n].beats
    <3>1. errReads'[m] = ErrReadsAfter(errReads[m])
      BY EdgeMaster
    <3>2. PICK i \in 1 .. Len(errReads[m]) :
            /\ errReads'[m][k].n = errReads[m][i].n
            /\ errReads'[m][k].left <= errReads[m][i].left
      BY <3>1, ErrAfter DEF Wiring
    <3>3. /\ Mapped(m, errReads[m][i].n, Sink) /\ errReads[m][i].left \in Nat
          /\ errReads[m][i].left <= reads[m][errReads[m][i].n].beats
          /\ reads[m][errReads[m][i].n].beats \in Nat
      BY RefusedAsked DEF Wiring
    <3>4. errReads'[m][k].left \in Nat
      <4> DEFINE E == [n : 1 .. MaxReads, left : Nat \ {0}]
      <4>1. errReads'[m] \in Seq(E)
        BY <3>1, ErrAfter DEF Wiring
      <4>2. errReads'[m][k] \in E
        <5> HIDE DEF E
        <5> QED
          BY <4>1
      <4> QED
        BY <4>2
    <3> QED
      BY <3>2, <3>3, <3>4
  <2> QED
    BY <2>1, <1>1 DEF RefusedWasAsked, Mapped, Read
<1> QED
  BY <1>1, <1>2, <1>3, KeptDriven DEF Wiring, Asked

LEMMA EdgeBooked ==
  ASSUME Wiring, ClockEdge
  PROVE  Booked'
<1>1. arWire' = arWire
  BY EdgeFrame
<1>2. ASSUME NEW s \in Slaves
      PROVE  Len(rdQ'[s]) + Driven(s) <= Len(readOrder'[s])
  <2>1. /\ rdQ[s] \in Seq(Ref) /\ readOrder[s] \in Seq(Masters) /\ Driven(s) \in {0, 1}
        /\ Len(rdQ[s]) + Driven(s) <= Len(readOrder[s])
    BY DEF Wiring, TypeOK, Booked, Driven
  <2>2. rdQ[s] # <<>> => Len(Tail(rdQ[s])) = Len(rdQ[s]) - 1 /\ Len(rdQ[s]) \in Nat
    BY <2>1, TailQueue
  <2>3. readOrder[s] # <<>> => /\ Len(Tail(readOrder[s])) = Len(readOrder[s]) - 1
                               /\ Len(readOrder[s]) \in Nat
    BY <2>1, TailQueue
  <2>4. CASE rdQ'[s] = rdQ[s] /\ readOrder'[s] = readOrder[s]
    BY <2>1, <2>4
  <2>5. CASE /\ rdQ[s] # <<>> /\ readOrder[s] # <<>>
             /\ rdQ'[s] = Tail(rdQ[s]) /\ readOrder'[s] = Tail(readOrder[s])
    BY <2>1, <2>2, <2>3, <2>5, SMTT(30)
  <2> QED
    BY <2>4, <2>5, EdgeSlave
<1> QED
  BY <1>1, <1>2 DEF Booked, Driven

LEMMA EdgeServing ==
  ASSUME Wiring, ClockEdge
  PROVE  Serving'
<1>1. reads' = reads
  BY EdgeFrame
<1>2. ASSUME NEW s \in Slaves, sOut'[s] # None
      PROVE  /\ rdQ'[s] = rdQ[s] /\ rdQ[s] # <<>>
             /\ sOut'[s].k <= reads[Head(rdQ[s])[1]][Head(rdQ[s])[2]].beats
             /\ sOut'[s] = Beat(Head(rdQ[s])[1], Head(rdQ[s])[2], sOut'[s].k)
  <2>1. CASE ~Taken(s)
    BY <2>1, <1>2, EdgeSlave DEF Wiring, Serving, ShowsOldest
  <2>2. CASE Taken(s) /\ ~sOut[s].last
    <3>1. /\ rdQ[s] # <<>> /\ sOut[s].m = Head(rdQ[s])[1] /\ sOut[s].n = Head(rdQ[s])[2]
          /\ sOut[s].m \in Masters /\ sOut[s].n \in 1 .. MaxReads /\ sOut[s].k \in Nat \ {0}
      BY <2>2, ServedBeat DEF Taken, Wiring
    <3>2. Beat(sOut[s].m, sOut[s].n, sOut[s].k + 1).k = sOut[s].k + 1
      BY <3>1, BeatTyped
    <3> QED
      BY <3>1, <3>2, <2>2, EdgeSlave
  <2>3. ~(Taken(s) /\ sOut[s].last)
    BY <1>2, EdgeSlave
  <2> QED
    BY <2>1, <2>2, <2>3
<1> QED
  BY <1>1, <1>2 DEF Serving, ShowsOldest, Beat

LEMMA EdgeShown ==
  ASSUME Wiring, ClockEdge
  PROVE  Shown'
<1>1. /\ settling' = TRUE /\ trigger' \in BOOLEAN /\ Wired
      /\ UNCHANGED <<reads, mOut, sReady>>
      /\ ~trigger' => /\ \A m \in Masters : errReads[m] = <<>>
                      /\ \A s \in Slaves : ~Taken(s)
  BY EdgeFrame
<1>2. ASSUME ~trigger' PROVE Wired'
  <2>1. ASSUME NEW s \in Slaves PROVE sOut'[s] = sOut[s] /\ readOrder'[s] = readOrder[s]
    BY <1>1, <1>2, EdgeSlave
  <2>2. ASSUME NEW m \in Masters PROVE ~FromErr(m)
    BY <1>1, <1>2 DEF FromErr
  <2> QED
    BY <1>1, <2>1, <2>2 DEF Wired, ReadyMeansShown, FromSlave
<1> QED
  BY <1>1, <1>2 DEF Shown

LEMMA EdgeStep ==
  ASSUME Wiring, ClockEdge
  PROVE  Wiring'
BY EdgeTypeOK, EdgeAsked, EdgeBooked, EdgeServing, EdgeShown DEF Wiring

----------------------------------------------------------------------------
(* The delta cycle in which r_forward runs *)

\* Two slaves never show the same beat, nor a slave that of a refused read.
LEMMA BeatsDiffer ==
  ASSUME Wiring, NEW s \in Slaves, sOut[s] # None
  PROVE  /\ \A x \in Slaves : sOut[x] = sOut[s] => x = s
         /\ \A m \in Masters : errReads[m] # <<>> => ErrBeat(m) # sOut[s]
<1>1. reads[sOut[s].m][sOut[s].n].dst = s
  BY ServedBeat DEF Wiring, Mapped
<1>2. ASSUME NEW x \in Slaves, sOut[x] = sOut[s] PROVE x = s
  BY <1>1, <1>2, ServedBeat DEF Wiring, Mapped
<1>3. ASSUME NEW m \in Masters, errReads[m] # <<>>, ErrBeat(m) = sOut[s] PROVE FALSE
  BY <1>1, <1>3, ErrBeatTyped, Members DEF Wiring, Mapped
<1> QED
  BY <1>2, <1>3

LEMMA ForwardTyped ==
  ASSUME Wiring, NEW m \in Masters
  PROVE  ForwardTo(m) \in Beats \cup {None}
<1>1. CASE errReads[m] # <<>>
  BY <1>1, ErrBeatTyped DEF ForwardTo, Wiring
<1>2. CASE errReads[m] = <<>> /\ SourcesOf(m) # {}
  <2>1. First(SourcesOf(m)) \in Slaves
    BY <1>2, FirstIsOne DEF SourcesOf
  <2> QED
    BY <1>2, <2>1 DEF ForwardTo, Wiring, TypeOK
<1>3. CASE errReads[m] = <<>> /\ SourcesOf(m) = {}
  BY <1>3 DEF ForwardTo
<1> QED
  BY <1>1, <1>2, <1>3

\* What r_forward computes is what Wired asks of the wires.
LEMMA ForwardWires ==
  ASSUME Wiring
  PROVE  /\ \A s \in Slaves :
              Consumed(s) <=> /\ sOut[s] # None /\ readOrder[s] # <<>>
                              /\ ForwardTo(Head(readOrder[s])) = sOut[s]
         /\ \A m \in Masters : ForwardTo(m) # None =>
              \/ \E s \in Slaves : Consumed(s) /\ Head(readOrder[s]) = m /\ ForwardTo(m) = sOut[s]
              \/ errReads[m] # <<>> /\ ForwardTo(m) = ErrBeat(m)
<1>1. ASSUME NEW m \in Masters, SourcesOf(m) # {}
      PROVE  /\ First(SourcesOf(m)) \in Slaves /\ readOrder[First(SourcesOf(m))] # <<>>
             /\ Head(readOrder[First(SourcesOf(m))]) = m
  BY <1>1, FirstIsOne DEF SourcesOf
<1>2. ASSUME NEW s \in Slaves, Consumed(s)
      PROVE  sOut[s] # None /\ readOrder[s] # <<>> /\ ForwardTo(Head(readOrder[s])) = sOut[s]
  <2>1. PICK m \in Masters : /\ errReads[m] = <<>> /\ SourcesOf(m) # {}
                             /\ First(SourcesOf(m)) = s /\ sOut[s] # None
    BY <1>2 DEF Consumed
  <2> QED
    BY <2>1, <1>1 DEF ForwardTo
<1>3. ASSUME NEW s \in Slaves, sOut[s] # None, readOrder[s] # <<>>,
             ForwardTo(Head(readOrder[s])) = sOut[s]
      PROVE  Consumed(s)
  <2> DEFINE m == Head(readOrder[s])
  <2>1. readOrder[s] \in Seq(Masters)
    BY DEF Wiring, TypeOK
  <2>2. m \in Masters /\ s \in SourcesOf(m)
    BY <1>3, <2>1, HeadOf DEF SourcesOf
  <2>3. errReads[m] = <<>>
    BY <1>3, <2>2, BeatsDiffer DEF ForwardTo
  <2>4. First(SourcesOf(m)) \in Slaves /\ sOut[First(SourcesOf(m))] = sOut[s]
    BY <1>1, <1>3, <2>2, <2>3 DEF ForwardTo
  <2>5. First(SourcesOf(m)) = s
    BY <1>3, <2>4, BeatsDiffer
  <2> QED
    BY <1>3, <2>2, <2>3, <2>5 DEF Consumed
<1>4. ASSUME NEW m \in Masters, ForwardTo(m) # None
      PROVE  \/ \E s \in Slaves : Consumed(s) /\ Head(readOrder[s]) = m /\ ForwardTo(m) = sOut[s]
             \/ errReads[m] # <<>> /\ ForwardTo(m) = ErrBeat(m)
  <2>1. CASE errReads[m] # <<>>
    BY <2>1 DEF ForwardTo
  <2>2. CASE errReads[m] = <<>>
    <3>1. SourcesOf(m) # {} /\ ForwardTo(m) = sOut[First(SourcesOf(m))]
      BY <1>4, <2>2 DEF ForwardTo
    <3>2. /\ First(SourcesOf(m)) \in Slaves /\ Head(readOrder[First(SourcesOf(m))]) = m
          /\ Consumed(First(SourcesOf(m)))
      BY <1>1, <1>4, <2>2, <3>1 DEF Consumed
    <3> QED
      BY <3>1, <3>2
  <2> QED
    BY <2>1, <2>2
<1> QED
  BY <1>2, <1>3, <1>4

LEMMA SettleStep ==
  ASSUME Wiring, Settle
  PROVE  Wiring'
<1>1. /\ settling' = FALSE /\ trigger' = FALSE
      /\ UNCHANGED <<reads, arDone, idOrder, got, answered, released, readOrder, errReads, arWire,
                     rdQ, inMem, sOut, lost>>
  BY DEF Settle, masterVars, slaveVars
<1>2. ASSUME trigger
      PROVE  mOut' \in [Masters -> Beats \cup {None}] /\ sReady' \in [Slaves -> BOOLEAN] /\ Wired'
  <2>1. /\ mOut' = [m \in Masters |-> ForwardTo(m)]
        /\ sReady' = [s \in Slaves |-> Consumed(s)]
    BY <1>2 DEF Settle
  <2>2. mOut' \in [Masters -> Beats \cup {None}]
    BY <2>1, ForwardTyped
  <2>3. sReady' \in [Slaves -> BOOLEAN]
    <3>1. \A s \in Slaves : Consumed(s) \in BOOLEAN
      BY DEF Consumed
    <3> QED
      BY <2>1, <3>1
  <2>4. Wired'
    <3>1. ASSUME NEW s \in Slaves PROVE ReadyMeansShown(s)'
      <4>1. sReady'[s] = Consumed(s)
        BY <2>1
      <4>2. readOrder[s] # <<>> => mOut'[Head(readOrder[s])] = ForwardTo(Head(readOrder[s]))
        <5>1. readOrder[s] \in Seq(Masters)
          BY DEF Wiring, TypeOK
        <5> QED
          BY <5>1, <2>1, HeadOf
      <4>3. Consumed(s) <=> /\ sOut[s] # None /\ readOrder[s] # <<>>
                            /\ ForwardTo(Head(readOrder[s])) = sOut[s]
        BY ForwardWires
      <4> QED
        BY <4>1, <4>2, <4>3, <1>1 DEF ReadyMeansShown
    <3>2. ASSUME NEW m \in Masters, mOut'[m] # None
          PROVE  (\E s \in Slaves : FromSlave(m, s)') \/ FromErr(m)'
      <4>1. mOut'[m] = ForwardTo(m)
        BY <2>1
      <4>2. CASE errReads[m] # <<>> /\ ForwardTo(m) = ErrBeat(m)
        BY <4>1, <4>2, <1>1 DEF FromErr, ErrBeat, Beat
      <4>3. ASSUME NEW s \in Slaves, Consumed(s), Head(readOrder[s]) = m, ForwardTo(m) = sOut[s]
            PROVE  FromSlave(m, s)'
        BY <4>1, <4>3, <2>1, <1>1 DEF FromSlave
      <4> QED
        BY <3>2, <4>1, <4>2, <4>3, ForwardWires
    <3> QED
      BY <3>1, <3>2 DEF Wired
  <2> QED
    BY <2>2, <2>3, <2>4
<1>3. ASSUME ~trigger
      PROVE  mOut' \in [Masters -> Beats \cup {None}] /\ sReady' \in [Slaves -> BOOLEAN] /\ Wired'
  <2>1. UNCHANGED <<mOut, sReady>>
    BY <1>3 DEF Settle
  <2>2. Wired
    BY <1>3 DEF Wiring, Shown
  <2>3. Wired'
    BY <1>1, <2>1, <2>2 DEF Wired, ReadyMeansShown, FromSlave, FromErr, ErrBeat, Beat
  <2>4. mOut' \in [Masters -> Beats \cup {None}] /\ sReady' \in [Slaves -> BOOLEAN]
    BY <2>1 DEF Wiring, TypeOK
  <2> QED
    BY <2>3, <2>4
<1>4. mOut' \in [Masters -> Beats \cup {None}] /\ sReady' \in [Slaves -> BOOLEAN] /\ Wired'
  BY <1>2, <1>3
<1>5. TypeOK'
  BY <1>1, <1>4 DEF Wiring, TypeOK
<1>6. Grows /\ Issued'
  BY <1>1, SameGrows DEF Wiring, Asked
<1>7. Asked'
  BY <1>1, <1>6, KeptQueued, KeptDriven, KeptRefused DEF Wiring, Asked
<1>8. Booked'
  BY <1>1 DEF Wiring, Booked, Driven
<1>9. Serving'
  BY <1>1, <1>6, KeptServing DEF Wiring
<1>10. Shown'
  BY <1>1, <1>4 DEF Shown
<1> QED
  BY <1>5, <1>7, <1>8, <1>9, <1>10 DEF Wiring

----------------------------------------------------------------------------
(* The theorems *)

LEMMA WiringInit == Init => Wiring
<1> SUFFICES ASSUME Init PROVE Wiring
  OBVIOUS
<1>1. /\ \A S : <<>> \in Seq(S)
      /\ Len(<<>>) = 0 /\ 0 \in Nat /\ \A i \in 1 .. 0 : FALSE
  OBVIOUS
<1>2. TypeOK
  <2>1. /\ reads \in [Masters -> Seq(Shapes)] /\ arDone \in [Masters -> Nat]
        /\ idOrder \in [Masters -> [Ids -> Seq(1 .. MaxReads)]]
        /\ got \in [Masters -> [1 .. MaxReads -> Seq(Beats)]]
    BY <1>1 DEF Init
  <2>2. /\ answered \in [Masters -> SUBSET (1 .. MaxReads)]
        /\ released \in [Masters -> 0 .. MaxReads]
    BY BusReadAssumption DEF Init
  <2>3. /\ readOrder \in [Slaves -> Seq(Masters)] /\ rdQ \in [Slaves -> Seq(Ref)]
        /\ errReads \in [Masters -> Seq([n : 1 .. MaxReads, left : Nat \ {0}])]
    BY <1>1 DEF Init
  <2>4. /\ arWire \in [Slaves -> Ref \cup {None}] /\ mOut \in [Masters -> Beats \cup {None}]
        /\ sOut \in [Slaves -> Beats \cup {None}] /\ sReady \in [Slaves -> BOOLEAN]
        /\ inMem \in [Slaves -> SUBSET Ref] /\ lost \in SUBSET Ref
        /\ trigger \in BOOLEAN /\ settling \in BOOLEAN
    BY DEF Init
  <2> QED
    BY <2>1, <2>2, <2>3, <2>4 DEF TypeOK
<1>3. Asked
  BY <1>1, BusReadAssumption DEF Init, Asked, Issued, QueuedWasAsked, DrivenWasAsked, RefusedWasAsked
<1>4. Booked /\ Serving
  BY <1>1 DEF Init, Booked, Driven, Serving
<1>5. Shown
  BY DEF Init, Shown, Wired, ReadyMeansShown
<1> QED
  BY <1>2, <1>3, <1>4, <1>5 DEF Wiring

LEMMA IdleStep == ASSUME Wiring, UNCHANGED vars PROVE Wiring'
<1>1. UNCHANGED <<reads, arDone, idOrder, got, answered, released, readOrder, errReads, arWire,
                  mOut, sReady, settling, trigger, rdQ, inMem, sOut, lost>>
  BY DEF vars, masterVars, wireVars, slaveVars
<1>2. Grows /\ Issued'
  BY <1>1, SameGrows DEF Wiring, Asked
<1>3. TypeOK'
  BY <1>1 DEF Wiring, TypeOK
<1>4. Asked'
  BY <1>1, <1>2, KeptQueued, KeptDriven, KeptRefused DEF Wiring, Asked
<1>5. Booked'
  BY <1>1 DEF Wiring, Booked, Driven
<1>6. Serving'
  BY <1>1, <1>2, KeptServing DEF Wiring
<1>7. Shown'
  BY <1>1, <1>2, KeptShown DEF Wiring
<1> QED
  BY <1>3, <1>4, <1>5, <1>6, <1>7 DEF Wiring

LEMMA WiringNext == Wiring /\ [Next]_vars => Wiring'
<1> SUFFICES ASSUME Wiring, [Next]_vars PROVE Wiring'
  OBVIOUS
<1>1. ASSUME NEW m \in Masters, NEW r \in Shapes, IssueRead(m, r) PROVE Wiring'
  BY <1>1, IssueStep
<1>2. ASSUME NEW m \in Masters, ArStep(m) PROVE Wiring'
  BY <1>2, DecerrStep, ForwardStep DEF ArStep
<1>3. ASSUME NEW m \in Masters, ReleaseRead(m) PROVE Wiring'
  BY <1>3, ReleaseStep
<1>4. ASSUME NEW s \in Slaves, SlaveAr(s) PROVE Wiring'
  BY <1>4, SlaveArStep
<1>5. ASSUME NEW s \in Slaves, MemStep(s) PROVE Wiring'
  BY <1>5, MemStepKept
<1>6. ASSUME NEW s \in Slaves, SlaveRValid(s) PROVE Wiring'
  BY <1>6, RValidStep
<1>7. CASE UNCHANGED vars
  BY <1>7, IdleStep
<1> QED
  BY <1>1, <1>2, <1>3, <1>4, <1>5, <1>6, <1>7, EdgeStep, SettleStep DEF Next

\* Whatever is queued, driven or refused was issued and taken, a slave shows a beat of its oldest
\* read, and outside a delta cycle the R wires say the same to both of their ends.
THEOREM ReadWiring == Spec => []Wiring
BY WiringInit, WiringNext, PTL DEF Spec

\* Queues, wires and slots hold entries of their kind (axi_bus.h, axi_master.h, axi_slave.h).
THEOREM ReadTypeCorrect == Spec => []TypeOK
<1>1. Wiring => TypeOK
  BY DEF Wiring
<1> QED
  BY <1>1, ReadWiring, PTL

\* r_forward runs only when something wakes it, yet when the wires have settled a slave sees
\* RREADY exactly if the master at the head of its read_order_ is shown its current beat: no beat
\* is dropped unseen, none is shown and kept (axi_bus.h, r_forward and r_advance).
THEOREM BeatsAlwaysCrossOnce == Spec => []BeatsCrossOnce
<1>1. Wiring => BeatsCrossOnce
  BY DEF Wiring, Shown, Wired, ReadyMeansShown, BeatsCrossOnce
<1> QED
  BY <1>1, ReadWiring, PTL

----------------------------------------------------------------------------
(* What buses deliver on which every AR pulse finds room and the reads of an id all have *)
(* one destination.                                                                      *)

\* A slave and its memory model hold as many reads as all masters have tickets for
\* (one read more fits into rd_q_, since r_thread holds the head).
Roomy == NumM * Pool <= MemCap /\ NumM * Pool <= RdCap + 1

\* The reads of an id go to one slave, or are all refused.
Dedicated == \A a, b \in Shapes : a.id = b.id => a.dst = b.dst

\* The bus books a slave's reads in the order in which the slave has them.
AlignedAt(s) ==
  /\ Len(readOrder[s]) = Len(rdQ[s]) + Driven(s)
  /\ \A i \in 1 .. Len(rdQ[s]) : readOrder[s][i] = rdQ[s][i][1]
  /\ arWire[s] # None => readOrder[s][Len(rdQ[s]) + 1] = arWire[s][1]
Aligned == \A s \in Slaves : AlignedAt(s)

\* A slave has the reads of each master in the order of their issue, the memory model
\* some of those queued, and not the one whose beats are shown.
Rising(q) == \A i, j \in 1 .. Len(q) : i < j /\ q[i][1] = q[j][1] => q[i][2] < q[j][2]
InOrderAt(s) ==
  /\ Rising(rdQ[s])
  /\ arWire[s] # None =>
       \A i \in 1 .. Len(rdQ[s]) : rdQ[s][i][1] = arWire[s][1] => rdQ[s][i][2] < arWire[s][2]
  /\ \A r \in inMem[s] : Holds(rdQ[s], r)
  /\ sOut[s] # None => Head(rdQ[s]) \notin inMem[s]
InOrder == \A s \in Slaves : InOrderAt(s)

\* A mapped read is queued at its slave or driven at it from its AR handshake until it
\* is answered.
Open(s, r) == Holds(rdQ[s], r) \/ arWire[s] = r
TrackedRead(m, n, s) ==
  /\ Open(s, <<m, n>>) <=> n <= arDone[m] /\ n \notin answered[m]
  /\ n \in answered[m] => n <= arDone[m]
Tracked ==
  /\ \A m \in Masters : \A n \in answered[m] : Read(m, n)
  /\ \A m \in Masters : \A n \in 1 .. MaxReads : \A s \in Slaves :
       Read(m, n) /\ reads[m][n].dst = s => TrackedRead(m, n, s)

\* An id's queue holds its unanswered reads, oldest first.
Ascending(q) == \A j, k \in 1 .. Len(q) : j < k => q[j] < q[k]
QueueOf(m, i) ==
  /\ Ascending(idOrder[m][i])
  /\ \A n \in 1 .. MaxReads :
       Holds(idOrder[m][i], n) <=> Read(m, n) /\ reads[m][n].id = i /\ n \notin answered[m]
IdQueues == \A m \in Masters : \A i \in Ids : QueueOf(m, i)

\* The slot of a mapped read holds the beats its slave has handed over so far.
Filled(m, n, s) == IF sOut[s] # None /\ Head(rdQ[s]) = <<m, n>> THEN sOut[s].k - 1 ELSE 0
SlotFilled(m, n, s) ==
  /\ \A j \in 1 .. Len(got[m][n]) : got[m][n][j] = Beat(m, n, j)
  /\ Len(got[m][n]) = IF n \in answered[m] THEN reads[m][n].beats ELSE Filled(m, n, s)
Slots ==
  \A m \in Masters : \A n \in 1 .. MaxReads :
    /\ ~Read(m, n) => got[m][n] = <<>>
    /\ \A s \in Slaves : Read(m, n) /\ reads[m][n].dst = s => SlotFilled(m, n, s)

Tickets ==
  \A m \in Masters : /\ \A n \in 1 .. released[m] : n \in answered[m]
                     /\ Len(reads[m]) - released[m] <= Pool

Delivery == Aligned /\ InOrder /\ Tracked /\ IdQueues /\ Slots /\ Tickets /\ NoArLost

----------------------------------------------------------------------------
(* What a step leaves alone *)

LEMMA KeptAligned ==
  ASSUME Aligned, UNCHANGED <<readOrder, rdQ, arWire>>
  PROVE  Aligned'
BY DEF Aligned, AlignedAt, Driven

LEMMA KeptInOrder ==
  ASSUME InOrder, UNCHANGED <<rdQ, arWire, inMem, sOut>>
  PROVE  InOrder'
BY DEF InOrder, InOrderAt, Rising, Holds

LEMMA KeptTracked ==
  ASSUME Tracked, UNCHANGED <<reads, arDone, answered, rdQ, arWire>>
  PROVE  Tracked'
BY ZenonT(40) DEF Tracked, TrackedRead, Open, Holds, Read

LEMMA KeptIdQueues ==
  ASSUME IdQueues, UNCHANGED <<reads, idOrder, answered>>
  PROVE  IdQueues'
BY DEF IdQueues, QueueOf, Ascending, Holds, Read

LEMMA KeptSlots ==
  ASSUME Slots, UNCHANGED <<reads, got, answered, rdQ, sOut>>
  PROVE  Slots'
<1>1. ASSUME NEW m \in Masters, NEW n \in 1 .. MaxReads, NEW s \in Slaves, SlotFilled(m, n, s)
      PROVE  SlotFilled(m, n, s)'
  <2>1. Filled(m, n, s)' = Filled(m, n, s)
    BY DEF Filled
  <2>2. \A j : Beat(m, n, j)' = Beat(m, n, j)
    BY DEF Beat
  <2> QED
    BY <1>1, <2>1, <2>2 DEF SlotFilled
<1> QED
  BY <1>1 DEF Slots, Read

LEMMA KeptTickets ==
  ASSUME Tickets, UNCHANGED <<reads, released, answered>>
  PROVE  Tickets'
BY DEF Tickets

\* The reads of a slave's queue are pairwise different, and none is being driven at it.
LEMMA RisingDistinct ==
  ASSUME NEW q \in Seq(Ref), Rising(q)
  PROVE  Distinct(q)
<1>1. ASSUME NEW i \in 1 .. Len(q) PROVE q[i][2] \in Int
  <2>1. q[i] \in Ref
    BY ElementOfSeq
  <2>2. q[i][2] \in 1 .. MaxReads
    BY <2>1, RefNotNone
  <2> QED
    BY <2>2
<1>2. ASSUME NEW i \in 1 .. Len(q), NEW j \in 1 .. Len(q), q[i] = q[j] PROVE ~(i < j)
  BY <1>1, <1>2 DEF Rising
<1>3. ASSUME NEW i \in 1 .. Len(q), NEW j \in 1 .. Len(q), q[i] = q[j] PROVE i = j
  <2>1. ~(i < j) /\ ~(j < i)
    BY <1>2, <1>3
  <2> QED
    BY <2>1
<1> QED
  BY <1>3 DEF Distinct

LEMMA AscendingDistinct ==
  ASSUME NEW q \in Seq(1 .. MaxReads), Ascending(q)
  PROVE  Distinct(q)
<1>1. ASSUME NEW i \in 1 .. Len(q) PROVE q[i] \in Int
  <2>1. q[i] \in 1 .. MaxReads
    BY ElementOfSeq
  <2> QED
    BY <2>1
<1>2. ASSUME NEW i \in 1 .. Len(q), NEW j \in 1 .. Len(q), q[i] = q[j] PROVE ~(i < j)
  BY <1>1, <1>2 DEF Ascending
<1>3. ASSUME NEW i \in 1 .. Len(q), NEW j \in 1 .. Len(q), q[i] = q[j] PROVE i = j
  <2>1. ~(i < j) /\ ~(j < i)
    BY <1>2, <1>3
  <2> QED
    BY <2>1
<1> QED
  BY <1>3 DEF Distinct

LEMMA QueuedAsked ==
  ASSUME TypeOK, Asked, NEW s \in Slaves, NEW r, r # None, Open(s, r)
  PROVE  r \in Ref /\ r[1] \in Masters /\ r[2] \in 1 .. MaxReads /\ Mapped(r[1], r[2], s)
<1>1. CASE Holds(rdQ[s], r)
  <2>1. PICK i \in 1 .. Len(rdQ[s]) : rdQ[s][i] = r
    BY <1>1 DEF Holds
  <2> QED
    BY <2>1, QueuedTyped DEF Asked, QueuedWasAsked
<1>2. CASE arWire[s] = r
  <2>1. r \in Ref
    BY <1>2 DEF TypeOK
  <2> QED
    BY <2>1, <1>2, RefNotNone DEF Asked, DrivenWasAsked
<1> QED
  BY <1>1, <1>2 DEF Open

----------------------------------------------------------------------------
(* The steps between clock edges *)

LEMMA IssueDelivers ==
  ASSUME Wiring, Delivery, NEW m \in Masters, NEW r \in Shapes, IssueRead(m, r)
  PROVE  Delivery'
<1> DEFINE n0 == Len(reads[m]) + 1
<1>1. /\ Grows /\ reads'[m][n0] = r /\ Len(reads'[m]) = n0 /\ n0 \in 1 .. MaxReads
      /\ Len(reads[m]) \in Nat /\ \A a \in Masters : a # m => reads'[a] = reads[a]
  BY IssueGrows DEF Wiring, Asked
<1>2. /\ UNCHANGED <<arDone, got, answered, released, readOrder, errReads, arWire, mOut, sReady,
                     settling, trigger, rdQ, inMem, sOut, lost>>
      /\ Len(reads[m]) - released[m] < Pool
      /\ idOrder' = [idOrder EXCEPT ![m][r.id] = Append(idOrder[m][r.id], n0)]
  BY DEF IssueRead, wireVars, slaveVars
<1> HIDE DEF n0
<1>3. Aligned' /\ InOrder' /\ NoArLost'
  BY <1>2, KeptAligned, KeptInOrder DEF Delivery, NoArLost
<1>4. ASSUME NEW a \in Masters, NEW n \in 1 .. MaxReads
      PROVE  /\ Read(a, n) => Read(a, n)' /\ reads'[a][n] = reads[a][n]
                              /\ \A k : Beat(a, n, k)' = Beat(a, n, k)
             /\ Read(a, n)' /\ ~Read(a, n) => a = m /\ n = n0
             /\ a = m /\ n = n0 => ~Read(a, n) /\ n \notin answered[a]
  <2>1. Read(a, n) => Read(a, n)' /\ reads'[a][n] = reads[a][n] /\ \A k : Beat(a, n, k)' = Beat(a, n, k)
    BY <1>1, GrownRead
  <2>2. Read(a, n)' /\ ~Read(a, n) => a = m /\ n = n0
    BY <1>1 DEF Read, n0
  <2>3. a = m /\ n = n0 => ~Read(a, n)
    BY <1>1 DEF Read, n0
  <2>4. n \in answered[a] => Read(a, n)
    BY DEF Delivery, Tracked
  <2> QED
    BY <2>1, <2>2, <2>3, <2>4
<1>5. ASSUME NEW s \in Slaves PROVE ~Open(s, <<m, n0>>)
  <2>1. <<m, n0>> # None
    BY <1>1, RefNotNone DEF Ref
  <2>2. ~Read(m, n0)
    BY <1>1, <1>4
  <2> QED
    BY <2>1, <2>2, QueuedAsked DEF Wiring, Mapped
<1>6. Tracked'
  <2>1. ASSUME NEW a \in Masters, NEW n \in answered[a] PROVE Read(a, n)'
    <3>1. Read(a, n)
      BY DEF Delivery, Tracked
    <3> QED
      BY <3>1, <1>1, GrownRead
  <2>2. ASSUME NEW a \in Masters, NEW n \in 1 .. MaxReads, NEW s \in Slaves,
               Read(a, n)', reads'[a][n].dst = s
        PROVE  TrackedRead(a, n, s)'
    <3>1. TrackedRead(a, n, s)
      <4>1. CASE Read(a, n)
        BY <4>1, <2>2, <1>4 DEF Delivery, Tracked
      <4>2. CASE ~Read(a, n)
        <5>1. a = m /\ n = n0 /\ ~Open(s, <<a, n>>) /\ n \notin answered[a]
          BY <4>2, <2>2, <1>4, <1>5
        <5>2. arDone[a] <= Len(reads[a]) /\ arDone[a] \in Nat
          BY DEF Wiring, Asked, Issued, TypeOK
        <5> QED
          BY <5>1, <5>2, <1>1 DEF TrackedRead, n0
      <4> QED
        BY <4>1, <4>2
    <3> QED
      BY <3>1, <1>2 DEF TrackedRead, Open, Holds
  <2> QED
    BY <2>1, <2>2, <1>2 DEF Tracked
<1>7. IdQueues'
  <2>1. idOrder \in [Masters -> [Ids -> Seq(1 .. MaxReads)]] /\ r.id \in Ids
    BY ShapeFields DEF Wiring, TypeOK
  <2> DEFINE q == idOrder[m][r.id]
  <2>2. q \in Seq(1 .. MaxReads)
    BY <2>1
  <2>3. /\ idOrder'[m][r.id] = Append(q, n0)
        /\ \A a \in Masters, i \in Ids : a # m \/ i # r.id => idOrder'[a][i] = idOrder[a][i]
    BY <1>2, <2>1
  <2>4. /\ Len(q) \in Nat /\ Len(Append(q, n0)) = Len(q) + 1 /\ Append(q, n0)[Len(q) + 1] = n0
        /\ \A j \in 1 .. Len(q) : Append(q, n0)[j] = q[j]
        /\ \A x : Holds(Append(q, n0), x) <=> Holds(q, x) \/ x = n0
    <3> DEFINE S == 1 .. MaxReads
    <3>1. n0 \in S /\ q \in Seq(S)
      BY <1>1, <2>2
    <3> HIDE DEF q, S
    <3> QED
      BY <3>1, AppendQueue
  <2>5. QueueOf(m, r.id)
    BY <2>1 DEF Delivery, IdQueues
  <2>6. Ascending(Append(q, n0))
    <3>1. ASSUME NEW j \in 1 .. Len(q) PROVE q[j] < n0
      <4>1. Holds(q, q[j]) /\ q[j] \in 1 .. MaxReads
        BY <2>2, ElementOfSeq DEF Holds
      <4>2. Read(m, q[j])
        BY <4>1, <2>5 DEF QueueOf
      <4> QED
        BY <4>2, <1>1 DEF Read, n0
    <3>2. Ascending(q)
      BY <2>5 DEF QueueOf
    <3> HIDE DEF q
    <3>3. \A j, k \in 1 .. Len(q) + 1 : j < k => j \in 1 .. Len(q) /\ (k \in 1 .. Len(q) \/ k = Len(q) + 1)
      BY <2>4
    <3> QED
      BY <3>1, <3>2, <3>3, <2>4 DEF Ascending
  <2>7. ASSUME NEW n \in 1 .. MaxReads
        PROVE  Holds(Append(q, n0), n) <=> Read(m, n)' /\ reads'[m][n].id = r.id /\ n \notin answered[m]
    <3>1. Holds(q, n) <=> Read(m, n) /\ reads[m][n].id = r.id /\ n \notin answered[m]
      BY <2>5 DEF QueueOf
    <3>2. CASE n = n0
      BY <3>2, <2>4, <1>1, <1>4 DEF Read
    <3>3. CASE n # n0
      BY <3>1, <3>3, <2>4, <1>4
    <3> QED
      BY <3>2, <3>3
  <2>8. ASSUME NEW a \in Masters, NEW i \in Ids, a # m \/ i # r.id PROVE QueueOf(a, i)'
    <3>1. QueueOf(a, i) /\ idOrder'[a][i] = idOrder[a][i]
      BY <2>3, <2>8 DEF Delivery, IdQueues
    <3>2. ASSUME NEW n \in 1 .. MaxReads
          PROVE  Read(a, n)' /\ reads'[a][n].id = i <=> Read(a, n) /\ reads[a][n].id = i
      <4>1. CASE Read(a, n)
        BY <4>1, <1>4
      <4>2. CASE ~Read(a, n)
        BY <4>2, <2>8, <1>1, <1>4
      <4> QED
        BY <4>1, <4>2
    <3> QED
      BY <3>1, <3>2, <1>2 DEF QueueOf
  <2>9. QueueOf(m, r.id)'
    BY <2>3, <2>6, <2>7, <1>2 DEF QueueOf
  <2> QED
    BY <2>8, <2>9 DEF IdQueues
<1>8. Slots'
  <2>1. ASSUME NEW a \in Masters, NEW n \in 1 .. MaxReads, ~Read(a, n)' PROVE got'[a][n] = <<>>
    BY <2>1, <1>2, <1>4 DEF Delivery, Slots
  <2>2. ASSUME NEW a \in Masters, NEW n \in 1 .. MaxReads, NEW s \in Slaves,
               Read(a, n)', reads'[a][n].dst = s
        PROVE  SlotFilled(a, n, s)'
    <3>1. Filled(a, n, s)' = Filled(a, n, s)
      BY <1>2 DEF Filled
    <3>2. CASE Read(a, n)
      <4>1. SlotFilled(a, n, s)
        BY <3>2, <2>2, <1>4 DEF Delivery, Slots
      <4>2. \A j : Beat(a, n, j)' = Beat(a, n, j) /\ reads'[a][n] = reads[a][n]
        BY <3>2, <1>4
      <4> QED
        BY <4>1, <4>2, <3>1, <1>2 DEF SlotFilled
    <3>3. CASE ~Read(a, n)
      <4>1. a = m /\ n = n0 /\ n \notin answered[a] /\ got[a][n] = <<>>
        BY <3>3, <2>2, <1>4 DEF Delivery, Slots
      <4>2. Filled(a, n, s) = 0
        <5>1. ~Holds(rdQ[s], <<a, n>>)
          BY <4>1, <1>5 DEF Open
        <5>2. rdQ[s] \in Seq(Ref)
          BY DEF Wiring, TypeOK
        <5>3. sOut[s] # None => rdQ[s] # <<>>
          BY DEF Wiring, Serving, ShowsOldest
        <5> QED
          BY <5>1, <5>2, <5>3, TailQueue DEF Filled
      <4> QED
        BY <4>1, <4>2, <3>1, <1>2 DEF SlotFilled
    <3> QED
      BY <3>2, <3>3
  <2> QED
    BY <2>1, <2>2 DEF Slots
<1>9. Tickets'
  <2>1. ASSUME NEW a \in Masters
        PROVE  /\ \A n \in 1 .. released[a] : n \in answered[a]
               /\ Len(reads'[a]) - released[a] <= Pool
    <3>1. /\ \A n \in 1 .. released[a] : n \in answered[a]
          /\ Len(reads[a]) - released[a] <= Pool
      BY DEF Delivery, Tickets
    <3>2. released[m] \in Nat /\ Pool \in Nat
      BY BusReadAssumption DEF Wiring, TypeOK
    <3>3. Len(reads'[m]) - released[m] <= Pool
      BY <3>2, <1>1, <1>2 DEF n0
    <3> QED
      BY <3>1, <3>3, <1>1
  <2> QED
    BY <2>1, <1>2 DEF Tickets
<1> QED
  BY <1>3, <1>6, <1>7, <1>8, <1>9 DEF Delivery

LEMMA ReleaseDelivers ==
  ASSUME Wiring, Delivery, NEW m \in Masters, ReleaseRead(m)
  PROVE  Delivery'
<1>1. /\ UNCHANGED <<reads, arDone, idOrder, got, answered, readOrder, arWire,
                     rdQ, inMem, sOut, lost>>
      /\ released' = [released EXCEPT ![m] = released[m] + 1] /\ released[m] + 1 \in answered[m]
  BY DEF ReleaseRead, wireVars, slaveVars
<1>2. ASSUME NEW a \in Masters
      PROVE  /\ \A n \in 1 .. released'[a] : n \in answered[a]
             /\ Len(reads[a]) - released'[a] <= Pool
  <2>1. /\ released[a] \in Nat /\ Len(reads[a]) \in Nat /\ Pool \in Nat
        /\ released'[a] = IF a = m THEN released[m] + 1 ELSE released[a]
    BY <1>1, BusReadAssumption DEF Wiring, TypeOK
  <2>2. /\ \A n \in 1 .. released[a] : n \in answered[a]
        /\ Len(reads[a]) - released[a] <= Pool
    BY DEF Delivery, Tickets
  <2>3. \A n \in 1 .. released[a] + 1 : n \in 1 .. released[a] \/ n = released[a] + 1
    BY <2>1
  <2> QED
    BY <2>1, <2>2, <2>3, <1>1
<1>3. Tickets'
  BY <1>1, <1>2 DEF Tickets
<1> QED
  BY <1>1, <1>3, KeptAligned, KeptInOrder, KeptTracked, KeptIdQueues, KeptSlots DEF Delivery, NoArLost

LEMMA DecerrDelivers ==
  ASSUME Wiring, Delivery, NEW m \in Masters, ArDecerr(m)
  PROVE  Delivery'
<1>1. /\ UNCHANGED <<reads, idOrder, got, answered, released, readOrder, arWire,
                     rdQ, inMem, sOut, lost>>
      /\ Read(m, arDone[m] + 1) /\ reads[m][arDone[m] + 1].dst = Sink
      /\ \A a \in Masters : a # m => arDone'[a] = arDone[a]
      /\ arDone'[m] = arDone[m] + 1
  BY DecerrTaken
<1>2. Tracked'
  <2>1. ASSUME NEW a \in Masters, NEW n \in 1 .. MaxReads, NEW s \in Slaves,
               Read(a, n), reads[a][n].dst = s
        PROVE  n <= arDone'[a] <=> n <= arDone[a]
    <3>1. n \in Nat /\ arDone[a] \in Nat
      BY DEF Wiring, TypeOK
    <3>2. a = m => n # arDone[m] + 1
      BY <2>1, <1>1, Members
    <3> QED
      BY <3>1, <3>2, <1>1
  <2>2. ASSUME NEW a \in Masters, NEW n \in 1 .. MaxReads, NEW s \in Slaves,
               Read(a, n), reads[a][n].dst = s
        PROVE  TrackedRead(a, n, s)'
    <3>1. TrackedRead(a, n, s)
      BY <2>2 DEF Delivery, Tracked
    <3> QED
      BY <3>1, <2>1, <2>2, <1>1 DEF TrackedRead, Open, Holds
  <2> QED
    BY <2>2, <1>1 DEF Delivery, Tracked, Read
<1> QED
  BY <1>1, <1>2, KeptAligned, KeptInOrder, KeptIdQueues, KeptSlots, KeptTickets DEF Delivery, NoArLost

LEMMA ForwardDelivers ==
  ASSUME Wiring, Delivery, NEW m \in Masters, ArForward(m)
  PROVE  Delivery'
<1>a. /\ arDone[m] + 1 \in Nat /\ reads[m][arDone[m] + 1].dst \in Slaves
      /\ <<m, arDone[m] + 1>> \in Ref
  <2>1. arDone[m] \in Nat
    BY DEF Wiring, TypeOK
  <2> QED
    BY <2>1, ForwardTaken
<1>b. PICK n0 \in Nat, s0 \in Slaves : n0 = arDone[m] + 1 /\ s0 = reads[m][arDone[m] + 1].dst
  BY <1>a
<1> DEFINE r0 == <<m, n0>>
<1>1. /\ reads' = reads /\ arDone'[m] = n0 /\ s0 \in Slaves /\ r0 \in Ref /\ Read(m, n0)
      /\ arWire[s0] = None /\ arWire' = [arWire EXCEPT ![s0] = r0]
      /\ readOrder' = [readOrder EXCEPT ![s0] = Append(@, m)]
      /\ \A a \in Masters : a # m => arDone'[a] = arDone[a]
      /\ UNCHANGED <<idOrder, got, answered, released, rdQ, inMem, sOut, lost>>
  BY <1>a, <1>b, ForwardTaken
<1>2. /\ arWire \in [Slaves -> Ref \cup {None}] /\ readOrder \in [Slaves -> Seq(Masters)]
      /\ rdQ \in [Slaves -> Seq(Ref)] /\ arDone[m] \in Nat
  BY DEF Wiring, TypeOK
<1> HIDE DEF r0
<1>3. /\ arWire'[s0] = r0 /\ r0 # None /\ r0[1] = m /\ r0[2] = n0
      /\ \A x \in Slaves : x # s0 => arWire'[x] = arWire[x]
  BY <1>1, <1>2, RefNotNone DEF r0
<1>4. /\ readOrder'[s0] = Append(readOrder[s0], m) /\ Len(readOrder[s0]) \in Nat
      /\ Len(Append(readOrder[s0], m)) = Len(readOrder[s0]) + 1
      /\ Append(readOrder[s0], m)[Len(readOrder[s0]) + 1] = m
      /\ \A i \in 1 .. Len(readOrder[s0]) : Append(readOrder[s0], m)[i] = readOrder[s0][i]
      /\ \A x \in Slaves : x # s0 => readOrder'[x] = readOrder[x]
  BY <1>1, <1>2, AppendQueue
<1>5. Aligned'
  <2>1. ASSUME NEW x \in Slaves, x # s0 PROVE AlignedAt(x)'
    <3>1. AlignedAt(x)
      BY DEF Delivery, Aligned
    <3> QED
      BY <3>1, <2>1, <1>1, <1>3, <1>4 DEF AlignedAt, Driven
  <2>2. AlignedAt(s0)'
    <3>1. AlignedAt(s0) /\ Driven(s0) = 0 /\ Len(rdQ[s0]) \in Nat
      BY <1>1, <1>2 DEF Delivery, Aligned, Driven
    <3>2. Len(readOrder[s0]) = Len(rdQ[s0])
      BY <3>1 DEF AlignedAt
    <3>3. Len(readOrder'[s0]) = Len(rdQ[s0]) + 1 /\ readOrder'[s0][Len(rdQ[s0]) + 1] = m
      BY <3>2, <1>4
    <3>4. \A i \in 1 .. Len(rdQ[s0]) : readOrder'[s0][i] = rdQ[s0][i][1]
      BY <3>1, <3>2, <1>4 DEF AlignedAt
    <3> QED
      BY <3>3, <3>4, <1>1, <1>3 DEF AlignedAt, Driven
  <2> QED
    BY <2>1, <2>2 DEF Aligned
<1>6. InOrder'
  <2>1. ASSUME NEW x \in Slaves PROVE InOrderAt(x)
    BY DEF Delivery, InOrder
  <2>2. ASSUME NEW x \in Slaves, x # s0 PROVE InOrderAt(x)'
    BY <2>1, <2>2, <1>1, <1>3 DEF InOrderAt, Rising, Holds
  <2>3. ASSUME NEW i \in 1 .. Len(rdQ[s0]), rdQ[s0][i][1] = m PROVE rdQ[s0][i][2] < n0
    <3>1. Mapped(m, rdQ[s0][i][2], s0) /\ rdQ[s0][i][2] \in 1 .. MaxReads
      BY <1>1, <2>3, QueuedTyped DEF Wiring, Asked, QueuedWasAsked
    <3>2. rdQ[s0][i][2] <= arDone[m]
      BY <3>1 DEF Mapped
    <3>3. n0 = arDone[m] + 1 /\ arDone[m] \in Nat
      BY <1>b, <1>2
    <3>4. rdQ[s0][i][2] \in Nat
      BY <3>1
    <3> QED
      BY <3>2, <3>3, <3>4
  <2>4. InOrderAt(s0)'
    BY <2>1, <2>3, <1>1, <1>3 DEF InOrderAt, Rising, Holds
  <2> QED
    BY <2>2, <2>4 DEF InOrder
<1>7. Tracked'
  <2>1. ASSUME NEW a \in Masters, NEW n \in 1 .. MaxReads, NEW s \in Slaves,
               Read(a, n), reads[a][n].dst = s
        PROVE  TrackedRead(a, n, s)'
    <3>1. TrackedRead(a, n, s) /\ n \in Nat /\ arDone[a] \in Nat
      <4>1. n \in Nat /\ arDone[a] \in Nat
        BY DEF Wiring, TypeOK
      <4>2. TrackedRead(a, n, s)
        BY <2>1 DEF Delivery, Tracked
      <4> QED
        BY <4>1, <4>2
    <3>2. Open(s, <<a, n>>)' <=> Open(s, <<a, n>>) \/ (a = m /\ n = n0)
      <4>1. <<a, n>> = r0 <=> a = m /\ n = n0
        BY DEF r0
      <4>2. <<a, n>> \in Ref
        BY DEF Ref
      <4>3. <<a, n>> # None
        BY <4>2, RefNotNone
      <4>4. a = m /\ n = n0 => s = s0
        BY <2>1, <1>b
      <4>5. CASE s = s0
        BY <4>1, <4>3, <4>5, <1>1, <1>3 DEF Open, Holds
      <4>6. CASE s # s0
        BY <4>4, <4>6, <1>1, <1>3 DEF Open, Holds
      <4> QED
        BY <4>5, <4>6
    <3>3. n <= arDone'[a] <=> n <= arDone[a] \/ (a = m /\ n = n0)
      BY <3>1, <1>1, <1>b
    <3>4. a = m /\ n = n0 => n \notin answered[a]
      BY <3>1, <1>2, <1>b DEF TrackedRead
    <3> QED
      BY <3>1, <3>2, <3>3, <3>4, <1>1 DEF TrackedRead
  <2> QED
    BY <2>1, <1>1 DEF Delivery, Tracked, Read
<1> QED
  BY <1>1, <1>5, <1>6, <1>7, KeptIdQueues, KeptSlots, KeptTickets DEF Delivery, NoArLost

\* The slave takes the AR pulse.
LEMMA TakeDelivers ==
  ASSUME Wiring, Delivery, NEW s \in Slaves, SlaveAr(s), SlaveAccepts(s)
  PROVE  Delivery'
<1> DEFINE r0 == arWire[s]
           q == rdQ[s]
<1>1. /\ r0 # None /\ arWire' = [arWire EXCEPT ![s] = None]
      /\ rdQ' = [rdQ EXCEPT ![s] = Append(q, r0)]
      /\ inMem' = [inMem EXCEPT ![s] = inMem[s] \cup {r0}] /\ lost' = lost
      /\ UNCHANGED <<reads, arDone, idOrder, got, answered, released, readOrder, sOut>>
  BY DEF SlaveAr, masterVars, wireVars
<1>2. /\ arWire \in [Slaves -> Ref \cup {None}] /\ rdQ \in [Slaves -> Seq(Ref)]
      /\ inMem \in [Slaves -> SUBSET Ref] /\ q \in Seq(Ref) /\ r0 \in Ref
  BY <1>1 DEF Wiring, TypeOK
<1>3. /\ arWire'[s] = None /\ rdQ'[s] = Append(q, r0) /\ inMem'[s] = inMem[s] \cup {r0}
      /\ \A x \in Slaves : x # s =>
           arWire'[x] = arWire[x] /\ rdQ'[x] = rdQ[x] /\ inMem'[x] = inMem[x]
  BY <1>1, <1>2
<1>4. /\ Len(q) \in Nat /\ Len(Append(q, r0)) = Len(q) + 1 /\ Append(q, r0)[Len(q) + 1] = r0
      /\ \A i \in 1 .. Len(q) : Append(q, r0)[i] = q[i]
      /\ \A x : Holds(Append(q, r0), x) <=> Holds(q, x) \/ x = r0
      /\ q # <<>> => Head(Append(q, r0)) = Head(q)
  <2> HIDE DEF q, r0
  <2> QED
    BY <1>2, AppendQueue, AppendHead
<1>5. AlignedAt(s) /\ InOrderAt(s) /\ Driven(s) = 1
  BY <1>1 DEF Delivery, Aligned, InOrder, Driven
<1> HIDE DEF q, r0
<1>6. /\ Len(readOrder[s]) = Len(q) + 1 /\ readOrder[s][Len(q) + 1] = r0[1]
      /\ \A i \in 1 .. Len(q) : readOrder[s][i] = q[i][1]
  BY <1>1, <1>5 DEF AlignedAt, q, r0
<1>7. \A i \in 1 .. Len(q) + 1 : i \in 1 .. Len(q) \/ i = Len(q) + 1
  BY <1>4
<1>8. Aligned'
  <2>1. ASSUME NEW x \in Slaves, x # s PROVE AlignedAt(x)'
    <3>1. AlignedAt(x)
      BY DEF Delivery, Aligned
    <3> QED
      BY <3>1, <2>1, <1>1, <1>3, ZenonT(40) DEF AlignedAt, Driven
  <2>2. AlignedAt(s)'
    <3>1. \A i \in 1 .. Len(q) + 1 : readOrder[s][i] = Append(q, r0)[i][1]
      BY <1>4, <1>6, <1>7
    <3>2. Driven(s)' = 0 /\ arWire'[s] = None /\ readOrder' = readOrder
      BY <1>1, <1>3 DEF Driven
    <3>3. Len(readOrder'[s]) = Len(rdQ'[s]) + Driven(s)'
      BY <3>2, <1>3, <1>4, <1>6
    <3>4. \A i \in 1 .. Len(rdQ'[s]) : readOrder'[s][i] = rdQ'[s][i][1]
      <4>1. rdQ'[s] = Append(q, r0) /\ Len(Append(q, r0)) = Len(q) + 1
        BY <1>3, <1>4
      <4> QED
        BY <3>1, <3>2, <4>1, Zenon
    <3> QED
      BY <3>2, <3>3, <3>4, Zenon DEF AlignedAt
  <2> QED
    BY <2>1, <2>2 DEF Aligned
<1>9. \A i \in 1 .. Len(q) : q[i][1] = r0[1] => q[i][2] < r0[2]
  BY <1>1, <1>5 DEF InOrderAt, q, r0
<1>10. InOrder'
  <2>1. ASSUME NEW x \in Slaves, x # s PROVE InOrderAt(x)'
    <3>1. InOrderAt(x)
      BY DEF Delivery, InOrder
    <3> QED
      BY <3>1, <2>1, <1>1, <1>3 DEF InOrderAt, Rising, Holds
  <2>2. InOrderAt(s)'
    <3>1. Rising(Append(q, r0))
      <4>1. Rising(q)
        BY <1>5 DEF InOrderAt, q
      <4>2. \A i, j \in 1 .. Len(q) + 1 : i < j => i \in 1 .. Len(q)
        BY <1>4
      <4> QED
        BY <4>1, <4>2, <1>4, <1>7, <1>9 DEF Rising
    <3>2. \A r \in inMem'[s] : Holds(Append(q, r0), r)
      BY <1>3, <1>4, <1>5 DEF InOrderAt, q
    <3>3. sOut[s] # None => Head(Append(q, r0)) \notin inMem'[s]
      <4>1. ASSUME sOut[s] # None
            PROVE  Head(Append(q, r0)) = Head(q) /\ Head(q) # r0 /\ Head(q) \notin inMem[s]
        <5>1. q # <<>> /\ Head(q) \notin inMem[s]
          BY <4>1, <1>5 DEF InOrderAt, Wiring, Serving, ShowsOldest, q
        <5>2. Head(q) = q[1] /\ 1 \in 1 .. Len(q)
          BY <5>1, <1>2, HeadOf
        <5>3. q[1] \in Ref /\ q[1][2] \in Int /\ r0[2] \in Int
          <6>1. q[1] \in Ref
            BY <5>2, <1>2, ElementOfSeq
          <6>2. q[1][2] \in 1 .. MaxReads /\ r0[2] \in 1 .. MaxReads
            BY <6>1, <1>2, RefNotNone
          <6> QED
            BY <6>1, <6>2
        <5>4. Head(q) # r0
          BY <5>2, <5>3, <1>9
        <5> QED
          BY <5>1, <5>4, <1>4
      <4> QED
        BY <4>1, <1>3
    <3> QED
      BY <3>1, <3>2, <3>3, <1>1, <1>3 DEF InOrderAt
  <2> QED
    BY <2>1, <2>2 DEF InOrder
<1>11. Tracked'
  <2>1. ASSUME NEW x \in Slaves, NEW r \in Ref PROVE Open(x, r)' <=> Open(x, r)
    <3>1. r # None
      BY RefNotNone
    <3>2. CASE x = s
      BY <3>1, <3>2, <1>3, <1>4 DEF Open, q, r0
    <3>3. CASE x # s
      BY <3>3, <1>3 DEF Open
    <3> QED
      BY <3>2, <3>3
  <2>2. ASSUME NEW a \in Masters, NEW n \in 1 .. MaxReads, NEW x \in Slaves, TrackedRead(a, n, x)
        PROVE  TrackedRead(a, n, x)'
    <3>1. <<a, n>> \in Ref
      BY DEF Ref
    <3>2. Open(x, <<a, n>>)' <=> Open(x, <<a, n>>)
      BY <3>1, <2>1
    <3> QED
      BY <2>2, <3>2, <1>1 DEF TrackedRead
  <2> QED
    BY <2>2, <1>1 DEF Delivery, Tracked, Read
<1>12. Slots'
  <2>1. ASSUME NEW a \in Masters, NEW n \in 1 .. MaxReads, NEW x \in Slaves
        PROVE  Filled(a, n, x)' = Filled(a, n, x)
    <3>1. sOut[x] # None => Head(rdQ'[x]) = Head(rdQ[x])
      <4>1. sOut[x] # None => rdQ[x] # <<>>
        BY DEF Wiring, Serving, ShowsOldest
      <4> QED
        BY <4>1, <1>3, <1>4 DEF q
    <3> QED
      BY <3>1, <1>1 DEF Filled
  <2>2. ASSUME NEW a \in Masters, NEW n \in 1 .. MaxReads, NEW x \in Slaves, SlotFilled(a, n, x)
        PROVE  SlotFilled(a, n, x)'
    <3>1. \A j : Beat(a, n, j)' = Beat(a, n, j)
      BY <1>1 DEF Beat
    <3> QED
      BY <2>1, <2>2, <3>1, <1>1 DEF SlotFilled
  <2> QED
    BY <2>2, <1>1 DEF Delivery, Slots, Read
<1> QED
  BY <1>1, <1>8, <1>10, <1>11, <1>12, KeptIdQueues, KeptTickets DEF Delivery, NoArLost

LEMMA MemDelivers ==
  ASSUME Wiring, Delivery, NEW s \in Slaves, MemStep(s)
  PROVE  Delivery'
<1>1. PICK r \in inMem[s] : MemComplete(s, r)
  BY DEF MemStep
<1>2. /\ inMem' = [inMem EXCEPT ![s] = inMem[s] \ {r}]
      /\ UNCHANGED <<reads, arDone, idOrder, got, answered, released, readOrder,
                     arWire, rdQ, sOut, lost>>
  BY <1>1 DEF MemComplete, masterVars, wireVars
<1>3. \A x \in Slaves : inMem'[x] \subseteq inMem[x]
  BY <1>2 DEF Wiring, TypeOK
<1>4. InOrder'
  BY <1>2, <1>3 DEF Delivery, InOrder, InOrderAt, Rising, Holds
<1> QED
  BY <1>2, <1>4, KeptAligned, KeptTracked, KeptIdQueues, KeptSlots, KeptTickets DEF Delivery, NoArLost

LEMMA RValidDelivers ==
  ASSUME Wiring, Delivery, NEW s \in Slaves, SlaveRValid(s)
  PROVE  Delivery'
<1> DEFINE b == Beat(Head(rdQ[s])[1], Head(rdQ[s])[2], 1)
<1>1. /\ sOut[s] = None /\ rdQ[s] # <<>> /\ Head(rdQ[s]) \notin inMem[s]
      /\ sOut' = [sOut EXCEPT ![s] = b]
      /\ UNCHANGED <<reads, arDone, idOrder, got, answered, released, readOrder,
                     arWire, rdQ, inMem, lost>>
  BY DEF SlaveRValid, masterVars, wireVars
<1>2. b.k = 1
  <2>1. Head(rdQ[s])[1] \in Masters /\ Head(rdQ[s])[2] \in 1 .. MaxReads
    BY <1>1, OldestAsked DEF Wiring
  <2> QED
    BY <2>1, BeatTyped
<1> HIDE DEF b
<1>3. sOut'[s] = b /\ \A x \in Slaves : x # s => sOut'[x] = sOut[x]
  BY <1>1 DEF Wiring, TypeOK
<1>4. InOrder'
  BY <1>1, <1>3 DEF Delivery, InOrder, InOrderAt, Rising, Holds
<1>5. Slots'
  <2>1. ASSUME NEW a \in Masters, NEW n \in 1 .. MaxReads, NEW x \in Slaves
        PROVE  Filled(a, n, x)' = Filled(a, n, x)
    BY <1>1, <1>2, <1>3 DEF Filled
  <2>2. ASSUME NEW a \in Masters, NEW n \in 1 .. MaxReads, NEW x \in Slaves, SlotFilled(a, n, x)
        PROVE  SlotFilled(a, n, x)'
    <3>1. \A j : Beat(a, n, j)' = Beat(a, n, j)
      BY <1>1 DEF Beat
    <3> QED
      BY <2>1, <2>2, <3>1, <1>1 DEF SlotFilled
  <2> QED
    BY <2>2, <1>1 DEF Delivery, Slots, Read
<1> QED
  BY <1>1, <1>4, <1>5, KeptAligned, KeptTracked, KeptIdQueues, KeptTickets DEF Delivery, NoArLost

LEMMA SettleDelivers ==
  ASSUME Delivery, Settle
  PROVE  Delivery'
<1>1. UNCHANGED <<reads, arDone, idOrder, got, answered, released, readOrder, arWire,
                  rdQ, inMem, sOut, lost>>
  BY DEF Settle, masterVars, slaveVars
<1> QED
  BY <1>1, KeptAligned, KeptInOrder, KeptTracked, KeptIdQueues, KeptSlots, KeptTickets
     DEF Delivery, NoArLost

----------------------------------------------------------------------------
(* The clock edge *)

\* The read credited with a beat is unanswered, and has the beat's id.
LEMMA CreditedRead ==
  ASSUME Wiring, Delivery, ClockEdge, NEW m \in Masters, Receives(m)
  PROVE  /\ Read(m, Head(Credited(m))) /\ Head(Credited(m)) \in 1 .. MaxReads
         /\ Head(Credited(m)) \notin answered[m]
         /\ reads[m][Head(Credited(m))].id = Rid(mOut[m]) /\ Rid(mOut[m]) \in Ids
<1> DEFINE q == idOrder[m][Rid(mOut[m])]
<1>1. /\ Rid(mOut[m]) \in Ids /\ Credited(m) = q /\ q # <<>> /\ q \in Seq(1 .. MaxReads)
      /\ Head(q) \in 1 .. MaxReads
  BY EdgeMaster DEF Credited
<1>2. Holds(q, Head(q))
  BY <1>1, TailQueue
<1>3. QueueOf(m, Rid(mOut[m]))
  BY <1>1 DEF Delivery, IdQueues
<1> QED
  BY <1>1, <1>2, <1>3 DEF QueueOf

\* A beat that a slave hands over is credited to the read it belongs to.
LEMMA TakenCredits ==
  ASSUME Wiring, Delivery, Dedicated, ClockEdge, NEW s \in Slaves, Taken(s)
  PROVE  /\ sOut[s].m \in Masters /\ sOut[s].n \in 1 .. MaxReads /\ sOut[s].k \in Nat \ {0}
         /\ Head(rdQ[s]) = <<sOut[s].m, sOut[s].n>> /\ rdQ[s] # <<>>
         /\ Mapped(sOut[s].m, sOut[s].n, s) /\ sOut[s].n \notin answered[sOut[s].m]
         /\ sOut[s] = Beat(sOut[s].m, sOut[s].n, sOut[s].k)
         /\ Head(readOrder[s]) = sOut[s].m /\ mOut[sOut[s].m] = sOut[s]
         /\ Receives(sOut[s].m) /\ Head(Credited(sOut[s].m)) = sOut[s].n
<1>1. /\ sOut[s].m \in Masters /\ sOut[s].n \in 1 .. MaxReads /\ sOut[s].k \in Nat \ {0}
      /\ rdQ[s] # <<>> /\ Head(rdQ[s]) \in Ref
      /\ sOut[s].m = Head(rdQ[s])[1] /\ sOut[s].n = Head(rdQ[s])[2]
      /\ Mapped(sOut[s].m, sOut[s].n, s)
      /\ sOut[s] = Beat(sOut[s].m, sOut[s].n, sOut[s].k)
  BY ServedBeat DEF Wiring, Taken
<1>2. PICK m \in Masters, n \in 1 .. MaxReads : m = sOut[s].m /\ n = sOut[s].n
  BY <1>1
<1>3. Head(rdQ[s]) = <<m, n>> /\ Mapped(m, n, s)
  BY <1>1, <1>2, RefNotNone
<1>4. rdQ[s] \in Seq(Ref) /\ readOrder[s] \in Seq(Masters)
  BY DEF Wiring, TypeOK
<1>5. rdQ[s][1] = <<m, n>> /\ 1 \in 1 .. Len(rdQ[s]) /\ Holds(rdQ[s], <<m, n>>)
  BY <1>1, <1>3, <1>4, TailQueue, HeadOf
<1>6. /\ readOrder[s] # <<>> /\ mOut[Head(readOrder[s])] = sOut[s] /\ sOut[s] # None
  BY EdgeFrame DEF Wired, ReadyMeansShown, Taken
<1>7. Head(readOrder[s]) = m
  <2>1. readOrder[s][1] = rdQ[s][1][1]
    BY <1>5 DEF Delivery, Aligned, AlignedAt
  <2>2. Head(readOrder[s]) = readOrder[s][1]
    BY <1>4, <1>6, HeadOf
  <2> QED
    BY <2>1, <2>2, <1>5
<1>8. /\ n <= arDone[m] /\ n \notin answered[m] /\ Read(m, n) /\ reads[m][n].dst = s
      /\ arDone[m] \in Nat /\ n \in Nat
  <2>1. Read(m, n) /\ reads[m][n].dst = s /\ n <= arDone[m]
    BY <1>3 DEF Mapped
  <2>2. TrackedRead(m, n, s) /\ Open(s, <<m, n>>)
    BY <2>1, <1>5 DEF Delivery, Tracked, Open
  <2>3. arDone[m] \in Nat /\ n \in Nat
    BY SMTT(30) DEF Wiring, TypeOK
  <2> QED
    BY <2>1, <2>2, <2>3 DEF TrackedRead
<1> DEFINE i == reads[m][n].id
           q == idOrder[m][i]
<1>9. mOut[m] = sOut[s] /\ Rid(mOut[m]) = i /\ i \in Ids /\ Credited(m) = q
  BY <1>2, <1>6, <1>7, <1>8, ReadTyped DEF Rid, Credited, Wiring, Asked
<1>10. QueueOf(m, i) /\ q \in Seq(1 .. MaxReads) /\ Holds(q, n)
  BY <1>8, <1>9 DEF Delivery, IdQueues, QueueOf, Wiring, TypeOK
<1>11. q # <<>>
  <2>1. PICK j \in 1 .. Len(q) : q[j] = n
    BY <1>10 DEF Holds
  <2> QED
    BY <2>1, EmptySeq
<1>12. Receives(m)
  BY <1>6, <1>9, <1>11 DEF Receives
<1>13. PICK h \in 1 .. MaxReads : h = Head(Credited(m))
  BY <1>12, CreditedRead
<1>14. Read(m, h) /\ h \notin answered[m] /\ reads[m][h].id = i
  BY <1>9, <1>12, <1>13, CreditedRead
<1>15. h <= n
  <2>1. PICK j \in 1 .. Len(q) : q[j] = n
    BY <1>10 DEF Holds
  <2>2. h = q[1] /\ 1 \in 1 .. Len(q)
    BY <1>9, <1>10, <1>11, <1>13, HeadOf
  <2>3. j = 1 \/ 1 < j
    BY <2>1
  <2>4. 1 < j => q[1] < q[j]
    BY <2>1, <2>2, <1>10 DEF QueueOf, Ascending
  <2> QED
    BY <2>1, <2>2, <2>3, <2>4
<1>16. reads[m][h].dst = s
  <2>1. reads[m][h] \in Shapes /\ reads[m][n] \in Shapes
    BY <1>8, <1>14, ReadTyped DEF Wiring, Asked
  <2> QED
    BY <2>1, <1>8, <1>14 DEF Dedicated
<1>17. Open(s, <<m, h>>)
  <2>1. TrackedRead(m, h, s)
    BY <1>14, <1>16 DEF Delivery, Tracked
  <2>2. h <= arDone[m]
    BY <1>8, <1>15
  <2> QED
    BY <2>1, <2>2, <1>14 DEF TrackedRead
<1>18. ~(h < n)
  <2>1. ASSUME NEW j \in 1 .. Len(rdQ[s]), rdQ[s][j] = <<m, h>> PROVE ~(h < n)
    <3>1. CASE j = 1
      BY <3>1, <2>1, <1>5
    <3>2. CASE 1 < j
      <4>1. rdQ[s][1][2] < rdQ[s][j][2]
        BY <3>2, <2>1, <1>5 DEF Delivery, InOrder, InOrderAt, Rising
      <4> QED
        BY <4>1, <2>1, <1>5
    <3> QED
      BY <3>1, <3>2
  <2>2. ASSUME arWire[s] = <<m, h>> PROVE ~(h < n)
    <3>1. <<m, h>> # None
      BY RefNotNone DEF Ref
    <3>2. rdQ[s][1][2] < arWire[s][2]
      BY <3>1, <2>2, <1>5 DEF Delivery, InOrder, InOrderAt
    <3> QED
      BY <3>2, <2>2, <1>5
  <2> QED
    BY <2>1, <2>2, <1>17 DEF Open, Holds
<1>19. h = n
  BY <1>15, <1>18
<1> QED
  BY <1>1, <1>2, <1>3, <1>6, <1>7, <1>8, <1>12, <1>13, <1>19

\* A beat that a master receives comes from the slave of the read it is credited to, or
\* belongs to a refused read and is credited to one.
LEMMA ReceivesFrom ==
  ASSUME Wiring, Delivery, Dedicated, ClockEdge, NEW m \in Masters, Receives(m)
  PROVE  \/ \E s \in Slaves : /\ Taken(s) /\ sOut[s].m = m /\ mOut[m] = sOut[s]
                              /\ Head(Credited(m)) = sOut[s].n
         \/ reads[m][Head(Credited(m))].dst = Sink /\ FromErr(m)
<1>1. mOut[m] # None
  BY DEF Receives
<1>2. ASSUME NEW s \in Slaves, FromSlave(m, s)
      PROVE  /\ Taken(s) /\ sOut[s].m = m /\ mOut[m] = sOut[s]
             /\ Head(Credited(m)) = sOut[s].n
  <2>1. Taken(s)
    BY <1>1, <1>2 DEF FromSlave, Taken
  <2>2. Head(readOrder[s]) = sOut[s].m /\ Head(Credited(sOut[s].m)) = sOut[s].n
    BY <2>1, TakenCredits
  <2> QED
    BY <1>2, <2>1, <2>2 DEF FromSlave
<1>3. ASSUME FromErr(m) PROVE reads[m][Head(Credited(m))].dst = Sink
  <2>1. /\ mOut[m].m = m /\ mOut[m].n = Head(errReads[m]).n
        /\ Mapped(m, Head(errReads[m]).n, Sink)
    BY <1>3, ErrBeatTyped DEF FromErr, Wiring
  <2>2. Read(m, mOut[m].n) /\ reads[m][mOut[m].n].dst = Sink
    BY <2>1 DEF Mapped
  <2>3. Rid(mOut[m]) = reads[m][mOut[m].n].id
    BY <2>1 DEF Rid
  <2>4. Read(m, Head(Credited(m))) /\ reads[m][Head(Credited(m))].id = Rid(mOut[m])
    BY CreditedRead
  <2>5. reads[m][mOut[m].n] \in Shapes /\ reads[m][Head(Credited(m))] \in Shapes
    BY <2>2, <2>4, ReadTyped DEF Wiring, Asked
  <2> QED
    BY <2>2, <2>3, <2>4, <2>5 DEF Dedicated
<1>4. (\E s \in Slaves : FromSlave(m, s)) \/ FromErr(m)
  BY <1>1, EdgeFrame DEF Wired
<1> QED
  BY <1>2, <1>3, <1>4

\* A mapped read is answered at the edge at which its slave retires it.
RetiresRead(m, n, s) == Retires(s) /\ Head(rdQ[s]) = <<m, n>>

LEMMA AnsweredAtEdge ==
  ASSUME Wiring, Delivery, Dedicated, ClockEdge, NEW m \in Masters, NEW n \in 1 .. MaxReads,
         NEW s \in Slaves, Read(m, n), reads[m][n].dst = s
  PROVE  /\ n \in answered'[m] <=> n \in answered[m] \/ RetiresRead(m, n, s)
         /\ Receives(m) /\ Head(Credited(m)) = n <=>
              Taken(s) /\ Head(rdQ[s]) = <<m, n>>
         /\ Taken(s) /\ Head(rdQ[s]) = <<m, n>> => mOut[m] = sOut[s]
<1>1. ASSUME Taken(s), Head(rdQ[s]) = <<m, n>>
      PROVE  Receives(m) /\ Head(Credited(m)) = n /\ mOut[m] = sOut[s]
  <2>1. /\ Head(rdQ[s]) = <<sOut[s].m, sOut[s].n>> /\ mOut[sOut[s].m] = sOut[s]
        /\ Receives(sOut[s].m) /\ Head(Credited(sOut[s].m)) = sOut[s].n
    BY <1>1, TakenCredits
  <2>2. sOut[s].m = m /\ sOut[s].n = n
    BY <1>1, <2>1
  <2> QED
    BY <2>1, <2>2
<1>2. ASSUME Receives(m), Head(Credited(m)) = n
      PROVE  Taken(s) /\ Head(rdQ[s]) = <<m, n>> /\ mOut[m] = sOut[s]
  <2>1. reads[m][n].dst # Sink
    BY Members
  <2>2. PICK x \in Slaves : /\ Taken(x) /\ sOut[x].m = m /\ mOut[m] = sOut[x] /\ sOut[x].n = n
    BY <1>2, <2>1, ReceivesFrom
  <2>3. Head(rdQ[x]) = <<m, n>> /\ Mapped(m, n, x)
    BY <2>2, TakenCredits
  <2>4. x = s
    BY <2>3 DEF Mapped
  <2> QED
    BY <2>2, <2>3, <2>4
<1>3. n \in answered'[m] <=>
        n \in answered[m] \/ (Receives(m) /\ mOut[m].last /\ Head(Credited(m)) = n)
  BY EdgeMaster
<1> QED
  BY <1>1, <1>2, <1>3 DEF RetiresRead, Retires

\* The edge adds the beat to the slot of the read it is credited to, and to no other.
LEMMA EdgeGot ==
  ASSUME Wiring, ClockEdge, NEW m \in Masters, NEW n \in 1 .. MaxReads
  PROVE  got'[m][n] = IF Receives(m) /\ Head(Credited(m)) = n
                        THEN Append(got[m][n], mOut[m]) ELSE got[m][n]
<1>1. got[m] \in [1 .. MaxReads -> Seq(Beats)]
  BY DEF Wiring, TypeOK
<1>2. CASE ~Receives(m)
  BY <1>2, EdgeMaster
<1>3. CASE Receives(m)
  <2> DEFINE h == Head(Credited(m))
  <2>1. got'[m] = [got[m] EXCEPT ![h] = Append(got[m][h], mOut[m])] /\ h \in 1 .. MaxReads
    BY <1>3, EdgeMaster
  <2> HIDE DEF h
  <2>2. got'[m][n] = IF h = n THEN Append(got[m][n], mOut[m]) ELSE got[m][n]
    BY <1>1, <2>1
  <2> QED
    BY <1>3, <2>2 DEF h
<1> QED
  BY <1>2, <1>3

LEMMA EdgeAligned ==
  ASSUME Wiring, Delivery, ClockEdge
  PROVE  Aligned'
<1>1. arWire' = arWire
  BY EdgeFrame
<1>2. ASSUME NEW s \in Slaves PROVE AlignedAt(s)'
  <2>1. AlignedAt(s) /\ Driven(s)' = Driven(s)
    BY <1>1 DEF Delivery, Aligned, Driven
  <2>2. CASE rdQ'[s] = rdQ[s] /\ readOrder'[s] = readOrder[s]
    BY <2>1, <2>2, <1>1 DEF AlignedAt
  <2>3. CASE /\ rdQ[s] # <<>> /\ readOrder[s] # <<>>
             /\ rdQ'[s] = Tail(rdQ[s]) /\ readOrder'[s] = Tail(readOrder[s])
    <3> DEFINE q == rdQ[s]  o == readOrder[s]
    <3>1. q \in Seq(Ref) /\ o \in Seq(Masters)
      BY DEF Wiring, TypeOK
    <3>2. /\ Len(q) \in Nat \ {0} /\ Len(Tail(q)) = Len(q) - 1
          /\ \A i \in 1 .. Len(q) - 1 : Tail(q)[i] = q[i + 1]
      BY <2>3, <3>1, TailQueue
    <3>3. /\ Len(o) \in Nat \ {0} /\ Len(Tail(o)) = Len(o) - 1
          /\ \A i \in 1 .. Len(o) - 1 : Tail(o)[i] = o[i + 1]
      BY <2>3, <3>1, TailQueue
    <3>4. /\ Len(o) = Len(q) + Driven(s) /\ \A i \in 1 .. Len(q) : o[i] = q[i][1]
          /\ arWire[s] # None => o[Len(q) + 1] = arWire[s][1]
      BY <2>1 DEF AlignedAt
    <3>5. Driven(s) \in {0, 1} /\ (arWire[s] # None => Driven(s) = 1)
      BY DEF Driven
    <3> HIDE DEF q, o
    <3>6. Len(Tail(o)) = Len(Tail(q)) + Driven(s)
      BY <3>2, <3>3, <3>4, <3>5
    <3>7. ASSUME NEW i \in 1 .. Len(Tail(q)) PROVE Tail(o)[i] = Tail(q)[i][1]
      <4>1. i \in 1 .. Len(q) - 1 /\ i \in 1 .. Len(o) - 1 /\ i + 1 \in 1 .. Len(q)
        BY <3>2, <3>3, <3>4, <3>5
      <4> QED
        BY <4>1, <3>2, <3>3, <3>4
    <3>8. arWire[s] # None => Tail(o)[Len(Tail(q)) + 1] = arWire[s][1]
      <4>1. arWire[s] # None => /\ Len(Tail(q)) + 1 \in 1 .. Len(o) - 1
                                /\ (Len(Tail(q)) + 1) + 1 = Len(q) + 1
        BY <3>2, <3>3, <3>4, <3>5
      <4> QED
        BY <4>1, <3>3, <3>4
    <3>9. rdQ'[s] = Tail(q) /\ readOrder'[s] = Tail(o)
      BY <2>3 DEF q, o
    <3> QED
      BY <2>1, <3>6, <3>7, <3>8, <3>9, <1>1 DEF AlignedAt
  <2> QED
    BY <2>2, <2>3, EdgeSlave
<1> QED
  BY <1>2 DEF Aligned

LEMMA EdgeInOrder ==
  ASSUME Wiring, Delivery, ClockEdge
  PROVE  InOrder'
<1>1. arWire' = arWire /\ inMem' = inMem
  BY EdgeFrame
<1>2. ASSUME NEW s \in Slaves PROVE InOrderAt(s)'
  <2>1. InOrderAt(s)
    BY DEF Delivery, InOrder
  <2>2. CASE rdQ'[s] = rdQ[s] /\ (sOut'[s] # None => sOut[s] # None)
    BY <2>1, <2>2, <1>1 DEF InOrderAt, Rising, Holds
  <2>3. CASE /\ sOut[s] # None /\ sOut'[s] = None /\ rdQ[s] # <<>> /\ rdQ'[s] = Tail(rdQ[s])
    <3> DEFINE q == rdQ[s]
    <3>1. q \in Seq(Ref) /\ Rising(q) /\ Distinct(q)
      BY <2>1, RisingDistinct DEF Wiring, TypeOK, InOrderAt
    <3>2. /\ Len(q) \in Nat \ {0} /\ Len(Tail(q)) = Len(q) - 1
          /\ \A i \in 1 .. Len(q) - 1 : Tail(q)[i] = q[i + 1]
          /\ \A x : Holds(Tail(q), x) <=> Holds(q, x) /\ x # Head(q)
      BY <2>3, <3>1, TailQueue
    <3>3. /\ arWire[s] # None => \A i \in 1 .. Len(q) : q[i][1] = arWire[s][1] => q[i][2] < arWire[s][2]
          /\ \A r \in inMem[s] : Holds(q, r)
          /\ Head(q) \notin inMem[s]
      BY <2>1, <2>3 DEF InOrderAt
    <3> HIDE DEF q
    <3>4. \A i \in 1 .. Len(q) - 1 : i + 1 \in 1 .. Len(q)
      BY <3>2
    <3>5. \A i, j \in 1 .. Len(q) - 1 : i < j => i + 1 < j + 1
      BY <3>2
    <3>6. Rising(Tail(q))
      BY <3>1, <3>2, <3>4, <3>5 DEF Rising
    <3>7. /\ arWire[s] # None =>
               \A i \in 1 .. Len(Tail(q)) : Tail(q)[i][1] = arWire[s][1] => Tail(q)[i][2] < arWire[s][2]
          /\ \A r \in inMem[s] : Holds(Tail(q), r)
      BY <3>2, <3>3, <3>4
    <3>8. rdQ'[s] = Tail(q)
      BY <2>3 DEF q
    <3> QED
      BY <2>3, <3>6, <3>7, <3>8, <1>1 DEF InOrderAt
  <2> QED
    BY <2>2, <2>3, EdgeSlave DEF Taken
<1> QED
  BY <1>2 DEF InOrder

LEMMA EdgeTracked ==
  ASSUME Wiring, Delivery, Dedicated, ClockEdge
  PROVE  Tracked'
<1>1. UNCHANGED <<reads, arDone, arWire>>
  BY EdgeFrame
<1>2. ASSUME NEW m \in Masters, NEW n \in answered'[m] PROVE Read(m, n)
  <2>1. n \in answered[m] \/ (Receives(m) /\ n = Head(Credited(m)))
    BY EdgeMaster
  <2> QED
    BY <2>1, CreditedRead DEF Delivery, Tracked
<1>3. ASSUME NEW m \in Masters, NEW n \in 1 .. MaxReads, NEW s \in Slaves,
             Read(m, n), reads[m][n].dst = s
      PROVE  TrackedRead(m, n, s)'
  <2>1. TrackedRead(m, n, s)
    BY <1>3 DEF Delivery, Tracked
  <2>2. n \in answered'[m] <=> n \in answered[m] \/ RetiresRead(m, n, s)
    BY <1>3, AnsweredAtEdge
  <2>3. Open(s, <<m, n>>)' <=> Open(s, <<m, n>>) /\ ~RetiresRead(m, n, s)
    <3>1. CASE ~Retires(s)
      <4>1. rdQ'[s] = rdQ[s]
        BY <3>1 DEF ClockEdge
      <4> QED
        BY <3>1, <4>1, <1>1 DEF Open, Holds, RetiresRead
    <3>2. CASE Retires(s)
      <4>1. sOut[s] # None /\ rdQ[s] # <<>> /\ rdQ'[s] = Tail(rdQ[s])
        BY <3>2, EdgeSlave DEF Retires, Taken
      <4>2. rdQ[s] \in Seq(Ref) /\ Distinct(rdQ[s])
        BY RisingDistinct DEF Wiring, TypeOK, Delivery, InOrder, InOrderAt
      <4>3. \A x : Holds(Tail(rdQ[s]), x) <=> Holds(rdQ[s], x) /\ x # Head(rdQ[s])
        BY <4>1, <4>2, TailQueue
      <4>4. arWire[s] # Head(rdQ[s])
        <5>1. Head(rdQ[s]) = rdQ[s][1] /\ 1 \in 1 .. Len(rdQ[s])
          BY <4>1, <4>2, HeadOf
        <5>2. rdQ[s][1] # None /\ rdQ[s][1][2] \in 1 .. MaxReads
          <6>1. rdQ[s][1] \in Ref
            BY <5>1, QueuedTyped DEF Wiring
          <6> QED
            BY <6>1, RefNotNone
        <5>3. arWire[s] # None /\ arWire[s][1] = rdQ[s][1][1] => rdQ[s][1][2] < arWire[s][2]
          BY <5>1 DEF Delivery, InOrder, InOrderAt
        <5>4. rdQ[s][1][2] \in Int
          BY <5>2
        <5> QED
          BY <5>1, <5>2, <5>3, <5>4
      <4> QED
        BY <3>2, <4>1, <4>3, <4>4, <1>1 DEF Open, Holds, RetiresRead
    <3> QED
      BY <3>1, <3>2
  <2>4. RetiresRead(m, n, s) => n <= arDone[m]
    <3>1. RetiresRead(m, n, s) => Mapped(m, n, s)
      BY OldestAsked, TakenCredits DEF RetiresRead, Retires, Wiring
    <3> QED
      BY <3>1 DEF Mapped
  <2> QED
    BY <2>1, <2>2, <2>3, <2>4, <1>1 DEF TrackedRead
<1> QED
  BY <1>1, <1>2, <1>3 DEF Tracked, Read

LEMMA EdgeIdQueues ==
  ASSUME Wiring, Delivery, ClockEdge
  PROVE  IdQueues'
<1>1. reads' = reads
  BY EdgeFrame
<1>2. ASSUME NEW m \in Masters, NEW i \in Ids PROVE QueueOf(m, i)'
  <2>1. QueueOf(m, i) /\ idOrder[m] \in [Ids -> Seq(1 .. MaxReads)]
    BY DEF Delivery, IdQueues, Wiring, TypeOK
  <2>2. CASE ~(Receives(m) /\ mOut[m].last)
    <3>1. idOrder'[m] = idOrder[m] /\ answered'[m] = answered[m]
      BY <2>2, EdgeMaster
    <3> QED
      BY <2>1, <3>1, <1>1 DEF QueueOf, Ascending, Holds, Read
  <2>3. CASE Receives(m) /\ mOut[m].last
    <3> DEFINE c == Rid(mOut[m])  q == idOrder[m][c]
    <3>1. PICK h \in 1 .. MaxReads : h = Head(q)
      BY <2>3, EdgeMaster DEF Credited
    <3>2. /\ c \in Ids /\ q # <<>> /\ q \in Seq(1 .. MaxReads)
          /\ reads[m][h].id = c /\ answered'[m] = answered[m] \cup {h}
          /\ idOrder'[m] = [idOrder[m] EXCEPT ![c] = Tail(q)]
      BY <2>3, <3>1, EdgeMaster, CreditedRead DEF Credited
    <3>3. CASE i # c
      <4>1. idOrder'[m][i] = idOrder[m][i]
        BY <2>1, <3>2, <3>3
      <4>2. \A n \in 1 .. MaxReads : reads[m][n].id = i => (n \in answered'[m] <=> n \in answered[m])
        BY <3>2, <3>3
      <4> QED
        BY <2>1, <4>1, <4>2, <1>1 DEF QueueOf, Ascending, Holds, Read
    <3>4. CASE i = c
      <4>1. idOrder'[m][i] = Tail(q)
        BY <2>1, <3>2, <3>4
      <4>2. Ascending(q) /\ Distinct(q)
        BY <2>1, <3>2, <3>4, AscendingDistinct DEF QueueOf
      <4>3. /\ Len(q) \in Nat \ {0} /\ Len(Tail(q)) = Len(q) - 1
            /\ \A j \in 1 .. Len(q) - 1 : Tail(q)[j] = q[j + 1]
            /\ \A x : Holds(Tail(q), x) <=> Holds(q, x) /\ x # h
        <5> DEFINE S == 1 .. MaxReads
        <5>1. q \in Seq(S)
          BY <3>2
        <5> HIDE DEF q, S
        <5> QED
          BY <3>1, <3>2, <4>2, <5>1, TailQueue
      <4>4. \A n \in 1 .. MaxReads : Holds(q, n) <=> Read(m, n) /\ reads[m][n].id = i /\ n \notin answered[m]
        BY <2>1, <3>4 DEF QueueOf
      <4> HIDE DEF q, c
      <4>5. Ascending(Tail(q))
        <5>1. \A j \in 1 .. Len(q) - 1 : j + 1 \in 1 .. Len(q)
          BY <4>3
        <5>2. \A j, k \in 1 .. Len(q) - 1 : j < k => j + 1 < k + 1
          BY <4>3
        <5> QED
          BY <4>2, <4>3, <5>1, <5>2 DEF Ascending
      <4>6. \A n \in 1 .. MaxReads : Holds(Tail(q), n) <=> Read(m, n) /\ reads[m][n].id = i /\ n \notin answered'[m]
        BY <3>2, <4>3, <4>4
      <4> QED
        BY <4>1, <4>5, <4>6, <1>1 DEF QueueOf, Read
    <3> QED
      BY <3>3, <3>4
  <2> QED
    BY <2>2, <2>3
<1> QED
  BY <1>2 DEF IdQueues

LEMMA EdgeSlots ==
  ASSUME Wiring, Delivery, Dedicated, ClockEdge
  PROVE  Slots'
<1>1. reads' = reads
  BY EdgeFrame
<1>3. ASSUME NEW m \in Masters, NEW n \in 1 .. MaxReads, ~Read(m, n)
      PROVE  got'[m][n] = <<>>
  <2>1. ~(Receives(m) /\ Head(Credited(m)) = n)
    BY <1>3, CreditedRead
  <2> QED
    BY <1>3, <2>1, EdgeGot DEF Delivery, Slots
<1>4. ASSUME NEW m \in Masters, NEW n \in 1 .. MaxReads, NEW s \in Slaves,
             Read(m, n), reads[m][n].dst = s
      PROVE  SlotFilled(m, n, s)'
  <2>1. SlotFilled(m, n, s)
    BY <1>4 DEF Delivery, Slots
  <2>2. \A j : Beat(m, n, j)' = Beat(m, n, j)
    BY <1>1 DEF Beat
  <2>3. /\ n \in answered'[m] <=> n \in answered[m] \/ RetiresRead(m, n, s)
        /\ Receives(m) /\ Head(Credited(m)) = n <=> Taken(s) /\ Head(rdQ[s]) = <<m, n>>
        /\ Taken(s) /\ Head(rdQ[s]) = <<m, n>> => mOut[m] = sOut[s]
    BY <1>4, AnsweredAtEdge
  <2>4. CASE Taken(s) /\ Head(rdQ[s]) = <<m, n>>
    <3> DEFINE g == got[m][n]  b == sOut[s]
    <3>1. /\ sOut[s].m = m /\ sOut[s].n = n /\ b.k \in Nat \ {0} /\ n \notin answered[m]
          /\ b = Beat(m, n, b.k) /\ b # None
      <4>1. /\ Head(rdQ[s]) = <<sOut[s].m, sOut[s].n>> /\ sOut[s].k \in Nat \ {0}
            /\ sOut[s].n \notin answered[sOut[s].m]
            /\ sOut[s] = Beat(sOut[s].m, sOut[s].n, sOut[s].k)
        BY <2>4, TakenCredits
      <4>2. sOut[s].m = m /\ sOut[s].n = n
        BY <2>4, <4>1
      <4>3. b # None
        BY <2>4 DEF Taken
      <4> QED
        BY <4>1, <4>2, <4>3
    <3>2. got'[m][n] = Append(g, b) /\ b \in Beats /\ g \in Seq(Beats)
      <4>1. got[m] \in [1 .. MaxReads -> Seq(Beats)]
        BY DEF Wiring, TypeOK
      <4>2. mOut[m] = b /\ mOut[m] \in Beats
        BY <2>3, <2>4, EdgeMaster
      <4> QED
        BY <4>1, <4>2, <2>3, <2>4, EdgeGot
    <3>3. Len(g) = b.k - 1 /\ \A j \in 1 .. Len(g) : g[j] = Beat(m, n, j)
      BY <2>1, <2>4, <3>1 DEF SlotFilled, Filled
    <3> HIDE DEF g
    <3>4. /\ Len(Append(g, b)) = Len(g) + 1 /\ Append(g, b)[Len(g) + 1] = b
          /\ \A j \in 1 .. Len(g) : Append(g, b)[j] = g[j]
      <4> HIDE DEF b
      <4> QED
        BY <3>2, AppendQueue
    <3>5. /\ Len(Append(g, b)) = b.k
          /\ \A j \in 1 .. b.k : Append(g, b)[j] = Beat(m, n, j)
      <4>1. \A j \in 1 .. b.k : j \in 1 .. Len(g) \/ (j = Len(g) + 1 /\ j = b.k)
        BY <3>1, <3>3
      <4> QED
        BY <4>1, <3>1, <3>3, <3>4
    <3>6. CASE b.last
      <4>1. b.k = reads[m][n].beats /\ n \in answered'[m]
        BY <2>3, <2>4, <3>1, <3>6, EdgeSlave DEF RetiresRead, Retires
      <4> QED
        BY <4>1, <3>2, <3>5, <2>2, <1>1 DEF SlotFilled
    <3>7. CASE ~b.last
      <4>1. n \notin answered'[m]
        BY <2>3, <3>1, <3>7 DEF RetiresRead, Retires
      <4>2. sOut'[s] = Beat(m, n, b.k + 1) /\ rdQ'[s] = rdQ[s]
        BY <2>4, <3>1, <3>7, EdgeSlave
      <4>3. Beat(m, n, b.k + 1) # None /\ Beat(m, n, b.k + 1).k = b.k + 1
        BY <3>1, BeatTyped, BeatNotNone
      <4>4. Filled(m, n, s)' = b.k
        BY <2>4, <3>1, <4>2, <4>3 DEF Filled
      <4> QED
        BY <4>1, <4>4, <3>2, <3>5, <2>2, <1>1 DEF SlotFilled
    <3> QED
      BY <3>6, <3>7
  <2>5. CASE ~(Taken(s) /\ Head(rdQ[s]) = <<m, n>>)
    <3>1. got'[m][n] = got[m][n]
      BY <2>3, <2>5, EdgeGot
    <3>2. n \in answered'[m] <=> n \in answered[m]
      BY <2>3, <2>5 DEF RetiresRead, Retires
    <3>3. Filled(m, n, s)' = Filled(m, n, s)
      <4>1. CASE ~Taken(s)
        BY <4>1, EdgeSlave DEF Filled
      <4>2. CASE Taken(s) /\ ~sOut[s].last
        BY <2>5, <4>2, EdgeSlave DEF Filled
      <4>3. CASE Taken(s) /\ sOut[s].last
        BY <2>5, <4>3, EdgeSlave DEF Filled
      <4> QED
        BY <4>1, <4>2, <4>3, EdgeSlave
    <3> QED
      BY <2>1, <2>2, <3>1, <3>2, <3>3, <1>1 DEF SlotFilled
  <2> QED
    BY <2>4, <2>5
<1> QED
  BY <1>1, <1>3, <1>4 DEF Slots, Read

LEMMA EdgeDelivers ==
  ASSUME Wiring, Delivery, Dedicated, ClockEdge
  PROVE  Delivery'
<1>1. UNCHANGED <<reads, released, lost>>
  BY EdgeFrame
<1>2. \A m \in Masters : answered[m] \subseteq answered'[m]
  BY EdgeMaster
<1>3. Tickets' /\ NoArLost'
  BY <1>1, <1>2 DEF Delivery, Tickets, NoArLost
<1> QED
  BY <1>3, EdgeAligned, EdgeInOrder, EdgeTracked, EdgeIdQueues, EdgeSlots DEF Delivery

----------------------------------------------------------------------------
(* A slave that holds a read for every ticket has room for a driven one *)

\* Each open read holds a ticket of its master: it is one of the Pool reads issued last.
Place(r) == <<r[1], r[2] - released[r[1]]>>

LEMMA OpenHasTicket ==
  ASSUME Wiring, Delivery, NEW s \in Slaves, NEW r \in Ref, Open(s, r)
  PROVE  /\ Place(r) \in Masters \X (1 .. Pool)
         /\ \A q \in Ref : Open(s, q) /\ Place(q) = Place(r) => q = r
<1>1. ASSUME NEW q \in Ref, Open(s, q)
      PROVE  /\ q[1] \in Masters /\ q[2] \in Nat /\ released[q[1]] \in Nat /\ q = <<q[1], q[2]>>
             /\ q[2] - released[q[1]] \in 1 .. Pool
  <2>1. q # None /\ q[1] \in Masters /\ q[2] \in 1 .. MaxReads /\ q = <<q[1], q[2]>>
    BY RefNotNone
  <2>2. Mapped(q[1], q[2], s)
    BY <1>1, <2>1, QueuedAsked DEF Wiring
  <2>3. TrackedRead(q[1], q[2], s)
    BY <2>1, <2>2 DEF Mapped, Delivery, Tracked
  <2>4. q[2] \notin answered[q[1]]
    BY <1>1, <2>1, <2>3 DEF TrackedRead
  <2>5. /\ \A n \in 1 .. released[q[1]] : n \in answered[q[1]]
        /\ Len(reads[q[1]]) - released[q[1]] <= Pool
    BY <2>1 DEF Delivery, Tickets
  <2>6. /\ released[q[1]] \in Nat /\ Len(reads[q[1]]) \in Nat /\ Pool \in Nat
        /\ q[2] \in Nat \ {0}
    BY <2>1, BusReadAssumption DEF Wiring, TypeOK
  <2>7. q[2] <= Len(reads[q[1]]) /\ ~(q[2] <= released[q[1]])
    BY <2>2, <2>4, <2>5, <2>6 DEF Mapped, Read
  <2>8. q[2] - released[q[1]] \in 1 .. Pool
    BY <2>5, <2>6, <2>7
  <2> QED
    BY <2>1, <2>6, <2>8
<1>2. Place(r) \in Masters \X (1 .. Pool)
  BY <1>1 DEF Place
<1>3. ASSUME NEW q \in Ref, Open(s, q), Place(q) = Place(r) PROVE q = r
  <2>1. q[1] = r[1] /\ q[2] - released[q[1]] = r[2] - released[r[1]]
    BY <1>3 DEF Place
  <2>2. q[2] = r[2]
    BY <1>1, <1>3, <2>1
  <2> QED
    BY <1>1, <1>3, <2>1, <2>2
<1> QED
  BY <1>2, <1>3

LEMMA TicketsBound ==
  ASSUME Wiring, Delivery, NEW s \in Slaves, NEW T, T = {r \in Ref : Open(s, r)}, IsFiniteSet(T)
  PROVE  Cardinality(T) <= NumM * Pool
<1> DEFINE U == Masters \X (1 .. Pool)
           f == [r \in T |-> Place(r)]
<1>1. IsFiniteSet(U) /\ Cardinality(U) = NumM * Pool
  BY PlacesCount, BusReadAssumption DEF Masters
<1>2. f \in [T -> U] /\ \A a, b \in T : f[a] = f[b] => a = b
  BY OpenHasTicket
<1>3. f \in Injection(T, U)
  BY <1>2, Fun_IsInj, Zenon
<1>4. Cardinality(T) <= Cardinality(U)
  <2> HIDE DEF f, U
  <2> QED
    BY <1>1, <1>3, FS_Injection
<1> QED
  BY <1>1, <1>4

LEMMA AlwaysRoom ==
  ASSUME Wiring, Delivery, Roomy, NEW s \in Slaves, arWire[s] # None
  PROVE  SlaveAccepts(s)
<1> DEFINE q == rdQ[s]  r0 == arWire[s]
           T == {r \in Ref : Open(s, r)}
<1>1. q \in Seq(Ref) /\ r0 \in Ref /\ <<r0>> \in Seq(Ref) /\ inMem[s] \subseteq Ref
  BY DEF Wiring, TypeOK
<1>2. InOrderAt(s)
  BY DEF Delivery, InOrder
<1>3. Distinct(q) /\ Distinct(<<r0>>) /\ \A k : Holds(<<r0>>, k) <=> k = r0
  <2>1. Distinct(q)
    BY <1>1, <1>2, RisingDistinct DEF InOrderAt
  <2> HIDE DEF r0
  <2>2. Len(<<r0>>) = 1 /\ <<r0>>[1] = r0 /\ \A i \in 1 .. 1 : i = 1
    OBVIOUS
  <2>3. Distinct(<<r0>>) /\ \A k : Holds(<<r0>>, k) <=> k = r0
    BY <2>2 DEF Distinct, Holds
  <2> QED
    BY <2>1, <2>3
<1>4. ~Holds(q, r0)
  <2>1. ASSUME NEW i \in 1 .. Len(q), q[i] = r0 PROVE FALSE
    <3>1. q[i][2] < r0[2]
      BY <2>1, <1>2 DEF InOrderAt
    <3>2. r0[2] \in 1 .. MaxReads
      BY <1>1, RefNotNone
    <3>3. r0[2] \in Int
      BY <3>2
    <3> QED
      BY <2>1, <3>1, <3>3
  <2> QED
    BY <2>1 DEF Holds
<1>5. \A k : k \in T <=> Holds(q, k) \/ Holds(<<r0>>, k)
  <2>1. \A k : Open(s, k) <=> Holds(q, k) \/ k = r0
    BY DEF Open
  <2>2. \A k : Holds(q, k) => k \in Ref
    BY QueuedTyped DEF Holds, Wiring
  <2> QED
    BY <2>1, <2>2, <1>1, <1>3
<1>6. IsFiniteSet(T) /\ Len(q \o <<r0>>) = Cardinality(T)
  <2> HIDE DEF T, q, r0
  <2> QED
    BY <1>1, <1>3, <1>4, <1>5, QueuesCount
<1>7. Len(q) \in Nat /\ Cardinality(T) = Len(q) + 1
  <2> HIDE DEF T, q, r0
  <2>1. Len(q) \in Nat /\ Len(q \o <<r0>>) = Len(q) + 1
    BY <1>1
  <2> QED
    BY <2>1, <1>6
<1>8. Cardinality(T) <= NumM * Pool
  BY <1>6, TicketsBound
<1>9. /\ Cardinality(inMem[s]) <= Cardinality(T \ {r0}) /\ Cardinality(T \ {r0}) = Len(q)
      /\ Cardinality(inMem[s]) \in Nat
  <2>1. inMem[s] \subseteq T \ {r0}
    BY <1>2, <1>4, <1>5 DEF InOrderAt
  <2>2. r0 \in T
    BY <1>3, <1>5
  <2> HIDE DEF T, q, r0
  <2>3. IsFiniteSet(T \ {r0}) /\ Cardinality(T \ {r0}) = Cardinality(T) - 1
    BY <1>6, <2>2, FS_RemoveElement
  <2>4. IsFiniteSet(inMem[s]) /\ Cardinality(inMem[s]) <= Cardinality(T \ {r0})
    BY <2>1, <2>3, FS_Subset
  <2>5. Cardinality(inMem[s]) \in Nat
    BY <2>4, FS_CardinalityType
  <2> QED
    BY <2>3, <2>4, <2>5, <1>7
<1>10. NumM * Pool \in Int /\ MemCap \in Int /\ RdCap \in Int
  BY BusReadAssumption
<1>11. Cardinality(inMem[s]) < MemCap /\ Len(q) - 1 < RdCap
  <2> DEFINE c == NumM * Pool  d == Cardinality(inMem[s])  l == Len(q)
  <2>1. /\ c <= MemCap /\ c <= RdCap + 1 /\ c \in Int /\ MemCap \in Int /\ RdCap \in Int
        /\ d \in Nat /\ l \in Nat /\ d <= l /\ l + 1 <= c
    BY <1>7, <1>8, <1>9, <1>10 DEF Roomy
  <2> HIDE DEF c, d, l
  <2>2. d < MemCap /\ l - 1 < RdCap
    BY <2>1
  <2> QED
    BY <2>2 DEF d, l
<1> QED
  BY <1>11 DEF SlaveAccepts

----------------------------------------------------------------------------
(* The theorems *)

LEMMA DeliveryInit == Init => Delivery
<1> SUFFICES ASSUME Init PROVE Delivery
  OBVIOUS
<1>1. Len(<<>>) = 0 /\ \A i \in 1 .. 0 : FALSE
  OBVIOUS
<1>2. \A k : ~Holds(<<>>, k)
  BY EmptyQueue
<1>3. \A m \in Masters : ~ \E n : Read(m, n)
  BY <1>1 DEF Init, Read
<1>4. Aligned
  BY <1>1 DEF Init, Aligned, AlignedAt, Driven
<1>5. InOrder
  BY <1>1 DEF Init, InOrder, InOrderAt, Rising
<1>6. Tracked
  BY <1>3 DEF Init, Tracked
<1>7. IdQueues
  BY <1>1, <1>2, <1>3 DEF Init, IdQueues, QueueOf, Ascending
<1>8. Slots
  BY <1>3 DEF Init, Slots
<1>9. Tickets
  BY <1>1, BusReadAssumption DEF Init, Tickets
<1> QED
  BY <1>4, <1>5, <1>6, <1>7, <1>8, <1>9 DEF Delivery, NoArLost, Init

LEMMA DeliveryNext ==
  ASSUME Roomy, Dedicated
  PROVE  Wiring /\ Delivery /\ [Next]_vars => Delivery'
<1> SUFFICES ASSUME Wiring, Delivery, [Next]_vars PROVE Delivery'
  OBVIOUS
<1>1. ASSUME NEW m \in Masters, NEW r \in Shapes, IssueRead(m, r) PROVE Delivery'
  BY <1>1, IssueDelivers
<1>2. ASSUME NEW m \in Masters, ArStep(m) PROVE Delivery'
  BY <1>2, DecerrDelivers, ForwardDelivers DEF ArStep
<1>3. ASSUME NEW m \in Masters, ReleaseRead(m) PROVE Delivery'
  BY <1>3, ReleaseDelivers
<1>4. ASSUME NEW s \in Slaves, SlaveAr(s) PROVE Delivery'
  <2>1. arWire[s] # None
    BY <1>4 DEF SlaveAr
  <2> QED
    BY <1>4, <2>1, AlwaysRoom, TakeDelivers
<1>5. ASSUME NEW s \in Slaves, MemStep(s) PROVE Delivery'
  BY <1>5, MemDelivers
<1>6. ASSUME NEW s \in Slaves, SlaveRValid(s) PROVE Delivery'
  BY <1>6, RValidDelivers
<1>7. CASE UNCHANGED vars
  <2>1. UNCHANGED <<reads, arDone, idOrder, got, answered, released, readOrder, arWire,
                    rdQ, inMem, sOut, lost>>
    BY <1>7 DEF vars, masterVars, slaveVars
  <2> QED
    BY <2>1, KeptAligned, KeptInOrder, KeptTracked, KeptIdQueues, KeptSlots, KeptTickets
       DEF Delivery, NoArLost
<1> QED
  BY <1>1, <1>2, <1>3, <1>4, <1>5, <1>6, <1>7, EdgeDelivers, SettleDelivers DEF Next

\* Reads of mapped addresses stay in step from the AR handshake to the slot: in the queues of
\* bus, slave and master, and beat by beat in the data.
THEOREM ReadsDelivered ==
  ASSUME Roomy, Dedicated
  PROVE  Spec => []Delivery
<1>1. Wiring /\ Delivery /\ [Next]_vars => Delivery'
  BY DeliveryNext
<1> QED
  BY <1>1, DeliveryInit, ReadWiring, PTL DEF Spec

\* The bus drives AR for one cycle without looking at ARREADY; no slave misses it when it and
\* its memory model have room for all the tickets (axi_bus.h ar_thread, axi_slave.h ar_thread).
THEOREM NoArIsLost ==
  ASSUME Roomy, Dedicated
  PROVE  Spec => []NoArLost
<1>1. Delivery => NoArLost
  BY DEF Delivery
<1> QED
  BY <1>1, ReadsDelivered, PTL

----------------------------------------------------------------------------
(* Refused reads.  With one beat a refused read can lose it before r_forward shows it     *)
(* (the queue does not wake r_forward), so what follows is about bursts of two and more. *)

Bursts == \A a \in Shapes : a.dst = Sink => a.beats >= 2

\* A refused read is in err_reads_ from its AR handshake until it is answered.
InErr(m, n) == \E k \in 1 .. Len(errReads[m]) : errReads[m][k].n = n
RefusedRead(m, n) ==
  /\ InErr(m, n) <=> n <= arDone[m] /\ n \notin answered[m]
  /\ n \in answered[m] => n <= arDone[m]
  /\ \A j \in 1 .. Len(got[m][n]) : got[m][n][j].m = m /\ got[m][n][j].n = n

\* Entries are in the order of issue; one that has lost beats is at the front, and its
\* next beat is shown or r_forward is due.
ErrOrder(m) ==
  \A j, k \in 1 .. Len(errReads[m]) : j < k => errReads[m][j].n < errReads[m][k].n
ErrProgress(m) ==
  \A k \in 1 .. Len(errReads[m]) :
    \/ errReads[m][k].left = reads[m][errReads[m][k].n].beats
    \/ k = 1 /\ (trigger \/ mOut[m] = ErrBeat(m))
RefusedReads(m) ==
  \A n \in 1 .. MaxReads : Read(m, n) /\ reads[m][n].dst = Sink => RefusedRead(m, n)

Refused == \A m \in Masters : RefusedReads(m) /\ ErrOrder(m) /\ ErrProgress(m)

LEMMA KeptRefusal ==
  ASSUME Refused, UNCHANGED <<reads, arDone, got, answered, errReads, mOut>>, trigger => trigger'
  PROVE  Refused'
<1>1. ASSUME NEW m \in Masters PROVE RefusedReads(m)'
  <2>1. RefusedReads(m)
    BY DEF Refused
  <2> QED
    BY <2>1 DEF RefusedReads, RefusedRead, InErr, Read
<1>2. ASSUME NEW m \in Masters PROVE ErrOrder(m)'
  BY DEF Refused, ErrOrder
<1>3. ASSUME NEW m \in Masters PROVE ErrProgress(m)'
  <2>1. ErrProgress(m) /\ ErrBeat(m)' = ErrBeat(m)
    BY DEF Refused, ErrBeat, Beat
  <2> QED
    BY <2>1 DEF ErrProgress
<1> QED
  BY <1>1, <1>2, <1>3 DEF Refused

LEMMA IssueRefused ==
  ASSUME Wiring, Delivery, Refused, NEW m \in Masters, NEW r \in Shapes, IssueRead(m, r)
  PROVE  Refused'
<1>1. /\ Grows /\ UNCHANGED <<arDone, got, answered, errReads, mOut, trigger>>
  BY IssueGrows DEF IssueRead, wireVars, Wiring, Asked
<1>2. ASSUME NEW a \in Masters, NEW k \in 1 .. Len(errReads[a])
      PROVE  Read(a, errReads[a][k].n) /\ reads'[a][errReads[a][k].n] = reads[a][errReads[a][k].n]
  BY <1>1, RefusedAsked, GrownMapped DEF Wiring
<1>3. ASSUME NEW a \in Masters, NEW n \in 1 .. MaxReads, Read(a, n)', reads'[a][n].dst = Sink
      PROVE  RefusedRead(a, n)'
  <2>1. RefusedRead(a, n)
    <3>1. CASE Read(a, n)
      BY <3>1, <1>1, <1>3, GrownRead DEF Refused, RefusedReads
    <3>2. CASE ~Read(a, n)
      <4>1. got[a][n] = <<>> /\ n \notin answered[a]
        BY <3>2 DEF Delivery, Slots, Tracked
      <4>2. ~InErr(a, n)
        BY <3>2, <1>2 DEF InErr
      <4>3. ~(n <= arDone[a])
        BY <3>2 DEF Read, Wiring, Asked, Issued, TypeOK
      <4>4. Len(<<>>) = 0 /\ \A j \in 1 .. 0 : FALSE
        OBVIOUS
      <4> QED
        BY <4>1, <4>2, <4>3, <4>4 DEF RefusedRead
    <3> QED
      BY <3>1, <3>2
  <2> QED
    BY <2>1, <1>1 DEF RefusedRead, InErr
<1>4. ASSUME NEW a \in Masters PROVE ErrOrder(a)' /\ ErrProgress(a)'
  <2>1. ErrOrder(a) /\ ErrProgress(a)
    BY DEF Refused
  <2>2. errReads[a] # <<>> => ErrBeat(a)' = ErrBeat(a)
    BY <1>1, KeptErrBeat DEF Wiring
  <2>3. ASSUME NEW k \in 1 .. Len(errReads[a]) PROVE errReads[a] # <<>>
    BY EmptySeq
  <2>4. ErrOrder(a)'
    BY <2>1, <1>1 DEF ErrOrder
  <2>5. ErrProgress(a)'
    BY <2>1, <2>2, <2>3, <1>1, <1>2 DEF ErrProgress
  <2> QED
    BY <2>4, <2>5
<1> QED
  BY <1>3, <1>4 DEF Refused, RefusedReads

LEMMA DecerrRefused ==
  ASSUME Wiring, Delivery, Refused, NEW m \in Masters, ArDecerr(m)
  PROVE  Refused'
<1>a. arDone[m] + 1 \in Nat /\ arDone[m] \in Nat
  BY DEF Wiring, TypeOK
<1>b. PICK n0 \in Nat : n0 = arDone[m] + 1
  BY <1>a
<1> DEFINE q == errReads[m]
           e == [n |-> n0, left |-> reads[m][n0].beats]
           E == [n : 1 .. MaxReads, left : Nat \ {0}]
<1>1. /\ Grows /\ reads' = reads /\ Read(m, n0) /\ reads[m][n0].dst = Sink /\ arDone'[m] = n0
      /\ UNCHANGED <<got, answered, mOut, trigger>>
      /\ \A a \in Masters : a # m => errReads'[a] = errReads[a] /\ arDone'[a] = arDone[a]
      /\ errReads'[m] = Append(q, e) /\ e \in E
  BY <1>b, DecerrTaken
<1>2. q \in Seq(E) /\ e.n = n0 /\ e.left = reads[m][n0].beats
  BY DEF Wiring, TypeOK
<1>3. \A k \in 1 .. Len(q) : q[k].n \in Nat /\ q[k].n <= arDone[m] /\ q[k].n < n0
  <2>1. ASSUME NEW k \in 1 .. Len(q) PROVE q[k].n \in Nat /\ q[k].n <= arDone[m]
    BY RefusedAsked DEF Wiring, Mapped
  <2> QED
    BY <2>1, <1>a, <1>b
<1> HIDE DEF q, e, E
<1>4. /\ Len(q) \in Nat /\ Len(Append(q, e)) = Len(q) + 1 /\ Append(q, e)[Len(q) + 1] = e
      /\ \A k \in 1 .. Len(q) : Append(q, e)[k] = q[k]
      /\ q # <<>> => Append(q, e) # <<>> /\ Head(Append(q, e)) = Head(q)
  BY <1>1, <1>2, AppendQueue, AppendHead
<1>5. \A k \in 1 .. Len(q) + 1 : k \in 1 .. Len(q) \/ k = Len(q) + 1
  BY <1>4
<1>6. ASSUME NEW a \in Masters, NEW n \in 1 .. MaxReads, Read(a, n), reads[a][n].dst = Sink
      PROVE  RefusedRead(a, n)'
  <2>1. RefusedRead(a, n)
    BY <1>6 DEF Refused, RefusedReads
  <2>2. CASE a # m
    BY <2>1, <2>2, <1>1 DEF RefusedRead, InErr
  <2>3. CASE a = m
    <3>1. InErr(m, n)' <=> InErr(m, n) \/ n = n0
      <4>1. InErr(m, n)' <=> \E k \in 1 .. Len(q) + 1 : Append(q, e)[k].n = n
        BY <1>1, <1>4 DEF InErr
      <4>2. InErr(m, n) <=> \E k \in 1 .. Len(q) : q[k].n = n
        BY DEF InErr, q
      <4>3. \A k \in 1 .. Len(q) : k \in 1 .. Len(q) + 1
        BY <1>4
      <4>4. Len(q) + 1 \in 1 .. Len(q) + 1
        BY <1>4
      <4> QED
        BY <4>1, <4>2, <4>3, <4>4, <1>2, <1>4, <1>5
    <3>2. n <= arDone'[m] <=> n <= arDone[m] \/ n = n0
      BY <1>a, <1>b, <1>1
    <3>3. n = n0 => ~(n <= arDone[m])
      BY <1>a, <1>b
    <3> QED
      BY <2>1, <2>3, <3>1, <3>2, <3>3, <1>1 DEF RefusedRead
  <2> QED
    BY <2>2, <2>3
<1>7. ASSUME NEW a \in Masters PROVE ErrOrder(a)' /\ ErrProgress(a)'
  <2>1. ErrOrder(a) /\ ErrProgress(a)
    BY DEF Refused
  <2>2. ASSUME NEW k \in 1 .. Len(errReads[a])
        PROVE  errReads[a] # <<>> /\ (errReads'[a] # <<>> /\ Head(errReads'[a]) = Head(errReads[a]))
    <3>1. errReads[a] # <<>>
      BY EmptySeq
    <3>2. CASE a = m
      BY <3>1, <3>2, <1>1, <1>4 DEF q
    <3>3. CASE a # m
      BY <3>1, <3>3, <1>1
    <3> QED
      BY <3>1, <3>2, <3>3
  <2>3. ASSUME NEW k \in 1 .. Len(errReads[a]) PROVE ErrBeat(a)' = ErrBeat(a)
    BY <2>2, <1>1, KeptErrBeat DEF Wiring
  <2>4. CASE a # m
    <3>1. ErrOrder(a)'
      BY <2>1, <2>4, <1>1 DEF ErrOrder
    <3>2. ErrProgress(a)'
      BY <2>1, <2>3, <2>4, <1>1 DEF ErrProgress
    <3> QED
      BY <3>1, <3>2
  <2>5. CASE a = m
    <3>1. ErrOrder(m)'
      <4>1. \A j, k \in 1 .. Len(q) : j < k => q[j].n < q[k].n
        BY <2>1, <2>5 DEF ErrOrder, q
      <4>2. \A j, k \in 1 .. Len(q) + 1 : j < k => j \in 1 .. Len(q)
        BY <1>4
      <4>3. \A j, k \in 1 .. Len(q) + 1 : j < k => Append(q, e)[j].n < Append(q, e)[k].n
        BY <4>1, <4>2, <1>2, <1>3, <1>4, <1>5
      <4> QED
        BY <4>3, <1>1, <1>4 DEF ErrOrder
    <3>2. ErrProgress(m)'
      <4>1. ASSUME NEW k \in 1 .. Len(q) + 1
            PROVE  \/ Append(q, e)[k].left = reads[m][Append(q, e)[k].n].beats
                   \/ k = 1 /\ (trigger' \/ mOut'[m] = ErrBeat(m)')
        <5>1. CASE k \in 1 .. Len(q)
          BY <5>1, <2>1, <2>3, <2>5, <1>1, <1>4 DEF ErrProgress, q
        <5>2. CASE k = Len(q) + 1
          BY <5>2, <1>2, <1>4
        <5> QED
          BY <5>1, <5>2, <1>5
      <4> QED
        BY <4>1, <1>1, <1>4 DEF ErrProgress
    <3> QED
      BY <2>5, <3>1, <3>2
  <2> QED
    BY <2>4, <2>5
<1> QED
  BY <1>1, <1>6, <1>7 DEF Refused, RefusedReads, Read

LEMMA ForwardRefused ==
  ASSUME Wiring, Refused, NEW m \in Masters, ArForward(m)
  PROVE  Refused'
<1>1. /\ reads' = reads /\ UNCHANGED <<got, answered, errReads, mOut, trigger>>
      /\ reads[m][arDone[m] + 1].dst # Sink /\ arDone'[m] = arDone[m] + 1
      /\ \A a \in Masters : a # m => arDone'[a] = arDone[a]
  BY ForwardTaken, Members
<1>2. ASSUME NEW a \in Masters, NEW n \in 1 .. MaxReads, Read(a, n), reads[a][n].dst = Sink
      PROVE  RefusedRead(a, n)'
  <2>1. RefusedRead(a, n)
    BY <1>2 DEF Refused, RefusedReads
  <2>2. n <= arDone'[a] <=> n <= arDone[a]
    <3>1. arDone[a] \in Nat /\ n \in Nat
      BY DEF Wiring, TypeOK
    <3>2. a = m => n # arDone[m] + 1
      BY <1>1, <1>2
    <3> QED
      BY <3>1, <3>2, <1>1
  <2> QED
    BY <2>1, <2>2, <1>1 DEF RefusedRead, InErr
<1>3. ASSUME NEW a \in Masters PROVE ErrOrder(a)'
  BY <1>1 DEF Refused, ErrOrder
<1>4. ASSUME NEW a \in Masters PROVE ErrProgress(a)'
  <2>1. ErrProgress(a) /\ ErrBeat(a)' = ErrBeat(a)
    BY <1>1 DEF Refused, ErrBeat, Beat
  <2> QED
    BY <2>1, <1>1 DEF ErrProgress
<1> QED
  BY <1>1, <1>2, <1>3, <1>4 DEF Refused, RefusedReads, Read

LEMMA SettleRefused ==
  ASSUME Wiring, Refused, Settle
  PROVE  Refused'
<1>1. UNCHANGED <<reads, arDone, got, answered, errReads>>
  BY DEF Settle, masterVars
<1>2. ASSUME NEW m \in Masters PROVE RefusedReads(m)' /\ ErrOrder(m)'
  <2>1. RefusedReads(m) /\ ErrOrder(m)
    BY DEF Refused
  <2>2. RefusedReads(m)'
    BY <2>1, <1>1 DEF RefusedReads, RefusedRead, InErr, Read
  <2>3. ErrOrder(m)'
    BY <2>1, <1>1 DEF ErrOrder
  <2> QED
    BY <2>2, <2>3
<1>3. ASSUME NEW m \in Masters PROVE ErrProgress(m)'
  <2>1. ErrProgress(m) /\ ErrBeat(m)' = ErrBeat(m)
    BY <1>1 DEF Refused, ErrBeat, Beat
  <2>2. CASE trigger
    <3>1. errReads[m] # <<>> => mOut'[m] = ErrBeat(m)
      BY <2>2 DEF Settle, ForwardTo
    <3>2. ASSUME NEW k \in 1 .. Len(errReads[m]) PROVE errReads[m] # <<>>
      BY EmptySeq
    <3> QED
      BY <2>1, <3>1, <3>2, <1>1 DEF ErrProgress
  <2>3. CASE ~trigger
    <3>1. mOut' = mOut
      BY <2>3 DEF Settle
    <3> QED
      BY <2>1, <2>3, <3>1, <1>1 DEF ErrProgress
  <2> QED
    BY <2>2, <2>3
<1> QED
  BY <1>2, <1>3 DEF Refused

\* The oldest entry of an id's queue comes before any other.
LEMMA HeadLeast ==
  ASSUME NEW q \in Seq(1 .. MaxReads), Ascending(q), NEW n, Holds(q, n)
  PROVE  q # <<>> /\ Head(q) <= n
<1>1. PICK j \in 1 .. Len(q) : q[j] = n
  BY DEF Holds
<1>2. q # <<>>
  BY <1>1, EmptySeq
<1>3. 1 \in 1 .. Len(q) /\ Head(q) = q[1] /\ q[1] \in 1 .. MaxReads
  <2> DEFINE S == 1 .. MaxReads
  <2>1. q \in Seq(S)
    OBVIOUS
  <2> HIDE DEF S
  <2>2. 1 \in 1 .. Len(q) /\ Head(q) = q[1]
    BY <1>2, <2>1, HeadOf
  <2>3. q[1] \in S
    BY <2>1, <2>2, ElementOfSeq
  <2> QED
    BY <2>2, <2>3 DEF S
<1>4. j = 1 \/ 1 < j
  BY <1>1
<1>5. 1 < j => q[1] < q[j]
  BY <1>1, <1>3 DEF Ascending
<1>6. q[1] \in Int /\ q[j] \in Int
  <2>1. q[j] \in 1 .. MaxReads
    BY <1>1, ElementOfSeq
  <2> QED
    BY <2>1, <1>3
<1> QED
  BY <1>1, <1>2, <1>3, <1>4, <1>5, <1>6

\* A synthesized beat is credited to the read it was made for, and is its last exactly when
\* the entry has one beat left.
LEMMA ErrCredits ==
  ASSUME Wiring, Delivery, Refused, Dedicated, ClockEdge, NEW m \in Masters, FromErr(m)
  PROVE  /\ Receives(m) /\ Head(Credited(m)) = Head(errReads[m]).n
         /\ mOut[m].m = m /\ mOut[m].n = Head(errReads[m]).n
         /\ mOut[m].last <=> Head(errReads[m]).left = 1
<1> DEFINE q == errReads[m]
<1>1. /\ q # <<>> /\ mOut[m] = ErrBeat(m) /\ q \in Seq([n : 1 .. MaxReads, left : Nat \ {0}])
  BY DEF FromErr, Wiring, TypeOK
<1>2. 1 \in 1 .. Len(q) /\ Head(q) = q[1]
  BY <1>1, HeadOf
<1>3. PICK n \in 1 .. MaxReads : n = Head(q).n
  BY <1>2, RefusedAsked DEF Wiring
<1>4. /\ Read(m, n) /\ reads[m][n].dst = Sink /\ Head(q).left \in Nat \ {0}
      /\ reads[m][n].beats \in Nat /\ n <= arDone[m] /\ arDone[m] \in Nat /\ n \in Nat
  <2>1. Mapped(m, n, Sink) /\ Head(q).left \in Nat \ {0} /\ reads[m][n].beats \in Nat
    BY <1>2, <1>3, RefusedAsked DEF Wiring
  <2>2. arDone[m] \in Nat /\ n \in Nat
    BY DEF Wiring, TypeOK
  <2> QED
    BY <2>1, <2>2 DEF Mapped
<1>5. /\ ErrBeat(m) \in Beats /\ mOut[m].m = m /\ mOut[m].n = n /\ mOut[m] # None
  BY <1>1, <1>3, ErrBeatTyped, BeatNotNone DEF Wiring
<1>6. n \notin answered[m]
  <2>1. RefusedRead(m, n)
    BY <1>4 DEF Refused, RefusedReads
  <2>2. InErr(m, n)
    BY <1>2, <1>3 DEF InErr
  <2> QED
    BY <2>1, <2>2 DEF RefusedRead
<1> DEFINE i == reads[m][n].id  o == idOrder[m][i]
<1>7. i \in Ids /\ Rid(mOut[m]) = i /\ Credited(m) = o /\ o \in Seq(1 .. MaxReads) /\ QueueOf(m, i)
  <2>1. i \in Ids
    BY <1>4, ReadTyped DEF Wiring, Asked
  <2> QED
    BY <2>1, <1>5 DEF Rid, Credited, Delivery, IdQueues, Wiring, TypeOK
<1>8. Holds(o, n) /\ Ascending(o)
  BY <1>4, <1>6, <1>7 DEF QueueOf
<1>9. o # <<>> /\ Head(o) <= n
  <2> HIDE DEF o
  <2> QED
    BY <1>7, <1>8, HeadLeast
<1>10. Receives(m)
  BY <1>5, <1>7, <1>9 DEF Receives
<1>11. PICK h \in 1 .. MaxReads : h = Head(Credited(m))
  BY <1>10, CreditedRead
<1>12. Read(m, h) /\ h \notin answered[m] /\ reads[m][h].id = i
  BY <1>7, <1>10, <1>11, CreditedRead
<1>13. reads[m][h].dst = Sink
  <2>1. reads[m][h] \in Shapes /\ reads[m][n] \in Shapes
    BY <1>4, <1>12, ReadTyped DEF Wiring, Asked
  <2> QED
    BY <2>1, <1>4, <1>12 DEF Dedicated
<1>14. h <= n /\ h \in Nat
  BY <1>7, <1>9, <1>11
<1>15. InErr(m, h)
  <2>1. RefusedRead(m, h)
    BY <1>12, <1>13 DEF Refused, RefusedReads
  <2>2. h <= arDone[m]
    BY <1>4, <1>14
  <2> QED
    BY <2>1, <2>2, <1>12 DEF RefusedRead
<1>16. h = n
  <2>1. PICK k \in 1 .. Len(q) : q[k].n = h
    BY <1>15 DEF InErr
  <2>2. k = 1 \/ 1 < k
    BY <2>1
  <2>3. 1 < k => q[1].n < q[k].n
    BY <2>1, <1>2 DEF Refused, ErrOrder
  <2> QED
    BY <2>1, <2>2, <2>3, <1>2, <1>3, <1>4, <1>14
<1>17. mOut[m].last <=> Head(q).left = 1
  <2> DEFINE b == reads[m][n].beats  l == Head(q).left
  <2>1. mOut[m].last = (b - l + 1 = b)
    BY <1>1, <1>3 DEF ErrBeat, Beat
  <2>2. b - l + 1 = b <=> l = 1
    BY <1>4
  <2> QED
    BY <2>1, <2>2
<1> QED
  BY <1>3, <1>5, <1>10, <1>11, <1>16, <1>17

\* Only a beat of its own can be credited to a refused read.
LEMMA RefusedCredit ==
  ASSUME Wiring, Delivery, Refused, Dedicated, ClockEdge, NEW m \in Masters,
         NEW n \in 1 .. MaxReads, Read(m, n), reads[m][n].dst = Sink
  PROVE  Receives(m) /\ Head(Credited(m)) = n => FromErr(m)
<1>1. ASSUME NEW s \in Slaves, Taken(s), sOut[s].m = m, sOut[s].n = n PROVE FALSE
  BY <1>1, TakenCredits, Members DEF Mapped
<1> QED
  BY <1>1, ReceivesFrom

\* What the edge leaves of the refused reads of a master that has some.
Expires(m) == errReads[m] # <<>> /\ Head(errReads[m]).left = 1

LEMMA EdgeErrQueue ==
  ASSUME Wiring, Refused, ClockEdge, NEW m \in Masters, errReads[m] # <<>>
  PROVE  /\ trigger' /\ Head(errReads[m]) = errReads[m][1] /\ 1 \in 1 .. Len(errReads[m])
         /\ ErrOrder(m)' /\ ErrProgress(m)'
         /\ \A n \in 1 .. MaxReads :
              InErr(m, n)' <=> InErr(m, n) /\ ~(Expires(m) /\ Head(errReads[m]).n = n)
<1> DEFINE E == [n : 1 .. MaxReads, left : Nat \ {0}]
           q == errReads[m]
           r == [q EXCEPT ![1].left = q[1].left - 1]
<1>1. q \in Seq(E) /\ q # <<>>
  BY DEF Wiring, TypeOK
<1>2. Len(q) \in Nat \ {0} /\ 1 \in 1 .. Len(q) /\ Head(q) = q[1]
  BY <1>1, HeadOf
<1>3. /\ trigger' /\ reads' = reads /\ errReads'[m] = ErrReadsAfter(q)
  BY EdgeFrame, EdgeMaster
<1>4. ErrOrder(m) /\ ErrProgress(m)
  BY DEF Refused
<1>5. \A j \in 1 .. Len(q) : q[j].n \in Int /\ (j = 1 \/ 1 < j)
  <2>1. ASSUME NEW j \in 1 .. Len(q) PROVE q[j].n \in 1 .. MaxReads
    BY RefusedAsked DEF Wiring
  <2> QED
    BY <2>1
<1>6. \A j, k \in 1 .. Len(q) : j < k => q[j].n < q[k].n
  BY <1>4 DEF ErrOrder
<1>7. CASE Head(q).left = 1
  <2>1. errReads'[m] = Tail(q)
    BY <1>1, <1>3, <1>7 DEF ErrReadsAfter
  <2> HIDE DEF q, E
  <2>2. /\ Len(Tail(q)) = Len(q) - 1
        /\ \A k \in 1 .. Len(q) - 1 : Tail(q)[k] = q[k + 1]
    BY <1>1, TailQueue
  <2>3. /\ \A k \in 1 .. Len(q) - 1 : k + 1 \in 1 .. Len(q) /\ 1 < k + 1 /\ k + 1 # 1
        /\ \A j, k \in 1 .. Len(q) - 1 : j < k => j + 1 < k + 1
        /\ \A j \in 1 .. Len(q) : 1 < j => j - 1 \in 1 .. Len(q) - 1 /\ (j - 1) + 1 = j
    BY <1>2
  <2>4. ErrOrder(m)'
    BY <1>6, <2>1, <2>2, <2>3 DEF ErrOrder
  <2>5. ErrProgress(m)'
    <3>1. ASSUME NEW k \in 1 .. Len(q) - 1
          PROVE  Tail(q)[k].left = reads[m][Tail(q)[k].n].beats
      <4>1. q[k + 1].left = reads[m][q[k + 1].n].beats
        BY <1>4, <2>3 DEF ErrProgress, q
      <4> QED
        BY <4>1, <2>2
    <3> QED
      BY <3>1, <2>1, <2>2, <1>3 DEF ErrProgress
  <2>6. ASSUME NEW n \in 1 .. MaxReads PROVE InErr(m, n)' <=> InErr(m, n) /\ Head(q).n # n
    <3>1. InErr(m, n)' <=> \E k \in 1 .. Len(q) - 1 : q[k + 1].n = n
      BY <2>1, <2>2 DEF InErr
    <3>2. InErr(m, n) <=> \E k \in 1 .. Len(q) : q[k].n = n
      BY DEF InErr, q
    <3>3. \A j \in 1 .. Len(q) : 1 < j => q[j].n # q[1].n
      BY <1>2, <1>5, <1>6
    <3>4. ASSUME NEW j \in 1 .. Len(q), 1 < j, q[j].n = n PROVE InErr(m, n)'
      BY <3>1, <3>4, <2>3
    <3> QED
      BY <3>1, <3>2, <3>3, <3>4, <1>2, <1>5, <2>3
  <2>7. Expires(m)
    BY <1>1, <1>7 DEF Expires, q
  <2> QED
    BY <1>2, <1>3, <2>4, <2>5, <2>6, <2>7 DEF q
<1>8. CASE Head(q).left # 1
  <2>1. errReads'[m] = r
    BY <1>1, <1>2, <1>3, <1>8 DEF ErrReadsAfter
  <2>2. DOMAIN q = 1 .. Len(q)
    BY <1>1, LenProperties
  <2>3. /\ DOMAIN r = 1 .. Len(q) /\ r[1] = [q[1] EXCEPT !.left = q[1].left - 1]
        /\ \A k \in 1 .. Len(q) : k # 1 => r[k] = q[k]
    <3> HIDE DEF q
    <3> QED
      BY <1>2, <2>2
  <2>4. r[1].n = q[1].n
    <3>1. q[1] \in E
      BY <1>1, <1>2, ElementOfSeq
    <3> HIDE DEF q, r
    <3> QED
      BY <3>1, <2>3
  <2>5. Len(r) = Len(q) /\ \A k \in 1 .. Len(q) : r[k].n = q[k].n
    <3>1. Len(r) = Len(q)
      <4>1. r \in Seq(E)
        BY <2>1, <1>3, ErrAfter DEF Wiring
      <4> HIDE DEF q, r, E
      <4> QED
        BY <4>1, <2>3, <1>2, LenProperties
    <3>2. \A k \in 1 .. Len(q) : r[k].n = q[k].n
      BY <2>3, <2>4
    <3> QED
      BY <3>1, <3>2
  <2>6. ErrProgress(m)'
    <3>1. ASSUME NEW k \in 1 .. Len(q), k # 1 PROVE r[k].left = reads[m][r[k].n].beats
      BY <3>1, <1>4, <2>3 DEF ErrProgress
    <3> HIDE DEF r, q
    <3> QED
      BY <3>1, <2>1, <2>5, <1>3 DEF ErrProgress
  <2> HIDE DEF r, q
  <2>7. ErrOrder(m)'
    BY <1>6, <2>1, <2>5 DEF ErrOrder
  <2>8. ASSUME NEW n \in 1 .. MaxReads PROVE InErr(m, n)' <=> InErr(m, n)
    BY <2>1, <2>5 DEF InErr, q
  <2>9. ~Expires(m)
    BY <1>8 DEF Expires, q
  <2> QED
    BY <1>2, <1>3, <2>6, <2>7, <2>8, <2>9 DEF q
<1> QED
  BY <1>7, <1>8

LEMMA EdgeRefused ==
  ASSUME Wiring, Delivery, Refused, Dedicated, Bursts, ClockEdge
  PROVE  Refused'
<1>1. UNCHANGED <<reads, arDone>> /\ ~trigger /\ Wired
  BY EdgeFrame
<1>2. ASSUME NEW m \in Masters, Expires(m) PROVE FromErr(m)
  <2>1. 1 \in 1 .. Len(errReads[m]) /\ Head(errReads[m]) = errReads[m][1] /\ errReads[m] # <<>>
    BY <1>2, EdgeErrQueue DEF Expires
  <2>2. /\ Mapped(m, errReads[m][1].n, Sink) /\ errReads[m][1].left = 1
        /\ reads[m][errReads[m][1].n].beats \in Nat
    BY <1>2, <2>1, RefusedAsked DEF Expires, Wiring
  <2>3. reads[m][errReads[m][1].n].beats >= 2
    BY <2>2, ReadTyped DEF Mapped, Bursts, Wiring, Asked
  <2>4. errReads[m][1].left # reads[m][errReads[m][1].n].beats
    BY <2>2, <2>3
  <2> QED
    BY <2>1, <2>4, <1>1 DEF Refused, ErrProgress, FromErr
<1>3. ASSUME NEW m \in Masters, NEW n \in 1 .. MaxReads, Read(m, n), reads[m][n].dst = Sink
      PROVE  n \in answered'[m] <=>
               n \in answered[m] \/ (Expires(m) /\ Head(errReads[m]).n = n)
  <2>1. n \in answered'[m] <=>
          n \in answered[m] \/ (Receives(m) /\ mOut[m].last /\ Head(Credited(m)) = n)
    BY EdgeMaster
  <2>2. ASSUME Receives(m), mOut[m].last, Head(Credited(m)) = n
        PROVE  Expires(m) /\ Head(errReads[m]).n = n
    <3>1. FromErr(m)
      BY <1>3, <2>2, RefusedCredit
    <3> QED
      BY <2>2, <3>1, ErrCredits DEF FromErr, Expires
  <2>3. ASSUME Expires(m), Head(errReads[m]).n = n
        PROVE  Receives(m) /\ mOut[m].last /\ Head(Credited(m)) = n
    BY <2>3, <1>2, ErrCredits DEF Expires
  <2> QED
    BY <2>1, <2>2, <2>3
<1>4. ASSUME NEW m \in Masters, errReads[m] = <<>>
      PROVE  errReads'[m] = <<>> /\ ~Expires(m)
  BY <1>4, EdgeMaster DEF ErrReadsAfter, Expires
<1>5. ASSUME NEW m \in Masters, NEW n \in 1 .. MaxReads
      PROVE  InErr(m, n)' <=> InErr(m, n) /\ ~(Expires(m) /\ Head(errReads[m]).n = n)
  BY <1>4, EdgeErrQueue DEF InErr
<1>6. ASSUME NEW m \in Masters, NEW n \in 1 .. MaxReads, Read(m, n), reads[m][n].dst = Sink
      PROVE  RefusedRead(m, n)'
  <2>1. RefusedRead(m, n)
    BY <1>6 DEF Refused, RefusedReads
  <2>2. Expires(m) /\ Head(errReads[m]).n = n => n <= arDone[m]
    <3>1. Expires(m) => Mapped(m, Head(errReads[m]).n, Sink)
      BY ErrBeatTyped DEF Expires, Wiring
    <3> QED
      BY <3>1 DEF Mapped
  <2>3. Expires(m) /\ Head(errReads[m]).n = n => InErr(m, n)
    BY EdgeErrQueue DEF Expires, InErr
  <2>4. \A j \in 1 .. Len(got'[m][n]) : got'[m][n][j].m = m /\ got'[m][n][j].n = n
    <3>1. CASE Receives(m) /\ Head(Credited(m)) = n
      <4> DEFINE g == got[m][n]
      <4>1. FromErr(m)
        BY <1>6, <3>1, RefusedCredit
      <4>2. mOut[m].m = m /\ mOut[m].n = n
        BY <3>1, <4>1, ErrCredits
      <4>3. got'[m][n] = Append(g, mOut[m]) /\ g \in Seq(Beats) /\ mOut[m] \in Beats
        <5>1. got[m] \in [1 .. MaxReads -> Seq(Beats)]
          BY DEF Wiring, TypeOK
        <5>2. g \in Seq(Beats)
          BY <5>1
        <5>3. got'[m][n] = Append(g, mOut[m])
          BY <3>1, EdgeGot
        <5>4. mOut[m] \in Beats
          BY <3>1, EdgeMaster
        <5> QED
          BY <5>2, <5>3, <5>4
      <4>4. \A j \in 1 .. Len(g) : g[j].m = m /\ g[j].n = n
        BY <2>1 DEF RefusedRead
      <4> HIDE DEF g
      <4>5. /\ Len(g) \in Nat /\ Len(Append(g, mOut[m])) = Len(g) + 1
            /\ Append(g, mOut[m])[Len(g) + 1] = mOut[m]
            /\ \A j \in 1 .. Len(g) : Append(g, mOut[m])[j] = g[j]
        BY <4>3, AppendQueue
      <4>6. \A j \in 1 .. Len(g) + 1 : j \in 1 .. Len(g) \/ j = Len(g) + 1
        BY <4>5
      <4> QED
        BY <4>2, <4>3, <4>4, <4>5, <4>6
    <3>2. CASE ~(Receives(m) /\ Head(Credited(m)) = n)
      BY <2>1, <3>2, EdgeGot DEF RefusedRead
    <3> QED
      BY <3>1, <3>2
  <2>5. n \in answered'[m] <=> n \in answered[m] \/ (Expires(m) /\ Head(errReads[m]).n = n)
    BY <1>3, <1>6
  <2> QED
    BY <2>1, <2>2, <2>3, <2>4, <2>5, <1>1, <1>5 DEF RefusedRead
<1>7. ASSUME NEW m \in Masters PROVE ErrOrder(m)' /\ ErrProgress(m)'
  <2>1. CASE errReads[m] = <<>>
    <3>1. errReads'[m] = <<>> /\ Len(<<>>) = 0 /\ \A k \in 1 .. 0 : FALSE
      BY <2>1, <1>4
    <3> QED
      BY <3>1 DEF ErrOrder, ErrProgress
  <2>2. CASE errReads[m] # <<>>
    BY <2>2, EdgeErrQueue
  <2> QED
    BY <2>1, <2>2
<1> QED
  BY <1>1, <1>6, <1>7 DEF Refused, RefusedReads, Read

LEMMA RefusedInit == Init => Refused
<1> SUFFICES ASSUME Init PROVE Refused
  OBVIOUS
<1>1. Len(<<>>) = 0 /\ \A i \in 1 .. 0 : FALSE
  OBVIOUS
<1>2. \A m \in Masters : ~ \E n : Read(m, n)
  BY <1>1 DEF Init, Read
<1> QED
  BY <1>1, <1>2 DEF Init, Refused, RefusedReads, ErrOrder, ErrProgress

LEMMA RefusedNext ==
  ASSUME Dedicated, Bursts
  PROVE  Wiring /\ Delivery /\ Refused /\ [Next]_vars => Refused'
<1> SUFFICES ASSUME Wiring, Delivery, Refused, [Next]_vars PROVE Refused'
  OBVIOUS
<1>1. ASSUME NEW m \in Masters, NEW r \in Shapes, IssueRead(m, r) PROVE Refused'
  BY <1>1, IssueRefused
<1>2. ASSUME NEW m \in Masters, ArStep(m) PROVE Refused'
  BY <1>2, DecerrRefused, ForwardRefused DEF ArStep
<1>3. ASSUME NEW m \in Masters, ReleaseRead(m) PROVE Refused'
  BY <1>3, KeptRefusal DEF ReleaseRead, wireVars
<1>4. ASSUME NEW s \in Slaves, SlaveAr(s) \/ MemStep(s) PROVE Refused'
  BY <1>4, KeptRefusal DEF SlaveAr, MemStep, MemComplete, masterVars, wireVars
<1>5. ASSUME NEW s \in Slaves, SlaveRValid(s) PROVE Refused'
  BY <1>5, KeptRefusal DEF SlaveRValid, masterVars, wireVars
<1>6. CASE UNCHANGED vars
  BY <1>6, KeptRefusal DEF vars, masterVars, wireVars
<1> QED
  BY <1>1, <1>2, <1>3, <1>4, <1>5, <1>6, EdgeRefused, SettleRefused DEF Next

\* What the slot of a read receives is a prefix of the read's own beats, all of them once it is
\* done, whatever the other masters, slaves and refused reads do (axi_master.h r_thread, which
\* files a beat under the oldest read of its id, and the bus, which decides the order).
THEOREM SlotsAlwaysOwnBeats ==
  ASSUME Roomy, Dedicated, Bursts
  PROVE  Spec => []SlotsHoldTheirOwnBeats
<1>1. Wiring /\ Delivery /\ Refused /\ [Next]_vars => Refused'
  BY RefusedNext
<1>2. Wiring /\ Delivery /\ Refused => SlotsHoldTheirOwnBeats
  <2> SUFFICES ASSUME Wiring, Delivery, Refused, NEW m \in Masters, NEW n \in 1 .. Len(reads[m])
               PROVE  IF reads[m][n].dst = Sink
                        THEN \A j \in DOMAIN got[m][n] : got[m][n][j].m = m /\ got[m][n][j].n = n
                        ELSE /\ \A j \in DOMAIN got[m][n] : got[m][n][j] = Beat(m, n, j)
                             /\ n \in answered[m] => Len(got[m][n]) = reads[m][n].beats
    BY DEF SlotsHoldTheirOwnBeats
  <2>1. Read(m, n) /\ n \in 1 .. MaxReads /\ reads[m][n].dst \in 0 .. NumS
    BY ReadTyped DEF Read, Wiring, Asked
  <2>2. DOMAIN got[m][n] = 1 .. Len(got[m][n])
    <3>1. got[m] \in [1 .. MaxReads -> Seq(Beats)]
      BY DEF Wiring, TypeOK
    <3>2. got[m][n] \in Seq(Beats)
      BY <2>1, <3>1
    <3> QED
      BY <3>2, LenProperties
  <2>3. CASE reads[m][n].dst = Sink
    BY <2>1, <2>2, <2>3 DEF Refused, RefusedReads, RefusedRead
  <2>4. CASE reads[m][n].dst # Sink
    <3>1. reads[m][n].dst \in Slaves
      BY <2>1, <2>4, Members DEF Slaves, Sink
    <3>2. SlotFilled(m, n, reads[m][n].dst)
      BY <2>1, <3>1 DEF Delivery, Slots
    <3> QED
      BY <2>2, <2>4, <3>2 DEF SlotFilled
  <2> QED
    BY <2>3, <2>4
<1> QED
  BY <1>1, <1>2, RefusedInit, ReadsDelivered, ReadWiring, PTL DEF Spec
=============================================================================
