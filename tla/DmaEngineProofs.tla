-------------------------- MODULE DmaEngineProofs --------------------------
(***************************************************************************)
(* Proofs about DmaEngine, for every number of tickets, every FIFO, every  *)
(* length of transfers and both ways of using a channel: the pool of       *)
(* tickets is never corrupted, a window with room always finds a ticket,   *)
(* and the engine implements DmaChannel.                                   *)
(***************************************************************************)
EXTENDS DmaEngine, QueueLemmas, TLAPS

----------------------------------------------------------------------------
(* The pool of tickets *)

\* q and r are the in-flight queues of the two users, o the tickets on the bus.
\* A ticket in use is in one of q and r and either on the bus or answered.
SoundPool(q, r, o, sl, ans, S) ==
  /\ Distinct(q) /\ Distinct(r) /\ Distinct(o)
  /\ \A k \in S : ~(Holds(q, k) /\ Holds(r, k)) /\ ~(Holds(o, k) /\ k \in ans)
  /\ \A k \in S : sl[k] # NoBurst <=> Holds(q, k) \/ Holds(r, k)
  /\ \A k \in S : sl[k] # NoBurst <=> Holds(o, k) \/ k \in ans

LEMMA PoolSymmetric ==
  ASSUME NEW S, NEW q, NEW r, NEW o, NEW sl, NEW ans, SoundPool(q, r, o, sl, ans, S)
  PROVE  SoundPool(r, q, o, sl, ans, S)
BY DEF SoundPool

\* Issuing a burst with a free ticket keeps the pool sound.
LEMMA PoolIssue ==
  ASSUME NEW S, NEW B, NEW q \in Seq(S), NEW r \in Seq(S), NEW o \in Seq(S),
         NEW sl \in [S -> B], NEW ans, SoundPool(q, r, o, sl, ans, S),
         NEW k \in S, sl[k] = NoBurst, NEW b, b # NoBurst
  PROVE  SoundPool(Append(q, k), r, Append(o, k), [sl EXCEPT ![k] = b], ans, S)
<1> DEFINE sn == [sl EXCEPT ![k] = b]
<1>1. sn[k] = b /\ \A x \in S : x # k => sn[x] = sl[x]
  OBVIOUS
<1>2. ~Holds(q, k) /\ ~Holds(r, k) /\ ~Holds(o, k) /\ k \notin ans
  BY DEF SoundPool
<1>3. /\ Distinct(Append(q, k)) /\ Distinct(Append(o, k)) /\ Distinct(r)
      /\ \A x : Holds(Append(q, k), x) <=> Holds(q, x) \/ x = k
      /\ \A x : Holds(Append(o, k), x) <=> Holds(o, x) \/ x = k
  BY <1>2, AppendQueue DEF SoundPool
<1> HIDE DEF sn
<1>4. ASSUME NEW x \in S
      PROVE  /\ ~(Holds(Append(q, k), x) /\ Holds(r, x))
             /\ ~(Holds(Append(o, k), x) /\ x \in ans)
             /\ sn[x] # NoBurst <=> Holds(Append(q, k), x) \/ Holds(r, x)
             /\ sn[x] # NoBurst <=> Holds(Append(o, k), x) \/ x \in ans
  BY <1>1, <1>2, <1>3, Zenon DEF SoundPool
<1> QED
  BY <1>3, <1>4, Zenon DEF SoundPool, sn

\* Releasing the answered ticket at the head of a queue keeps it sound.
LEMMA PoolDrain ==
  ASSUME NEW S, NEW B, NEW q \in Seq(S), NEW r \in Seq(S), NEW o \in Seq(S),
         NEW sl \in [S -> B], NEW ans, SoundPool(q, r, o, sl, ans, S),
         q # <<>>, Head(q) \in ans
  PROVE  SoundPool(Tail(q), r, o, [sl EXCEPT ![Head(q)] = NoBurst], ans \ {Head(q)}, S)
<1> DEFINE k == Head(q)  sn == [sl EXCEPT ![k] = NoBurst]  an == ans \ {k}
<1>1. k \in S /\ Holds(q, k) /\ ~Holds(r, k) /\ ~Holds(o, k)
  BY TailQueue DEF SoundPool
<1>2. sn[k] = NoBurst /\ \A x \in S : x # k => sn[x] = sl[x]
  BY <1>1
<1>3. /\ Distinct(Tail(q)) /\ Distinct(r) /\ Distinct(o)
      /\ \A x : Holds(Tail(q), x) <=> Holds(q, x) /\ x # k
  BY TailQueue DEF SoundPool
<1>4. \A x : x \in an <=> x \in ans /\ x # k
  OBVIOUS
<1> HIDE DEF sn, an
<1>5. ASSUME NEW x \in S
      PROVE  /\ ~(Holds(Tail(q), x) /\ Holds(r, x)) /\ ~(Holds(o, x) /\ x \in an)
             /\ sn[x] # NoBurst <=> Holds(Tail(q), x) \/ Holds(r, x)
             /\ sn[x] # NoBurst <=> Holds(o, x) \/ x \in an
  BY <1>1, <1>2, <1>3, <1>4, Zenon DEF SoundPool
<1> QED
  BY <1>3, <1>5, Zenon DEF SoundPool, sn, an

\* The answer to the oldest burst keeps it sound.
LEMMA PoolAnswer ==
  ASSUME NEW S, NEW q, NEW r, NEW o \in Seq(S), NEW sl, NEW ans,
         SoundPool(q, r, o, sl, ans, S), o # <<>>
  PROVE  SoundPool(q, r, Tail(o), sl, ans \cup {Head(o)}, S)
<1> DEFINE k == Head(o)  an == ans \cup {k}
<1>1. /\ k \in S /\ Holds(o, k) /\ Distinct(Tail(o))
      /\ \A x : Holds(Tail(o), x) <=> Holds(o, x) /\ x # k
  BY TailQueue DEF SoundPool
<1>2. \A x : x \in an <=> x \in ans \/ x = k
  OBVIOUS
<1> HIDE DEF an
<1>3. ASSUME NEW x \in S
      PROVE  /\ ~(Holds(Tail(o), x) /\ x \in an)
             /\ sl[x] # NoBurst <=> Holds(Tail(o), x) \/ x \in an
  BY <1>1, <1>2, Zenon DEF SoundPool
<1> QED
  BY <1>1, <1>3, Zenon DEF SoundPool, an

InUse(sl, S) == {k \in S : sl[k] # NoBurst}

\* Soundness is the accounting the run checks, on the queues themselves.
LEMMA PoolAccounts ==
  ASSUME NEW S, IsFiniteSet(S), NEW q \in Seq(S), NEW r \in Seq(S), NEW o \in Seq(S), NEW sl,
         NEW ans \in SUBSET S, SoundPool(q, r, o, sl, ans, S)
  PROVE  /\ ValuesOf(q \o r) = InUse(sl, S)
         /\ Len(q \o r) = Cardinality(InUse(sl, S))
         /\ ValuesOf(o) \cup ans = InUse(sl, S)
         /\ Len(o) + Cardinality(ans) = Len(q \o r)
<1> DEFINE used == InUse(sl, S)  held == q \o r
           onBus == {k \in S : Holds(o, k)}
<1>1. /\ \A k : Holds(q, k) => k \in S
      /\ \A k : Holds(r, k) => k \in S
      /\ \A k : Holds(o, k) => k \in S
  BY DEF Holds
<1>2. \A k : k \in used <=> Holds(q, k) \/ Holds(r, k)
  BY <1>1 DEF SoundPool, InUse
<1>3. /\ used = ValuesOf(held)
      /\ IsFiniteSet(used) /\ Len(held) = Cardinality(used)
  <2>1. /\ Distinct(q) /\ Distinct(r) /\ \A k \in S : ~(Holds(q, k) /\ Holds(r, k))
        /\ \A k : k \in used <=> Holds(q, k) \/ Holds(r, k)
    BY <1>2 DEF SoundPool
  <2> HIDE DEF used, held
  <2>2. /\ used = ValuesOf(q \o r)
        /\ IsFiniteSet(used) /\ Len(q \o r) = Cardinality(used)
    BY <2>1, QueuesCount, ZenonT(40)
  <2> QED
    BY <2>2 DEF held
<1>4. /\ onBus = ValuesOf(o \o <<>>)
      /\ IsFiniteSet(onBus) /\ Len(o \o <<>>) = Cardinality(onBus)
  <2>1. /\ \A k : k \in onBus <=> Holds(o, k) \/ Holds(<<>>, k)
        /\ \A k \in S : ~(Holds(o, k) /\ Holds(<<>>, k))
        /\ Distinct(o) /\ Distinct(<<>>)
    BY <1>1, EmptyQueue DEF SoundPool
  <2>2. <<>> \in Seq(S)
    OBVIOUS
  <2> HIDE DEF onBus
  <2> QED
    BY <2>1, <2>2, QueuesCount, ZenonT(40)
<1>5. o \o <<>> = o
  OBVIOUS
<1>6. onBus \cup ans = used /\ onBus \cap ans = {}
  BY DEF SoundPool, InUse
<1>7. IsFiniteSet(ans)
  BY FS_Subset
<1>8. Cardinality(used) = Cardinality(onBus) + Cardinality(ans)
  <2>1. Cardinality(onBus \cup ans) =
          Cardinality(onBus) + Cardinality(ans) - Cardinality(onBus \cap ans)
    BY <1>4, <1>7, FS_Union
  <2>2. Cardinality(onBus \cap ans) = 0
    BY <1>6, FS_EmptySet
  <2>3. Cardinality(onBus) \in Nat /\ Cardinality(ans) \in Nat
    BY <1>4, <1>7, FS_CardinalityType
  <2>4. Cardinality(onBus \cup ans) = Cardinality(used)
    BY <1>6
  <2> HIDE DEF used, onBus
  <2> QED
    BY <2>1, <2>2, <2>3, <2>4
<1>9. ValuesOf(o) \cup ans = used
  BY <1>4, <1>5, <1>6
<1> HIDE DEF used, held, onBus
<1>10. Len(o) + Cardinality(ans) = Len(held)
  BY <1>3, <1>4, <1>5, <1>8
<1> QED
  BY <1>3, <1>9, <1>10 DEF used, held

----------------------------------------------------------------------------
(* The inductive invariant *)

Tickets == SoundPool(inFlight, pipe, order, slot, answered, Slots)

\* The four phases: start and done follow from the places of the two threads.
Handshake ==
  /\ start <=> rPc \in {"posted", "sampling"}
  /\ done <=> ePc = "acked"
  /\ rPc = "idle" => ePc = "idle"
  /\ rPc = "sampling" => ePc = "acked"
  /\ rPc = "dropping" => ePc \in {"idle", "acked"}

\* Bursts are carried in order; those in flight are the ones before eNext.
InOrder ==
  /\ \A i \in 1 .. Len(carried) : carried[i] = i
  /\ \A i \in 1 .. Len(inFlight) :
       slot[inFlight[i]] = <<"engine", eNext - 1 - Len(inFlight) + i>>

\* Where the engine is in its plan.
Place ==
  /\ ePc # "run" => inFlight = <<>>
  /\ ePc \in {"run", "acked"} => eLen = len
  /\ ePc = "acked" \/ rPc \in {"sampling", "dropping"} => eLen = len /\ Len(carried) = len
  /\ ePc = "run" =>
       /\ eNext <= eLen + 1
       /\ chan.isRead => Len(carried) + Len(inFlight) = eNext - 1
       /\ ~chan.isRead => Len(carried) \in {eNext - 1, eNext} /\ Len(carried) <= eLen

\* A thread that both requests and issues does one at a time.
OneAtATime ==
  /\ pPc = "idle" => pipe = <<>>
  /\ chan.sameThread => rPc = "idle" \/ pPc = "idle"

DmaInv == TypeOK /\ Tickets /\ Handshake /\ InOrder /\ Place /\ OneAtATime

----------------------------------------------------------------------------
(* Frames *)

FlagTypes == start \in BOOLEAN /\ done \in BOOLEAN
RequesterTypes ==
  rPc \in {"idle", "posted", "sampling", "dropping"} /\ rJobs \in 0 .. MaxJobs /\ len \in 0 .. MaxLen
EngineTypes ==
  /\ ePc \in {"idle", "setup", "run", "acked"}
  /\ eLen \in 0 .. MaxLen /\ eNext \in 1 .. MaxLen + 1
  /\ inFlight \in Seq(Slots) /\ carried \in Seq(1 .. MaxLen)
PipeTypes ==
  /\ pPc \in {"idle", "issue", "hold", "flush"} /\ pJobs \in 0 .. MaxJobs
  /\ pLeft \in 0 .. MaxLen /\ pipe \in Seq(Slots)
Bursts == ({"engine", "pipe"} \X (1 .. MaxLen)) \cup {NoBurst}
AxiTypes ==
  slot \in [Slots -> Bursts] /\ order \in Seq(Slots) /\ answered \subseteq Slots
Types ==
  /\ chan \in Channels /\ cpu \in {"none", "requester", "engine", "pipe", "bus"}
  /\ FlagTypes /\ RequesterTypes /\ EngineTypes /\ PipeTypes /\ AxiTypes

LEMMA TypeParts == (TypeOK <=> Types) /\ (TypeOK' <=> Types')
<1>1. TypeOK <=> Types
  BY DEF TypeOK, Types, FlagTypes, RequesterTypes, EngineTypes, PipeTypes, AxiTypes, Bursts
<1>2. TypeOK' <=> Types'
  BY DEF TypeOK, Types, FlagTypes, RequesterTypes, EngineTypes, PipeTypes, AxiTypes, Bursts
<1> QED
  BY <1>1, <1>2

\* What a step leaves alone keeps its type.
LEMMA TypesFrame ==
  ASSUME Types, Slots' = Slots
  PROVE  /\ UNCHANGED <<start, done>> => FlagTypes'
         /\ UNCHANGED <<rPc, rJobs, len>> => RequesterTypes'
         /\ UNCHANGED <<ePc, eLen, eNext, inFlight, carried>> => EngineTypes'
         /\ UNCHANGED pipeVars => PipeTypes'
         /\ UNCHANGED axiVars => AxiTypes'
<1>1. UNCHANGED <<start, done>> => FlagTypes'
  BY DEF Types, FlagTypes
<1>2. UNCHANGED <<rPc, rJobs, len>> => RequesterTypes'
  BY DEF Types, RequesterTypes
<1>3. UNCHANGED <<ePc, eLen, eNext, inFlight, carried>> => EngineTypes'
  BY DEF Types, EngineTypes
<1>4. UNCHANGED pipeVars => PipeTypes'
  BY DEF Types, PipeTypes, pipeVars
<1>5. UNCHANGED axiVars => AxiTypes'
  BY DEF Types, AxiTypes, axiVars
<1> QED
  BY <1>1, <1>2, <1>3, <1>4, <1>5

LEMMA TicketsFrame ==
  ASSUME Tickets, Slots' = Slots, UNCHANGED <<inFlight, pipe, axiVars>>
  PROVE  Tickets'
BY DEF Tickets, axiVars

LEMMA OrderFrame ==
  ASSUME InOrder, UNCHANGED <<carried, eNext, inFlight, slot>>
  PROVE  InOrder'
BY DEF InOrder

\* A thread's turn changes nothing that the invariant is about.
LEMMA TurnFrame ==
  ASSUME Types, NEW t \in {"requester", "engine", "pipe", "bus"}, Turn(t)
  PROVE  /\ chan' = chan /\ chan' \in Channels /\ Slots' = Slots
         /\ cpu' \in {"none", "requester", "engine", "pipe", "bus"}
BY DEF Turn, Types, Slots

LEMMA InitDma == Init => DmaInv
<1> SUFFICES ASSUME Init PROVE DmaInv
  OBVIOUS
<1>0. MaxLen \in Nat /\ MaxJobs \in Nat
  BY DmaAssumption
<1>1. FlagTypes
  BY Zenon DEF Init, FlagTypes
<1>2. RequesterTypes
  BY <1>0 DEF Init, RequesterTypes
<1>3. EngineTypes
  BY <1>0 DEF Init, EngineTypes
<1>4. PipeTypes
  BY <1>0 DEF Init, PipeTypes
<1>5. AxiTypes
  BY DEF Init, AxiTypes, Bursts
<1>6. Types
  BY <1>1, <1>2, <1>3, <1>4, <1>5 DEF Init, Types
<1>7. Tickets
  BY EmptyQueue DEF Init, Tickets, SoundPool
<1>8. Handshake /\ InOrder /\ Place /\ OneAtATime
  BY DEF Init, Handshake, InOrder, Place, OneAtATime
<1> QED
  BY <1>6, <1>7, <1>8, TypeParts DEF DmaInv

LEMMA RequesterPostDma == DmaInv /\ RequesterPost => DmaInv'
<1> SUFFICES ASSUME DmaInv, RequesterPost PROVE DmaInv'
  OBVIOUS
<1>0. Types /\ MaxJobs \in Nat /\ MaxLen \in Nat
  BY DmaAssumption, TypeParts DEF DmaInv
<1>1. /\ chan' = chan /\ chan' \in Channels /\ Slots' = Slots
      /\ cpu' \in {"none", "requester", "engine", "pipe", "bus"}
  BY <1>0, TurnFrame DEF RequesterPost
<1>2. FlagTypes'
  BY <1>0, Zenon DEF RequesterPost, Types, FlagTypes, engVars, reqVars
<1>3. RequesterTypes'
  BY <1>0, <1>1 DEF RequesterPost, Types, RequesterTypes
<1>4. Types'
  BY <1>0, <1>1, <1>2, <1>3, TypesFrame DEF RequesterPost, Types, engVars, reqVars
<1>5. Tickets' /\ InOrder'
  BY <1>0, <1>1, TicketsFrame, OrderFrame DEF RequesterPost, DmaInv, engVars, pipeVars, axiVars
<1>6. Handshake'
  BY <1>0, <1>1 DEF RequesterPost, DmaInv, Handshake, engVars, reqVars
<1>7. Place'
  BY <1>0, <1>1 DEF RequesterPost, DmaInv, Handshake, Place, engVars, reqVars
<1>8. OneAtATime'
  BY <1>0, <1>1 DEF RequesterPost, DmaInv, Handshake, OneAtATime, reqVars, pipeVars
<1> QED
  BY <1>4, <1>5, <1>6, <1>7, <1>8, TypeParts DEF DmaInv

LEMMA RequesterSeesDoneDma == DmaInv /\ RequesterSeesDone => DmaInv'
<1> SUFFICES ASSUME DmaInv, RequesterSeesDone PROVE DmaInv'
  OBVIOUS
<1>0. Types /\ MaxJobs \in Nat /\ MaxLen \in Nat
  BY DmaAssumption, TypeParts DEF DmaInv
<1>1. /\ chan' = chan /\ chan' \in Channels /\ Slots' = Slots
      /\ cpu' \in {"none", "requester", "engine", "pipe", "bus"}
  BY <1>0, TurnFrame DEF RequesterSeesDone
<1>2. RequesterTypes'
  BY <1>0, <1>1 DEF RequesterSeesDone, Types, RequesterTypes
<1>3. Types'
  BY <1>0, <1>1, <1>2, TypesFrame DEF RequesterSeesDone, Types, engVars, reqVars
<1>4. Tickets' /\ InOrder'
  BY <1>0, <1>1, TicketsFrame, OrderFrame DEF RequesterSeesDone, DmaInv, engVars, pipeVars, axiVars
<1>5. Handshake'
  BY <1>0, <1>1 DEF RequesterSeesDone, DmaInv, Handshake, engVars, reqVars
<1>6. Place'
  BY <1>0, <1>1 DEF RequesterSeesDone, DmaInv, Handshake, Place, engVars, reqVars
<1>7. OneAtATime'
  BY <1>0, <1>1 DEF RequesterSeesDone, DmaInv, Handshake, OneAtATime, reqVars, pipeVars
<1> QED
  BY <1>3, <1>4, <1>5, <1>6, <1>7, TypeParts DEF DmaInv

LEMMA RequesterDropsStartDma == DmaInv /\ RequesterDropsStart => DmaInv'
<1> SUFFICES ASSUME DmaInv, RequesterDropsStart PROVE DmaInv'
  OBVIOUS
<1>0. Types /\ MaxJobs \in Nat /\ MaxLen \in Nat
  BY DmaAssumption, TypeParts DEF DmaInv
<1>1. /\ chan' = chan /\ chan' \in Channels /\ Slots' = Slots
      /\ cpu' \in {"none", "requester", "engine", "pipe", "bus"}
  BY <1>0, TurnFrame DEF RequesterDropsStart
<1>2. FlagTypes'
  BY <1>0, Zenon DEF RequesterDropsStart, Types, FlagTypes, engVars, reqVars
<1>3. RequesterTypes'
  BY <1>0, <1>1 DEF RequesterDropsStart, Types, RequesterTypes
<1>4. Types'
  BY <1>0, <1>1, <1>2, <1>3, TypesFrame DEF RequesterDropsStart, Types, engVars, reqVars
<1>5. Tickets' /\ InOrder'
  BY <1>0, <1>1, TicketsFrame, OrderFrame DEF RequesterDropsStart, DmaInv, engVars, pipeVars, axiVars
<1>6. Handshake'
  BY <1>0, <1>1 DEF RequesterDropsStart, DmaInv, Handshake, engVars, reqVars
<1>7. Place'
  BY <1>0, <1>1 DEF RequesterDropsStart, DmaInv, Handshake, Place, engVars, reqVars
<1>8. OneAtATime'
  BY <1>0, <1>1 DEF RequesterDropsStart, DmaInv, Handshake, OneAtATime, reqVars, pipeVars
<1> QED
  BY <1>4, <1>5, <1>6, <1>7, <1>8, TypeParts DEF DmaInv

LEMMA RequesterReturnsDma == DmaInv /\ RequesterReturns => DmaInv'
<1> SUFFICES ASSUME DmaInv, RequesterReturns PROVE DmaInv'
  OBVIOUS
<1>0. Types /\ MaxJobs \in Nat /\ MaxLen \in Nat
  BY DmaAssumption, TypeParts DEF DmaInv
<1>1. /\ chan' = chan /\ chan' \in Channels /\ Slots' = Slots
      /\ cpu' \in {"none", "requester", "engine", "pipe", "bus"}
  BY <1>0, TurnFrame DEF RequesterReturns
<1>2. RequesterTypes'
  BY <1>0, <1>1 DEF RequesterReturns, Types, RequesterTypes
<1>3. Types'
  BY <1>0, <1>1, <1>2, TypesFrame DEF RequesterReturns, Types, engVars, reqVars
<1>4. Tickets' /\ InOrder'
  BY <1>0, <1>1, TicketsFrame, OrderFrame DEF RequesterReturns, DmaInv, engVars, pipeVars, axiVars
<1>5. Handshake'
  BY <1>0, <1>1 DEF RequesterReturns, DmaInv, Handshake, engVars, reqVars
<1>6. Place'
  BY <1>0, <1>1 DEF RequesterReturns, DmaInv, Handshake, Place, engVars, reqVars
<1>7. OneAtATime'
  BY <1>0, <1>1 DEF RequesterReturns, DmaInv, Handshake, OneAtATime, reqVars, pipeVars
<1> QED
  BY <1>3, <1>4, <1>5, <1>6, <1>7, TypeParts DEF DmaInv

LEMMA EngineStartDma == DmaInv /\ EngineStart => DmaInv'
<1> SUFFICES ASSUME DmaInv, EngineStart PROVE DmaInv'
  OBVIOUS
<1>0. Types /\ MaxJobs \in Nat /\ MaxLen \in Nat
  BY DmaAssumption, TypeParts DEF DmaInv
<1>1. /\ chan' = chan /\ chan' \in Channels /\ Slots' = Slots
      /\ cpu' \in {"none", "requester", "engine", "pipe", "bus"}
  BY <1>0, TurnFrame DEF EngineStart
<1>2. FlagTypes'
  BY <1>0, Zenon DEF EngineStart, Types, FlagTypes, engVars, reqVars
<1>3. EngineTypes'
  BY <1>0, <1>1 DEF EngineStart, Types, EngineTypes
<1>4. Types'
  BY <1>0, <1>1, <1>2, <1>3, TypesFrame DEF EngineStart, Types, engVars, reqVars
<1>5. Tickets' /\ InOrder'
  BY <1>0, <1>1, TicketsFrame, OrderFrame DEF EngineStart, DmaInv, engVars, pipeVars, axiVars
<1>6. Handshake'
  BY <1>0, <1>1 DEF EngineStart, DmaInv, Handshake, engVars, reqVars
<1>7. Place'
  BY <1>0, <1>1 DEF EngineStart, DmaInv, Handshake, Place, engVars, reqVars
<1>8. OneAtATime'
  BY <1>0, <1>1 DEF EngineStart, DmaInv, Handshake, OneAtATime, reqVars, pipeVars
<1> QED
  BY <1>4, <1>5, <1>6, <1>7, <1>8, TypeParts DEF DmaInv

LEMMA EnginePlanDma == DmaInv /\ EnginePlan => DmaInv'
<1> SUFFICES ASSUME DmaInv, EnginePlan PROVE DmaInv'
  OBVIOUS
<1>0. Types /\ MaxJobs \in Nat /\ MaxLen \in Nat
  BY DmaAssumption, TypeParts DEF DmaInv
<1>1. /\ chan' = chan /\ chan' \in Channels /\ Slots' = Slots
      /\ cpu' \in {"none", "requester", "engine", "pipe", "bus"}
  BY <1>0, TurnFrame DEF EnginePlan
<1>2. inFlight = <<>> /\ inFlight' = <<>> /\ carried' = <<>> /\ eNext' = 1 /\ eLen' = len /\ ePc' = "run"
  BY DEF EnginePlan, DmaInv, Place
<1>3. EngineTypes'
  BY <1>0, <1>1, <1>2 DEF Types, EngineTypes, RequesterTypes
<1>4. Types'
  BY <1>0, <1>1, <1>3, TypesFrame DEF EnginePlan, Types, reqVars
<1>5. Tickets'
  BY <1>1, TicketsFrame DEF EnginePlan, DmaInv, pipeVars
<1>6. InOrder'
  BY <1>2 DEF InOrder
<1>7. Handshake'
  BY <1>0 DEF EnginePlan, DmaInv, Handshake, reqVars
<1>8. Place'
  <2>1. rPc' \notin {"sampling", "dropping"} /\ len' = len
    BY DEF EnginePlan, DmaInv, Handshake, reqVars
  <2>2. len \in Nat
    BY <1>0 DEF Types, RequesterTypes
  <2> QED
    BY <1>1, <1>2, <2>1, <2>2 DEF Place
<1>9. OneAtATime'
  BY <1>1 DEF EnginePlan, DmaInv, OneAtATime, reqVars, pipeVars
<1> QED
  BY <1>4, <1>5, <1>6, <1>7, <1>8, <1>9, TypeParts DEF DmaInv

LEMMA EngineGatherDma == DmaInv /\ EngineGather => DmaInv'
<1> SUFFICES ASSUME DmaInv, EngineGather PROVE DmaInv'
  OBVIOUS
<1>0. Types /\ MaxJobs \in Nat /\ MaxLen \in Nat
  BY DmaAssumption, TypeParts DEF DmaInv
<1>1. /\ chan' = chan /\ chan' \in Channels /\ Slots' = Slots
      /\ cpu' \in {"none", "requester", "engine", "pipe", "bus"}
  BY <1>0, TurnFrame DEF EngineGather
<1>2. /\ ePc = "run" /\ ~chan.isRead /\ eNext <= eLen /\ carried' = Append(carried, eNext)
      /\ Len(carried) = eNext - 1 /\ eNext \in 1 .. MaxLen /\ carried \in Seq(1 .. MaxLen)
  BY <1>0 DEF EngineGather, MustGather, More, DmaInv, Place, Types, EngineTypes
<1>3. /\ carried' \in Seq(1 .. MaxLen) /\ Len(carried') = eNext
      /\ carried'[eNext] = eNext /\ \A i \in 1 .. eNext - 1 : carried'[i] = carried[i]
  BY <1>2, AppendQueue
<1>4. EngineTypes'
  BY <1>0, <1>1, <1>3 DEF EngineGather, Types, EngineTypes
<1>5. Types'
  BY <1>0, <1>1, <1>4, TypesFrame DEF EngineGather, Types, reqVars
<1>6. Tickets'
  BY <1>1, TicketsFrame DEF EngineGather, DmaInv, pipeVars
<1>7. InOrder'
  <2>1. \A i \in 1 .. eNext : i \in 1 .. eNext - 1 \/ i = eNext
    BY <1>2
  <2>2. \A i \in 1 .. Len(carried') : carried'[i] = i
    BY <1>2, <1>3, <2>1 DEF DmaInv, InOrder
  <2> QED
    BY <2>2 DEF EngineGather, DmaInv, InOrder, axiVars
<1>8. Handshake'
  BY <1>0 DEF EngineGather, DmaInv, Handshake, reqVars
<1>9. Place'
  BY <1>0, <1>1, <1>2, <1>3 DEF EngineGather, DmaInv, Handshake, Place, reqVars
<1>10. OneAtATime'
  BY <1>1 DEF EngineGather, DmaInv, OneAtATime, reqVars, pipeVars
<1> QED
  BY <1>5, <1>6, <1>7, <1>8, <1>9, <1>10, TypeParts DEF DmaInv

LEMMA EngineDoneDma == DmaInv /\ EngineDone => DmaInv'
<1> SUFFICES ASSUME DmaInv, EngineDone PROVE DmaInv'
  OBVIOUS
<1>0. Types /\ MaxJobs \in Nat /\ MaxLen \in Nat
  BY DmaAssumption, TypeParts DEF DmaInv
<1>1. /\ chan' = chan /\ chan' \in Channels /\ Slots' = Slots
      /\ cpu' \in {"none", "requester", "engine", "pipe", "bus"}
  BY <1>0, TurnFrame DEF EngineDone
<1>2. FlagTypes'
  BY <1>0, Zenon DEF EngineDone, Types, FlagTypes, engVars, reqVars
<1>3. EngineTypes'
  BY <1>0, <1>1 DEF EngineDone, Types, EngineTypes
<1>4. Types'
  BY <1>0, <1>1, <1>2, <1>3, TypesFrame DEF EngineDone, Types, engVars, reqVars
<1>5. Tickets' /\ InOrder'
  BY <1>0, <1>1, TicketsFrame, OrderFrame DEF EngineDone, DmaInv, engVars, pipeVars, axiVars
<1>6. Handshake'
  BY <1>0, <1>1 DEF EngineDone, DmaInv, Handshake, engVars, reqVars
<1>7. Place'
  <2>1. /\ ePc = "run" /\ ePc' = "acked" /\ inFlight = <<>> /\ inFlight' = <<>> /\ eLen' = len /\ len' = len
        /\ eNext \in Nat /\ eLen \in Nat /\ Len(carried) \in Nat /\ eNext <= eLen + 1 /\ ~(eNext <= eLen)
    BY <1>0 DEF EngineDone, More, Types, EngineTypes, DmaInv, Place, reqVars
  <2>2. Len(carried) = len
    BY <2>1 DEF EngineDone, DmaInv, Place
  <2> QED
    BY <2>1, <2>2 DEF EngineDone, Place, reqVars
<1>8. OneAtATime'
  BY <1>0, <1>1 DEF EngineDone, DmaInv, Handshake, OneAtATime, reqVars, pipeVars
<1> QED
  BY <1>4, <1>5, <1>6, <1>7, <1>8, TypeParts DEF DmaInv

LEMMA EngineDropsDoneDma == DmaInv /\ EngineDropsDone => DmaInv'
<1> SUFFICES ASSUME DmaInv, EngineDropsDone PROVE DmaInv'
  OBVIOUS
<1>0. Types /\ MaxJobs \in Nat /\ MaxLen \in Nat
  BY DmaAssumption, TypeParts DEF DmaInv
<1>1. /\ chan' = chan /\ chan' \in Channels /\ Slots' = Slots
      /\ cpu' \in {"none", "requester", "engine", "pipe", "bus"}
  BY <1>0, TurnFrame DEF EngineDropsDone
<1>2. FlagTypes'
  BY <1>0, Zenon DEF EngineDropsDone, Types, FlagTypes, engVars, reqVars
<1>3. EngineTypes'
  BY <1>0, <1>1 DEF EngineDropsDone, Types, EngineTypes
<1>4. Types'
  BY <1>0, <1>1, <1>2, <1>3, TypesFrame DEF EngineDropsDone, Types, engVars, reqVars
<1>5. Tickets' /\ InOrder'
  BY <1>0, <1>1, TicketsFrame, OrderFrame DEF EngineDropsDone, DmaInv, engVars, pipeVars, axiVars
<1>6. Handshake'
  BY <1>0, <1>1 DEF EngineDropsDone, DmaInv, Handshake, engVars, reqVars
<1>7. Place'
  BY <1>0, <1>1 DEF EngineDropsDone, DmaInv, Handshake, Place, engVars, reqVars
<1>8. OneAtATime'
  BY <1>0, <1>1 DEF EngineDropsDone, DmaInv, Handshake, OneAtATime, reqVars, pipeVars
<1> QED
  BY <1>4, <1>5, <1>6, <1>7, <1>8, TypeParts DEF DmaInv

LEMMA PipeCallDma == DmaInv /\ PipeCall => DmaInv'
<1> SUFFICES ASSUME DmaInv, PipeCall PROVE DmaInv'
  OBVIOUS
<1>0. Types /\ MaxJobs \in Nat /\ MaxLen \in Nat
  BY DmaAssumption, TypeParts DEF DmaInv
<1>1. /\ chan' = chan /\ chan' \in Channels /\ Slots' = Slots
      /\ cpu' \in {"none", "requester", "engine", "pipe", "bus"}
  BY <1>0, TurnFrame DEF PipeCall
<1>2. PipeTypes'
  BY <1>0, <1>1 DEF PipeCall, Types, PipeTypes
<1>3. Types'
  BY <1>0, <1>1, <1>2, TypesFrame DEF PipeCall, Types, engVars, reqVars
<1>4. Tickets' /\ InOrder'
  BY <1>0, <1>1, TicketsFrame, OrderFrame DEF PipeCall, DmaInv, engVars, pipeVars, axiVars
<1>5. Handshake'
  BY <1>0, <1>1 DEF PipeCall, DmaInv, Handshake, engVars, reqVars
<1>6. Place'
  BY <1>0, <1>1 DEF PipeCall, DmaInv, Handshake, Place, engVars, reqVars
<1>7. OneAtATime'
  BY <1>0, <1>1 DEF PipeCall, DmaInv, Handshake, OneAtATime, reqVars, pipeVars
<1> QED
  BY <1>3, <1>4, <1>5, <1>6, <1>7, TypeParts DEF DmaInv

LEMMA PipeReturnDma == DmaInv /\ PipeReturn => DmaInv'
<1> SUFFICES ASSUME DmaInv, PipeReturn PROVE DmaInv'
  OBVIOUS
<1>0. Types /\ MaxJobs \in Nat /\ MaxLen \in Nat
  BY DmaAssumption, TypeParts DEF DmaInv
<1>1. /\ chan' = chan /\ chan' \in Channels /\ Slots' = Slots
      /\ cpu' \in {"none", "requester", "engine", "pipe", "bus"}
  BY <1>0, TurnFrame DEF PipeReturn
<1>2. PipeTypes'
  BY <1>0, <1>1 DEF PipeReturn, Types, PipeTypes
<1>3. Types'
  BY <1>0, <1>1, <1>2, TypesFrame DEF PipeReturn, Types, engVars, reqVars
<1>4. Tickets' /\ InOrder'
  BY <1>0, <1>1, TicketsFrame, OrderFrame DEF PipeReturn, DmaInv, engVars, pipeVars, axiVars
<1>5. Handshake'
  BY <1>0, <1>1 DEF PipeReturn, DmaInv, Handshake, engVars, reqVars
<1>6. Place'
  BY <1>0, <1>1 DEF PipeReturn, DmaInv, Handshake, Place, engVars, reqVars
<1>7. OneAtATime'
  BY <1>0, <1>1 DEF PipeReturn, DmaInv, Handshake, OneAtATime, reqVars, pipeVars
<1> QED
  BY <1>3, <1>4, <1>5, <1>6, <1>7, TypeParts DEF DmaInv

LEMMA PipeFlushDma == DmaInv /\ PipeFlush => DmaInv'
<1> SUFFICES ASSUME DmaInv, PipeFlush PROVE DmaInv'
  OBVIOUS
<1>0. Types /\ MaxJobs \in Nat /\ MaxLen \in Nat
  BY DmaAssumption, TypeParts DEF DmaInv
<1>1. /\ chan' = chan /\ chan' \in Channels /\ Slots' = Slots
      /\ cpu' \in {"none", "requester", "engine", "pipe", "bus"}
  BY <1>0, TurnFrame DEF PipeFlush
<1>2. PipeTypes'
  BY <1>0, <1>1 DEF PipeFlush, Types, PipeTypes
<1>3. Types'
  BY <1>0, <1>1, <1>2, TypesFrame DEF PipeFlush, Types, engVars, reqVars
<1>4. Tickets' /\ InOrder'
  BY <1>0, <1>1, TicketsFrame, OrderFrame DEF PipeFlush, DmaInv, engVars, pipeVars, axiVars
<1>5. Handshake'
  BY <1>0, <1>1 DEF PipeFlush, DmaInv, Handshake, engVars, reqVars
<1>6. Place'
  BY <1>0, <1>1 DEF PipeFlush, DmaInv, Handshake, Place, engVars, reqVars
<1>7. OneAtATime'
  BY <1>0, <1>1 DEF PipeFlush, DmaInv, Handshake, OneAtATime, reqVars, pipeVars
<1> QED
  BY <1>3, <1>4, <1>5, <1>6, <1>7, TypeParts DEF DmaInv

----------------------------------------------------------------------------
(* Steps that use the pool *)

FirstFree == CHOOSE x \in FreeSlots : \A y \in FreeSlots : x <= y

LEMMA FirstFreeIsFree ==
  ASSUME FreeSlots # {}
  PROVE  FirstFree \in FreeSlots
<1>1. FreeSlots \subseteq Nat
  BY DEF FreeSlots, Slots
<1>2. \E x \in FreeSlots : \A y \in FreeSlots : x <= y
  BY <1>1, LeastNatural
<1> QED
  BY <1>2 DEF FirstFree

\* What issuing burst b does, for the user whose queue q becomes qq; r is the other's.
Issued(b, q, r, qq) ==
  /\ AxiTypes' /\ qq \in Seq(Slots) /\ Len(qq) = Len(q) + 1 /\ Len(q) \in Nat
  /\ SoundPool(qq, r, order', slot', answered', Slots)
  /\ \A i \in 1 .. Len(q) : qq[i] = q[i]
  /\ slot'[qq[Len(q) + 1]] = b
  /\ \A x \in Slots : Holds(inFlight, x) \/ Holds(pipe, x) => slot'[x] = slot[x]

LEMMA IssueFrame ==
  ASSUME DmaInv, NEW b \in Bursts, b # NoBurst, NEW q \in Seq(Slots), NEW r, Slots' = Slots,
         \/ q = inFlight /\ r = pipe
         \/ q = pipe /\ r = inFlight,
         NEW qq, FreeSlots # {},
         slot' = [slot EXCEPT ![FirstFree] = b], order' = Append(order, FirstFree),
         qq = Append(q, FirstFree),
         answered' = answered
  PROVE  Issued(b, q, r, qq)
<1> DEFINE k == FirstFree
<1>0. Types /\ Tickets
  BY TypeParts DEF DmaInv
<1>1. k \in FreeSlots
  BY FirstFreeIsFree
<1> HIDE DEF k
<1>2. k \in Slots /\ slot[k] = NoBurst
  BY <1>1 DEF FreeSlots
<1>3. /\ slot \in [Slots -> Bursts] /\ order \in Seq(Slots) /\ answered \subseteq Slots
      /\ inFlight \in Seq(Slots) /\ pipe \in Seq(Slots)
  BY <1>0 DEF Types, AxiTypes, EngineTypes, PipeTypes
<1>4. slot' = [slot EXCEPT ![k] = b] /\ order' = Append(order, k) /\ qq = Append(q, k)
  BY DEF k
<1>5. slot' \in [Slots -> Bursts] /\ slot'[k] = b /\ \A x \in Slots : x # k => slot'[x] = slot[x]
  BY <1>2, <1>3, <1>4
<1>6. /\ order' \in Seq(Slots) /\ qq \in Seq(Slots) /\ Len(q) \in Nat /\ Len(qq) = Len(q) + 1
      /\ qq[Len(q) + 1] = k /\ \A i \in 1 .. Len(q) : qq[i] = q[i]
  <2>1. Append(order, k) \in Seq(Slots)
    BY <1>2, <1>3, AppendQueue
  <2>2. /\ Append(q, k) \in Seq(Slots) /\ Len(q) \in Nat /\ Len(Append(q, k)) = Len(q) + 1
        /\ Append(q, k)[Len(q) + 1] = k /\ \A i \in 1 .. Len(q) : Append(q, k)[i] = q[i]
    BY <1>2, AppendQueue
  <2> QED
    BY <1>4, <2>1, <2>2
<1>7. AxiTypes'
  BY <1>3, <1>5, <1>6 DEF AxiTypes, Bursts
<1>8. SoundPool(q, r, order, slot, answered, Slots) /\ r \in Seq(Slots)
  BY <1>0, <1>3, PoolSymmetric DEF Tickets
<1>9. SoundPool(qq, r, order', slot', answered', Slots)
  <2>1. SoundPool(Append(q, k), r, Append(order, k), [slot EXCEPT ![k] = b], answered, Slots)
    BY <1>2, <1>3, <1>8, PoolIssue
  <2> QED
    BY <1>4, <2>1
<1>10. ~Holds(inFlight, k) /\ ~Holds(pipe, k)
  BY <1>0, <1>2 DEF Tickets, SoundPool
<1> QED
  BY <1>5, <1>6, <1>7, <1>9, <1>10 DEF Issued

\* What draining the oldest burst does, for the user whose queue q becomes qq.
Drained(q, r, qq) ==
  /\ AxiTypes' /\ qq \in Seq(Slots) /\ Len(qq) = Len(q) - 1 /\ Len(q) \in Nat \ {0}
  /\ SoundPool(qq, r, order', slot', answered', Slots)
  /\ \A i \in 1 .. Len(q) - 1 : qq[i] = q[i + 1]
  /\ Head(q) = q[1]
  /\ \A x \in Slots : Holds(qq, x) \/ Holds(r, x) => slot'[x] = slot[x]

LEMMA DrainFrame ==
  ASSUME DmaInv, NEW q \in Seq(Slots), NEW r \in Seq(Slots), Slots' = Slots,
         \/ q = inFlight /\ r = pipe
         \/ q = pipe /\ r = inFlight,
         CanDrain(q), NEW qq, qq = Tail(q),
         slot' = [slot EXCEPT ![Head(q)] = NoBurst],
         answered' = answered \ {Head(q)}, order' = order
  PROVE  Drained(q, r, qq)
<1>0. Types /\ Tickets /\ q # <<>> /\ Head(q) \in answered
  BY TypeParts DEF DmaInv, CanDrain
<1>1. /\ slot \in [Slots -> Bursts] /\ order \in Seq(Slots) /\ answered \subseteq Slots
  BY <1>0 DEF Types, AxiTypes
<1>2. /\ qq \in Seq(Slots) /\ Len(qq) = Len(q) - 1 /\ Len(q) \in Nat \ {0} /\ Head(q) = q[1]
      /\ \A i \in 1 .. Len(q) - 1 : qq[i] = q[i + 1]
      /\ Head(q) \in Slots /\ Holds(q, Head(q))
  BY <1>0, TailQueue
<1>3. AxiTypes'
  <2>1. NoBurst \in Bursts
    BY DEF Bursts
  <2> QED
    BY <1>1, <1>2, <2>1 DEF AxiTypes, Bursts
<1>4. SoundPool(q, r, order, slot, answered, Slots)
  BY <1>0, PoolSymmetric DEF Tickets
<1>5. SoundPool(qq, r, order', slot', answered', Slots)
  BY <1>0, <1>1, <1>4, PoolDrain
<1>6. Distinct(q)
  BY <1>4 DEF SoundPool
<1>7. ~Holds(qq, Head(q)) /\ ~Holds(r, Head(q))
  BY <1>0, <1>2, <1>4, <1>6, TailQueue DEF SoundPool
<1>8. \A x \in Slots : x # Head(q) => slot'[x] = slot[x]
  BY <1>1
<1> QED
  BY <1>2, <1>3, <1>5, <1>7, <1>8 DEF Drained

LEMMA EngineIssueDma == DmaInv /\ EngineIssue => DmaInv'
<1> SUFFICES ASSUME DmaInv, EngineIssue PROVE DmaInv'
  OBVIOUS
<1>0. Types /\ MaxLen \in Nat
  BY DmaAssumption, TypeParts DEF DmaInv
<1>1. /\ chan' = chan /\ chan' \in Channels /\ Slots' = Slots
      /\ cpu' \in {"none", "requester", "engine", "pipe", "bus"}
  BY <1>0, TurnFrame DEF EngineIssue
<1>2. /\ ePc = "run" /\ eNext <= eLen /\ eNext \in 1 .. MaxLen /\ eLen \in 0 .. MaxLen
      /\ inFlight \in Seq(Slots) /\ pipe \in Seq(Slots)
  BY <1>0 DEF EngineIssue, More, Types, EngineTypes, PipeTypes
<1>3. <<"engine", eNext>> \in Bursts /\ <<"engine", eNext>> # NoBurst
  BY <1>2 DEF Bursts, NoBurst
<1>4. /\ slot' = [slot EXCEPT ![FirstFree] = <<"engine", eNext>>]
      /\ order' = Append(order, FirstFree) /\ inFlight' = Append(inFlight, FirstFree)
      /\ FreeSlots # {} /\ answered' = answered
  BY DEF EngineIssue, Issue, FirstFree
<1>5. /\ AxiTypes' /\ inFlight' \in Seq(Slots) /\ Len(inFlight') = Len(inFlight) + 1
      /\ Len(inFlight) \in Nat
      /\ SoundPool(inFlight', pipe, order', slot', answered', Slots)
      /\ \A i \in 1 .. Len(inFlight) : inFlight'[i] = inFlight[i]
      /\ slot'[inFlight'[Len(inFlight) + 1]] = <<"engine", eNext>>
      /\ \A x \in Slots : Holds(inFlight, x) \/ Holds(pipe, x) => slot'[x] = slot[x]
  <2>1. Issued(<<"engine", eNext>>, inFlight, pipe, inFlight')
    BY <1>1, <1>2, <1>3, <1>4, IssueFrame
  <2> QED
    BY <2>1 DEF Issued
<1>6. eNext' = eNext + 1 /\ UNCHANGED <<reqVars, ePc, done, eLen, carried, pipeVars>>
  BY DEF EngineIssue
<1>7. EngineTypes'
  BY <1>0, <1>1, <1>2, <1>5, <1>6 DEF Types, EngineTypes
<1>8. Types'
  BY <1>0, <1>1, <1>5, <1>6, <1>7, TypesFrame DEF Types, reqVars
<1>9. Tickets'
  BY <1>1, <1>5, <1>6 DEF Tickets, pipeVars
<1>10. InOrder'
  <2>1. ASSUME NEW i \in 1 .. Len(inFlight)
        PROVE  slot'[inFlight'[i]] = <<"engine", eNext' - 1 - Len(inFlight') + i>>
    <3>1. inFlight'[i] = inFlight[i] /\ inFlight[i] \in Slots /\ Holds(inFlight, inFlight[i])
      BY <1>2, <1>5 DEF Holds
    <3>2. slot'[inFlight'[i]] = slot[inFlight[i]]
      BY <1>5, <3>1
    <3>3. slot[inFlight[i]] = <<"engine", eNext - 1 - Len(inFlight) + i>>
      BY DEF DmaInv, InOrder
    <3>4. eNext - 1 - Len(inFlight) + i = eNext' - 1 - Len(inFlight') + i
      BY <1>2, <1>5, <1>6
    <3> QED
      BY <3>2, <3>3, <3>4
  <2>2. eNext' - 1 - Len(inFlight') + (Len(inFlight) + 1) = eNext
    BY <1>2, <1>5, <1>6
  <2>3. \A i \in 1 .. Len(inFlight') : i \in 1 .. Len(inFlight) \/ i = Len(inFlight) + 1
    BY <1>5
  <2>4. \A i \in 1 .. Len(inFlight') :
          slot'[inFlight'[i]] = <<"engine", eNext' - 1 - Len(inFlight') + i>>
    BY <1>5, <2>1, <2>2, <2>3
  <2> QED
    BY <1>6, <2>4 DEF DmaInv, InOrder
<1>11. Handshake'
  BY <1>6 DEF DmaInv, Handshake, reqVars
<1>12. Place'
  <2>1. Len(carried) \in Nat
    BY <1>0 DEF Types, EngineTypes
  <2>2. ~chan.isRead => ~(Len(carried) < eNext)
    BY <1>2 DEF EngineIssue, MustGather, More
  <2>3. /\ chan.isRead => Len(carried') + Len(inFlight') = eNext' - 1
        /\ ~chan.isRead => Len(carried') \in {eNext' - 1, eNext'} /\ Len(carried') <= eLen'
        /\ eNext' <= eLen' + 1
    BY <1>2, <1>5, <1>6, <2>1, <2>2 DEF DmaInv, Place
  <2> QED
    BY <1>1, <1>2, <1>6, <2>3 DEF DmaInv, Place, reqVars
<1>13. OneAtATime'
  BY <1>1, <1>6 DEF DmaInv, OneAtATime, reqVars, pipeVars
<1> QED
  BY <1>8, <1>9, <1>10, <1>11, <1>12, <1>13, TypeParts DEF DmaInv

LEMMA EngineDrainDma == DmaInv /\ EngineDrain => DmaInv'
<1> SUFFICES ASSUME DmaInv, EngineDrain PROVE DmaInv'
  OBVIOUS
<1>0. Types /\ MaxLen \in Nat
  BY DmaAssumption, TypeParts DEF DmaInv
<1>1. /\ chan' = chan /\ chan' \in Channels /\ Slots' = Slots
      /\ cpu' \in {"none", "requester", "engine", "pipe", "bus"}
  BY <1>0, TurnFrame DEF EngineDrain
<1>2. /\ ePc = "run" /\ eNext \in 1 .. MaxLen + 1 /\ eLen \in 0 .. MaxLen /\ eNext <= eLen + 1
      /\ inFlight \in Seq(Slots) /\ pipe \in Seq(Slots) /\ CanDrain(inFlight)
      /\ carried \in Seq(1 .. MaxLen)
  BY <1>0 DEF EngineDrain, Types, EngineTypes, PipeTypes, DmaInv, Place
<1>3. /\ slot' = [slot EXCEPT ![Head(inFlight)] = NoBurst] /\ inFlight' = Tail(inFlight)
      /\ answered' = answered \ {Head(inFlight)} /\ order' = order
  BY DEF EngineDrain, Drain
<1>4. UNCHANGED <<reqVars, ePc, done, eLen, eNext, pipeVars>>
  BY DEF EngineDrain
<1>5. /\ AxiTypes' /\ inFlight' \in Seq(Slots) /\ Len(inFlight') = Len(inFlight) - 1
      /\ Len(inFlight) \in Nat \ {0}
      /\ SoundPool(inFlight', pipe, order', slot', answered', Slots)
      /\ \A i \in 1 .. Len(inFlight) - 1 : inFlight'[i] = inFlight[i + 1]
      /\ Head(inFlight) = inFlight[1]
      /\ \A x \in Slots : Holds(inFlight', x) \/ Holds(pipe, x) => slot'[x] = slot[x]
  <2>1. Drained(inFlight, pipe, inFlight')
    BY <1>1, <1>2, <1>3, DrainFrame
  <2> QED
    BY <2>1 DEF Drained
<1>6. slot[Head(inFlight)] = <<"engine", eNext - Len(inFlight)>>
  <2>1. 1 \in 1 .. Len(inFlight) /\ eNext - 1 - Len(inFlight) + 1 = eNext - Len(inFlight)
    BY <1>2, <1>5
  <2> QED
    BY <1>5, <2>1 DEF DmaInv, InOrder
<1>7. /\ carried' \in Seq(1 .. MaxLen) /\ \A i \in 1 .. Len(carried') : carried'[i] = i
      /\ chan.isRead => Len(carried') + Len(inFlight') = eNext' - 1
      /\ ~chan.isRead => carried' = carried
  <2>1. CASE chan.isRead
    <3>1. /\ Len(carried) \in Nat /\ Len(carried) + Len(inFlight) = eNext - 1
          /\ eNext - Len(inFlight) = Len(carried) + 1 /\ Len(carried) + 1 \in 1 .. MaxLen
      BY <1>0, <1>2, <1>5, <2>1 DEF DmaInv, Place
    <3>2. carried' = Append(carried, Len(carried) + 1)
      BY <1>6, <2>1, <3>1 DEF EngineDrain
    <3>3. /\ carried' \in Seq(1 .. MaxLen) /\ Len(carried') = Len(carried) + 1
          /\ carried'[Len(carried) + 1] = Len(carried) + 1
          /\ \A i \in 1 .. Len(carried) : carried'[i] = carried[i]
      BY <1>2, <3>1, <3>2, AppendQueue
    <3>4. \A i \in 1 .. Len(carried) + 1 : i \in 1 .. Len(carried) \/ i = Len(carried) + 1
      BY <3>1
    <3>5. \A i \in 1 .. Len(carried') : carried'[i] = i
      BY <3>3, <3>4 DEF DmaInv, InOrder
    <3>6. Len(carried') + Len(inFlight') = eNext' - 1
      BY <1>2, <1>4, <1>5, <3>1, <3>3
    <3> QED
      BY <2>1, <3>3, <3>5, <3>6
  <2>2. CASE ~chan.isRead
    <3>1. carried' = carried
      BY <2>2 DEF EngineDrain
    <3> QED
      BY <1>2, <2>2, <3>1 DEF DmaInv, InOrder
  <2> QED
    BY <2>1, <2>2
<1>8. EngineTypes'
  BY <1>0, <1>1, <1>4, <1>5, <1>7 DEF Types, EngineTypes
<1>9. Types'
  BY <1>0, <1>1, <1>4, <1>5, <1>8, TypesFrame DEF Types, reqVars
<1>10. Tickets'
  BY <1>1, <1>4, <1>5 DEF Tickets, pipeVars
<1>11. InOrder'
  <2>1. ASSUME NEW i \in 1 .. Len(inFlight')
        PROVE  slot'[inFlight'[i]] = <<"engine", eNext' - 1 - Len(inFlight') + i>>
    <3>1. i \in 1 .. Len(inFlight) - 1 /\ i + 1 \in 1 .. Len(inFlight)
      BY <1>5
    <3>2. /\ inFlight'[i] = inFlight[i + 1] /\ inFlight'[i] \in Slots
          /\ Holds(inFlight', inFlight'[i])
      BY <1>2, <1>5, <3>1 DEF Holds
    <3>3. slot'[inFlight'[i]] = slot[inFlight[i + 1]]
      BY <1>5, <3>2
    <3>4. slot[inFlight[i + 1]] = <<"engine", eNext - 1 - Len(inFlight) + (i + 1)>>
      BY <3>1 DEF DmaInv, InOrder
    <3>5. eNext - 1 - Len(inFlight) + (i + 1) = eNext' - 1 - Len(inFlight') + i
      BY <1>2, <1>4, <1>5
    <3> QED
      BY <3>3, <3>4, <3>5
  <2> QED
    BY <1>7, <2>1 DEF InOrder
<1>12. Handshake'
  BY <1>4 DEF DmaInv, Handshake, reqVars
<1>13. Place'
  <2>1. rPc \notin {"sampling", "dropping"}
    BY <1>2 DEF DmaInv, Handshake
  <2> QED
    BY <1>1, <1>2, <1>4, <1>7, <2>1 DEF DmaInv, Place, reqVars
<1>14. OneAtATime'
  BY <1>1, <1>4 DEF DmaInv, OneAtATime, reqVars, pipeVars
<1> QED
  BY <1>9, <1>10, <1>11, <1>12, <1>13, <1>14, TypeParts DEF DmaInv

LEMMA PipeIssueDma == DmaInv /\ PipeIssue => DmaInv'
<1> SUFFICES ASSUME DmaInv, PipeIssue PROVE DmaInv'
  OBVIOUS
<1>0. Types /\ MaxLen \in Nat
  BY DmaAssumption, TypeParts DEF DmaInv
<1>1. /\ chan' = chan /\ chan' \in Channels /\ Slots' = Slots
      /\ cpu' \in {"none", "requester", "engine", "pipe", "bus"}
  BY <1>0, TurnFrame DEF PipeIssue
<1>2. /\ pPc = "issue" /\ pLeft \in 1 .. MaxLen
      /\ inFlight \in Seq(Slots) /\ pipe \in Seq(Slots)
  BY <1>0 DEF PipeIssue, Types, EngineTypes, PipeTypes
<1>3. <<"pipe", pLeft>> \in Bursts /\ <<"pipe", pLeft>> # NoBurst
  BY <1>2 DEF Bursts, NoBurst
<1>4. /\ slot' = [slot EXCEPT ![FirstFree] = <<"pipe", pLeft>>]
      /\ order' = Append(order, FirstFree) /\ pipe' = Append(pipe, FirstFree)
      /\ FreeSlots # {} /\ answered' = answered
  BY DEF PipeIssue, Issue, FirstFree
<1>5. /\ AxiTypes' /\ pipe' \in Seq(Slots)
      /\ SoundPool(pipe', inFlight, order', slot', answered', Slots)
      /\ \A x \in Slots : Holds(inFlight, x) \/ Holds(pipe, x) => slot'[x] = slot[x]
  <2>1. Issued(<<"pipe", pLeft>>, pipe, inFlight, pipe')
    BY <1>1, <1>2, <1>3, <1>4, IssueFrame
  <2> QED
    BY <2>1 DEF Issued
<1>6. pLeft' = pLeft - 1 /\ UNCHANGED <<reqVars, engVars, pPc, pJobs>>
  BY DEF PipeIssue
<1>7. PipeTypes'
  BY <1>0, <1>1, <1>2, <1>5, <1>6 DEF Types, PipeTypes
<1>8. Types'
  BY <1>0, <1>1, <1>5, <1>6, <1>7, TypesFrame DEF Types, reqVars, engVars
<1>9. Tickets'
  <2>1. SoundPool(inFlight, pipe', order', slot', answered', Slots)
    BY <1>5, PoolSymmetric
  <2> QED
    BY <1>1, <1>6, <2>1 DEF Tickets, engVars
<1>10. InOrder'
  <2>1. \A i \in 1 .. Len(inFlight) : inFlight[i] \in Slots /\ Holds(inFlight, inFlight[i])
    BY <1>2 DEF Holds
  <2>2. \A i \in 1 .. Len(inFlight) : slot'[inFlight[i]] = slot[inFlight[i]]
    BY <1>5, <2>1
  <2> QED
    BY <1>6, <2>2 DEF DmaInv, InOrder, engVars
<1>11. Handshake'
  BY <1>6 DEF DmaInv, Handshake, reqVars, engVars
<1>12. Place'
  BY <1>1, <1>6 DEF DmaInv, Place, reqVars, engVars
<1>13. OneAtATime'
  BY <1>1, <1>2, <1>6 DEF DmaInv, OneAtATime, reqVars, engVars
<1> QED
  BY <1>8, <1>9, <1>10, <1>11, <1>12, <1>13, TypeParts DEF DmaInv

LEMMA PipeDrainDma == DmaInv /\ PipeDrain => DmaInv'
<1> SUFFICES ASSUME DmaInv, PipeDrain PROVE DmaInv'
  OBVIOUS
<1>0. Types /\ MaxLen \in Nat
  BY DmaAssumption, TypeParts DEF DmaInv
<1>1. /\ chan' = chan /\ chan' \in Channels /\ Slots' = Slots
      /\ cpu' \in {"none", "requester", "engine", "pipe", "bus"}
  BY <1>0, TurnFrame DEF PipeDrain
<1>2. /\ pPc \in {"issue", "flush"} /\ inFlight \in Seq(Slots) /\ pipe \in Seq(Slots)
      /\ CanDrain(pipe)
  BY <1>0 DEF PipeDrain, Drain, Types, EngineTypes, PipeTypes
<1>3. /\ slot' = [slot EXCEPT ![Head(pipe)] = NoBurst] /\ pipe' = Tail(pipe)
      /\ answered' = answered \ {Head(pipe)} /\ order' = order
  BY DEF PipeDrain, Drain
<1>4. UNCHANGED <<reqVars, engVars, pPc, pJobs, pLeft>>
  BY DEF PipeDrain
<1>5. /\ AxiTypes' /\ pipe' \in Seq(Slots)
      /\ SoundPool(pipe', inFlight, order', slot', answered', Slots)
      /\ \A x \in Slots : Holds(pipe', x) \/ Holds(inFlight, x) => slot'[x] = slot[x]
  <2>1. Drained(pipe, inFlight, pipe')
    BY <1>1, <1>2, <1>3, DrainFrame
  <2> QED
    BY <2>1 DEF Drained
<1>6. PipeTypes'
  BY <1>0, <1>1, <1>4, <1>5 DEF Types, PipeTypes
<1>7. Types'
  BY <1>0, <1>1, <1>4, <1>5, <1>6, TypesFrame DEF Types, reqVars, engVars
<1>8. Tickets'
  <2>1. SoundPool(inFlight, pipe', order', slot', answered', Slots)
    BY <1>5, PoolSymmetric
  <2> QED
    BY <1>1, <1>4, <2>1 DEF Tickets, engVars
<1>9. InOrder'
  <2>1. \A i \in 1 .. Len(inFlight) : inFlight[i] \in Slots /\ Holds(inFlight, inFlight[i])
    BY <1>2 DEF Holds
  <2>2. \A i \in 1 .. Len(inFlight) : slot'[inFlight[i]] = slot[inFlight[i]]
    BY <1>5, <2>1
  <2> QED
    BY <1>4, <2>2 DEF DmaInv, InOrder, engVars
<1>10. Handshake'
  BY <1>4 DEF DmaInv, Handshake, reqVars, engVars
<1>11. Place'
  BY <1>1, <1>4 DEF DmaInv, Place, reqVars, engVars
<1>12. OneAtATime'
  BY <1>1, <1>2, <1>4 DEF DmaInv, OneAtATime, reqVars, engVars
<1> QED
  BY <1>7, <1>8, <1>9, <1>10, <1>11, <1>12, TypeParts DEF DmaInv

LEMMA BusAnswerDma == DmaInv /\ BusAnswer => DmaInv'
<1> SUFFICES ASSUME DmaInv, BusAnswer PROVE DmaInv'
  OBVIOUS
<1>0. Types /\ MaxLen \in Nat
  BY DmaAssumption, TypeParts DEF DmaInv
<1>1. /\ chan' = chan /\ chan' \in Channels /\ Slots' = Slots
      /\ cpu' \in {"none", "requester", "engine", "pipe", "bus"}
  BY <1>0, TurnFrame DEF BusAnswer
<1>2. /\ order # <<>> /\ answered' = answered \cup {Head(order)} /\ order' = Tail(order)
      /\ UNCHANGED <<reqVars, engVars, pipeVars, slot>>
  BY DEF BusAnswer
<1>3. order \in Seq(Slots) /\ answered \subseteq Slots
  BY <1>0 DEF Types, AxiTypes
<1>4. AxiTypes'
  <2>1. Tail(order) \in Seq(Slots) /\ Head(order) \in Slots
    BY <1>2, <1>3, TailQueue
  <2> QED
    BY <1>0, <1>1, <1>2, <1>3, <2>1 DEF Types, AxiTypes, Bursts
<1>5. Types'
  BY <1>0, <1>1, <1>2, <1>4, TypesFrame DEF Types, reqVars, engVars
<1>6. Tickets'
  <2>1. SoundPool(inFlight, pipe, Tail(order), slot, answered \cup {Head(order)}, Slots)
    BY <1>2, <1>3, PoolAnswer DEF DmaInv, Tickets
  <2> QED
    BY <1>1, <1>2, <2>1 DEF Tickets, engVars, pipeVars
<1>7. InOrder'
  BY <1>2, OrderFrame DEF DmaInv, engVars
<1>8. Handshake'
  BY <1>2 DEF DmaInv, Handshake, reqVars, engVars
<1>9. Place'
  BY <1>1, <1>2 DEF DmaInv, Place, reqVars, engVars
<1>10. OneAtATime'
  BY <1>1, <1>2 DEF DmaInv, OneAtATime, reqVars, pipeVars
<1> QED
  BY <1>5, <1>6, <1>7, <1>8, <1>9, <1>10, TypeParts DEF DmaInv

LEMMA StutterDma == DmaInv /\ UNCHANGED vars => DmaInv'
<1> SUFFICES ASSUME DmaInv, UNCHANGED vars PROVE DmaInv'
  OBVIOUS
<1>1. Slots' = Slots
  BY DEF Slots, vars
<1>2. Types
  BY TypeParts DEF DmaInv
<1>3. Types'
  BY <1>1, <1>2, TypesFrame DEF Types, vars, reqVars, engVars
<1>4. Tickets' /\ InOrder'
  BY <1>1, TicketsFrame, OrderFrame DEF DmaInv, vars, engVars, pipeVars, axiVars
<1>5. Handshake' /\ Place' /\ OneAtATime'
  BY DEF DmaInv, Handshake, Place, OneAtATime, vars, reqVars, engVars, pipeVars
<1> QED
  BY <1>3, <1>4, <1>5, TypeParts DEF DmaInv

LEMMA DmaInvStep == DmaInv /\ [Next]_vars => DmaInv'
<1> SUFFICES ASSUME DmaInv, [Next]_vars PROVE DmaInv'
  OBVIOUS
<1>1. CASE RequesterPost \/ RequesterSeesDone \/ RequesterDropsStart \/ RequesterReturns
  BY <1>1, RequesterPostDma, RequesterSeesDoneDma, RequesterDropsStartDma, RequesterReturnsDma
<1>2. CASE EngineStart \/ EnginePlan \/ EngineGather \/ EngineIssue \/ EngineDrain
  BY <1>2, EngineStartDma, EnginePlanDma, EngineGatherDma, EngineIssueDma, EngineDrainDma
<1>3. CASE EngineDone \/ EngineDropsDone \/ BusAnswer
  BY <1>3, EngineDoneDma, EngineDropsDoneDma, BusAnswerDma
<1>4. CASE PipeCall \/ PipeIssue \/ PipeDrain \/ PipeReturn \/ PipeFlush
  BY <1>4, PipeCallDma, PipeIssueDma, PipeDrainDma, PipeReturnDma, PipeFlushDma
<1>5. CASE Quiet \/ UNCHANGED vars
  BY <1>5, StutterDma DEF Quiet
<1> QED
  BY <1>1, <1>2, <1>3, <1>4, <1>5 DEF Next, Progress

----------------------------------------------------------------------------
(* Theorems *)

\* DmaInv is the inductive invariant of the channel: the whole of it holds always.
THEOREM DmaInvariant == Spec => []DmaInv
<1>1. Init => DmaInv
  BY InitDma
<1>2. DmaInv /\ [Next]_vars => DmaInv'
  BY DmaInvStep
<1> QED
  BY <1>1, <1>2, PTL DEF Spec

\* Type correctness of the channel, its two users and the pool they share.
THEOREM DmaTypeCorrect == Spec => []TypeOK
<1>1. DmaInv => TypeOK
  BY DEF DmaInv
<1> QED
  BY <1>1, DmaInvariant, PTL

\* The pool of tickets (axi_ticket_pool.h) never leaks a ticket and never gives
\* one twice, whatever two users do with it: the tickets in use are those in the
\* in-flight queues, each once, and each is answered or still on the bus.
THEOREM TicketsAlwaysAccounted == Spec => []TicketsAccountedFor
<1>1. DmaInv => TicketsAccountedFor
  <2> SUFFICES ASSUME DmaInv PROVE TicketsAccountedFor
    OBVIOUS
  <2>1. /\ inFlight \in Seq(Slots) /\ pipe \in Seq(Slots) /\ order \in Seq(Slots)
        /\ answered \in SUBSET Slots /\ chan \in Channels
    BY DEF DmaInv, TypeOK
  <2>2. IsFiniteSet(Slots)
    <3>1. chan.pool \in Nat
      BY <2>1, DmaAssumption DEF Channel
    <3>2. 0 \in Int /\ chan.pool - 1 \in Int
      BY <3>1
    <3> QED
      BY <3>2, FS_Interval DEF Slots
  <2> DEFINE used == InUse(slot, Slots)
  <2>3. /\ ValuesOf(inFlight \o pipe) = used
        /\ Len(inFlight \o pipe) = Cardinality(used)
        /\ ValuesOf(order) \cup answered = used
        /\ Len(order) + Cardinality(answered) = Len(inFlight \o pipe)
    BY <2>1, <2>2, PoolAccounts, SMTT(60) DEF DmaInv, Tickets
  <2>4. used = Slots \ FreeSlots
    BY DEF FreeSlots, InUse
  <2> HIDE DEF used
  <2> QED
    BY <2>3, <2>4 DEF TicketsAccountedFor, ValuesOf
<1> QED
  BY <1>1, DmaInvariant, PTL

\* The four-phase handshake of trigger_rdma and transfer_thread: a requester that
\* has seen done finds all the bursts of its own transfer carried, never those of
\* an earlier one.
THEOREM DoneMeansCarriedAlways == Spec => []DoneMeansCarried
<1>1. DmaInv => DoneMeansCarried
  BY DEF DmaInv, Handshake, Place, DoneMeansCarried
<1> QED
  BY <1>1, DmaInvariant, PTL

----------------------------------------------------------------------------
(* The window *)

\* Where no ticket is free, the two users hold them all.
LEMMA AllTicketsHeld ==
  ASSUME DmaInv, FreeSlots = {}
  PROVE  Len(inFlight \o pipe) >= Window
<1>1. /\ inFlight \in Seq(Slots) /\ pipe \in Seq(Slots) /\ order \in Seq(Slots)
      /\ answered \in SUBSET Slots /\ chan.pool \in Nat \ {0} /\ chan.fifo \in Nat \ {0}
  BY DmaAssumption DEF DmaInv, TypeOK, Channel
<1>2. 0 \in Int /\ chan.pool - 1 \in Int
  BY <1>1
<1>3. IsFiniteSet(Slots) /\ Cardinality(Slots) = chan.pool
  <2>1. /\ IsFiniteSet(0 .. chan.pool - 1)
        /\ Cardinality(0 .. chan.pool - 1) =
             IF 0 > chan.pool - 1 THEN 0 ELSE (chan.pool - 1) - 0 + 1
    BY <1>2, FS_Interval, Zenon
  <2> QED
    BY <1>1, <2>1 DEF Slots
<1>4. InUse(slot, Slots) = Slots
  BY DEF InUse, FreeSlots
<1>5. Len(inFlight \o pipe) = Cardinality(InUse(slot, Slots))
  BY <1>1, <1>3, PoolAccounts, SMTT(30) DEF DmaInv, Tickets
<1> QED
  BY <1>1, <1>3, <1>4, <1>5 DEF Window

\* The cap of the window (read_window, write_window of dma_engine.h) does what it is
\* for: on a channel that one thread uses at a time, a thread whose window has room
\* always finds a ticket, so it never blocks where it could not drain its own bursts.
\* Two threads that share the pool have no such guarantee.
THEOREM WindowNeverBlocks == Spec => [](chan.sameThread => AcquireNeverBlocks)
<1>1. DmaInv => (chan.sameThread => AcquireNeverBlocks)
  <2> SUFFICES ASSUME DmaInv, chan.sameThread PROVE AcquireNeverBlocks
    OBVIOUS
  <2>1. /\ inFlight \in Seq(Slots) /\ pipe \in Seq(Slots)
        /\ chan.pool \in Nat \ {0} /\ chan.fifo \in Nat \ {0}
    BY DmaAssumption DEF DmaInv, TypeOK, Channel
  <2>2. Len(inFlight) \in Nat /\ Len(pipe) \in Nat /\ Window \in Nat
    BY <2>1 DEF Window
  <2>3. ASSUME ePc = "run", More, ~Full(inFlight) PROVE FreeSlots # {}
    <3>1. pipe = <<>>
      BY <2>3 DEF DmaInv, Handshake, OneAtATime
    <3>2. inFlight \o pipe = inFlight
      BY <2>1, <3>1
    <3> QED
      BY <2>2, <2>3, <3>2, AllTicketsHeld DEF Full
  <2>4. ASSUME pPc = "issue", pLeft > 0, ~Full(pipe) PROVE FreeSlots # {}
    <3>1. inFlight = <<>>
      BY <2>4 DEF DmaInv, Handshake, Place, OneAtATime
    <3>2. inFlight \o pipe = pipe
      BY <2>1, <3>1
    <3> QED
      BY <2>2, <2>4, <3>2, AllTicketsHeld DEF Full
  <2> QED
    BY <2>3, <2>4 DEF AcquireNeverBlocks
<1> QED
  BY <1>1, DmaInvariant, PTL

----------------------------------------------------------------------------
(* The engine implements DmaChannel *)

\* A burst that is gathered, or drained by a read, is the next one in address order.
LEMMA CarriesNext ==
  ASSUME DmaInv, EngineGather \/ (EngineDrain /\ chan.isRead)
  PROVE  /\ ePc = "run" /\ Len(carried) < eLen
         /\ carried' = Append(carried, Len(carried) + 1)
<1>1. /\ ePc = "run" /\ eNext \in 1 .. MaxLen + 1 /\ eLen \in 0 .. MaxLen /\ MaxLen \in Nat
      /\ Len(carried) \in Nat /\ Len(inFlight) \in Nat /\ inFlight \in Seq(Slots)
  BY DmaAssumption DEF DmaInv, TypeOK, EngineGather, EngineDrain
<1>2. CASE EngineGather
  <2>1. ~chan.isRead /\ eNext <= eLen /\ Len(carried) < eNext /\ carried' = Append(carried, eNext)
    BY <1>2 DEF EngineGather, MustGather, More
  <2>2. Len(carried) \in {eNext - 1, eNext}
    BY <1>1, <2>1 DEF DmaInv, Place
  <2>3. eNext = Len(carried) + 1 /\ Len(carried) < eLen
    BY <1>1, <2>1, <2>2
  <2> QED
    BY <1>1, <2>1, <2>3
<1>3. CASE EngineDrain /\ chan.isRead
  <2>1. /\ inFlight # <<>>
        /\ carried' = Append(carried, slot[Head(inFlight)][2])
    BY <1>3 DEF EngineDrain, CanDrain
  <2>2. eNext <= eLen + 1 /\ Len(carried) + Len(inFlight) = eNext - 1
    BY <1>1, <1>3 DEF DmaInv, Place
  <2>3. /\ Len(inFlight) \in Nat \ {0} /\ 1 \in 1 .. Len(inFlight)
        /\ Head(inFlight) = inFlight[1]
    BY <1>1, <2>1
  <2>4. slot[inFlight[1]] = <<"engine", eNext - 1 - Len(inFlight) + 1>>
    BY <2>3 DEF DmaInv, InOrder
  <2>5. eNext - 1 - Len(inFlight) + 1 = Len(carried) + 1 /\ Len(carried) < eLen
    BY <1>1, <2>2, <2>3
  <2> QED
    BY <1>1, <2>1, <2>3, <2>4, <2>5
<1> QED
  BY <1>2, <1>3

LEMMA CarryImplements ==
  DmaInv /\ (EngineGather \/ (EngineDrain /\ chan.isRead)) => Abstract!Carry
<1> SUFFICES ASSUME DmaInv, EngineGather \/ (EngineDrain /\ chan.isRead) PROVE Abstract!Carry
  OBVIOUS
<1>1. ePc = "run" /\ Len(carried) < eLen /\ carried' = Append(carried, Len(carried) + 1)
  BY CarriesNext
<1>2. rPc # "idle" /\ eLen = len
  BY <1>1 DEF DmaInv, Handshake, Place
<1>3. UNCHANGED <<rPc, len, ePc>>
  BY DEF EngineGather, EngineDrain, reqVars
<1> QED
  BY <1>1, <1>2, <1>3 DEF Abstract!Carry

LEMMA RequestImplements == DmaInv /\ RequesterPost => Abstract!Request
<1> SUFFICES ASSUME DmaInv, RequesterPost PROVE Abstract!Request
  OBVIOUS
<1>1. rPc = "idle" /\ ePc = "idle" /\ ~done
  BY DEF RequesterPost, DmaInv, Handshake
<1>2. rPc' = "posted" /\ len' \in 1 .. MaxLen /\ ePc' = "idle"
  BY <1>1 DEF RequesterPost, engVars
<1> QED
  BY <1>1, <1>2 DEF Abstract!Request

LEMMA CompleteImplements == DmaInv /\ RequesterReturns => Abstract!Complete
<1> SUFFICES ASSUME DmaInv, RequesterReturns PROVE Abstract!Complete
  OBVIOUS
<1>1. rPc = "dropping" /\ rPc' = "idle" /\ len' = len /\ carried' = carried
  BY DEF RequesterReturns, engVars
<1>2. Len(carried) = len
  BY <1>1 DEF DmaInv, Place
<1> QED
  BY <1>1, <1>2 DEF Abstract!Complete

\* The handshake and planning steps leave the transfer as its user sees it.
LEMMA HandshakeStutters ==
  ASSUME DmaInv,
         \/ RequesterSeesDone \/ RequesterDropsStart
         \/ EngineStart \/ EnginePlan \/ EngineDone \/ EngineDropsDone
  PROVE  UNCHANGED Abstract!vars
<1>1. CASE RequesterSeesDone
  BY <1>1 DEF RequesterSeesDone, DmaInv, Handshake, engVars, Abstract!vars
<1>2. CASE RequesterDropsStart
  BY <1>2 DEF RequesterDropsStart, DmaInv, Handshake, engVars, Abstract!vars
<1>3. CASE EngineStart
  BY <1>3 DEF EngineStart, DmaInv, Handshake, reqVars, Abstract!vars
<1>4. CASE EnginePlan
  <2>1. rPc = "posted"
    BY <1>4 DEF EnginePlan, DmaInv, TypeOK, Handshake
  <2> QED
    BY <1>4, <2>1 DEF EnginePlan, reqVars, Abstract!vars
<1>5. CASE EngineDone
  BY <1>5 DEF EngineDone, DmaInv, Handshake, reqVars, Abstract!vars
<1>6. CASE EngineDropsDone
  BY <1>6 DEF EngineDropsDone, DmaInv, Handshake, reqVars, Abstract!vars
<1> QED
  BY <1>1, <1>2, <1>3, <1>4, <1>5, <1>6

\* So do the steps of the pipeline and the bus, and those that only move bursts.
LEMMA OtherStepsStutter ==
  ASSUME DmaInv,
         \/ EngineIssue \/ (EngineDrain /\ ~chan.isRead)
         \/ PipeCall \/ PipeIssue \/ PipeDrain \/ PipeReturn \/ PipeFlush
         \/ BusAnswer \/ Quiet \/ UNCHANGED vars
  PROVE  UNCHANGED Abstract!vars
<1>1. UNCHANGED <<rPc, len, ePc, carried>>
  BY DEF EngineIssue, EngineDrain, PipeCall, PipeIssue, PipeDrain, PipeReturn, PipeFlush,
         BusAnswer, Quiet, vars, reqVars, engVars
<1> QED
  BY <1>1 DEF Abstract!vars

LEMMA StepImplements == DmaInv /\ [Next]_vars => [Abstract!Next]_(Abstract!vars)
<1> SUFFICES ASSUME DmaInv, [Next]_vars PROVE [Abstract!Next]_(Abstract!vars)
  OBVIOUS
<1>1. CASE RequesterPost
  BY <1>1, RequestImplements DEF Abstract!Next
<1>2. CASE RequesterReturns
  BY <1>2, CompleteImplements DEF Abstract!Next
<1>3. CASE EngineGather \/ (EngineDrain /\ chan.isRead)
  BY <1>3, CarryImplements DEF Abstract!Next
<1>4. CASE \/ RequesterSeesDone \/ RequesterDropsStart
           \/ EngineStart \/ EnginePlan \/ EngineDone \/ EngineDropsDone
  BY <1>4, HandshakeStutters
<1>5. CASE \/ EngineIssue \/ (EngineDrain /\ ~chan.isRead)
           \/ PipeCall \/ PipeIssue \/ PipeDrain \/ PipeReturn \/ PipeFlush
           \/ BusAnswer \/ Quiet \/ UNCHANGED vars
  BY <1>5, OtherStepsStutter
<1> QED
  BY <1>1, <1>2, <1>3, <1>4, <1>5 DEF Next, Progress

\* transfer_thread with its window of bursts, its handshake and the bus behind it is
\* a channel that carries each transfer burst by burst in address order, and reports
\* it complete when its last burst has been carried: every step of the one is a step
\* of the other or leaves it alone.  This is CarriesInOrder without its fairness.
THEOREM DmaImplementsChannel == Spec => Abstract!Spec
<1>1. Init => Abstract!Init
  BY DEF Init, Abstract!Init
<1>2. DmaInv /\ [Next]_vars => [Abstract!Next]_(Abstract!vars)
  BY StepImplements
<1> QED
  BY <1>1, <1>2, DmaInvariant, PTL DEF Spec, Abstract!Spec
=============================================================================
