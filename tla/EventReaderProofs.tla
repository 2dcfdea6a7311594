------------------------- MODULE EventReaderProofs -------------------------
(***************************************************************************)
(* Proofs about EventReader, for every capacity, event size and bound.     *)
(* The inductive invariant has a part about the kernel alone (KernelInv)   *)
(* and parts about the reader.                                             *)
(***************************************************************************)
EXTENDS EventReader, TLAPS

\* Positions, generations and the event being written.
RingInv ==
  /\ \A r \in Rings :
       /\ tail_pos[r] <= write_pos[r]
       /\ Boundary(r, tail_pos[r])
       /\ generation[r] = IF r < cur THEN r + 1 ELSE r
       /\ cur < r => write_pos[r] = 0
  /\ phase # "quiet" =>
       /\ seq > 0
       /\ pending \in Sizes
       /\ write_pos[cur] + pending <= tail_pos[cur] + Capacity[cur]

\* Published events lie one after the other, in the order of their sequence
\* numbers, also from one ring to the next.
LogInv ==
  /\ \A e \in log :
       /\ e.pos + e.size <= write_pos[e.ring]
       /\ Boundary(e.ring, e.pos + e.size)
       /\ e.size <= Capacity[e.ring]
       /\ e.seq <= seq
       /\ e.size > 0 /\ e.seq > 0
       /\ phase # "quiet" => e.seq < seq
  /\ \A e, f \in log : e.ring = f.ring /\ e.pos = f.pos => e = f
  /\ \A e, f \in log :
       e.ring < f.ring \/ (e.ring = f.ring /\ e.pos < f.pos) => e.seq < f.seq

\* The header of every surviving event is in place, or was never good.
StoreInv ==
  \A e \in log : tail_pos[e.ring] <= e.pos =>
    \/ data[e.ring][Offset(e.ring, e.pos)] = e.pos
    \/ /\ data[e.ring][Offset(e.ring, e.pos)] = Zero
       /\ <<e.ring, e.pos>> \in corrupt

KernelInv == RingInv /\ LogInv /\ StoreInv

\* Where the reader is: on an event of a ring that exists, and past the
\* emptiness check not at the end.
PlaceInv ==
  /\ IsOpen =>
       /\ ring <= cur
       /\ Boundary(ring, read_pos)
       /\ read_pos <= write_pos[ring]
       /\ gen \in {ring, generation[ring]}
  /\ pc \in InNext => caller = "next"
  /\ pc \in {"tail", "parse", "fields", "guard", "resync"} => read_pos < write_pos[ring]

\* What the parse saw is the event at read_pos unless the tail has passed it.
GuardInv ==
  /\ pc \in {"parse", "fields", "guard", "resync"} => saved_tail <= read_pos
  /\ pc \in {"fields", "guard"} =>
       /\ size > 0
       /\ tail_pos[ring] <= read_pos =>
            \E e \in log : e.ring = ring /\ e.pos = read_pos /\ size = e.size
  /\ pc = "fields" /\ tail_pos[ring] <= read_pos => Header = read_pos
  /\ pc = "guard" => (tail_pos[ring] <= read_pos =>
       \E e \in log : e.ring = ring /\ e.pos = read_pos /\ sequence = e.seq)
  /\ pc = "resync" /\ tail_pos[ring] <= read_pos =>
       <<ring, read_pos>> \in corrupt

\* A ring being attached is newer than the reader's.
AttachInv ==
  /\ pc \in InAttach /\ caller # "open" => ring < cur
  /\ pc \in {"map", "start", "record"} =>
       new_ring <= cur /\ (caller # "open" => ring < new_ring)
  /\ pc = "record" => Boundary(new_ring, start) /\ start <= write_pos[new_ring]

HandleInv ==
  /\ fds = (IF IsOpen THEN {ring} ELSE {}) \cup
           (IF pc \in {"map", "start", "record"} THEN {new_ring} ELSE {})
  /\ maps = (IF IsOpen THEN {ring} ELSE {}) \cup
            (IF pc \in {"start", "record"} THEN {new_ring} ELSE {})

\* Everything still to be read was stamped after what was delivered.
AheadInv ==
  /\ last_seq <= seq
  /\ phase # "quiet" => last_seq < seq
  /\ IsOpen => \A e \in log :
       e.ring > ring \/ (e.ring = ring /\ e.pos >= read_pos) => e.seq > last_seq

CountInv ==
  /\ count = 0 <=> last_seq = 0
  /\ count = 0 => lost = 0
  /\ count > 0 => lost + count = last_seq - first + 1
  /\ ~IsOpen => count = 0

IInv ==
  /\ TypeOK
  /\ KernelInv
  /\ PlaceInv
  /\ GuardInv
  /\ AttachInv
  /\ HandleInv
  /\ AheadInv
  /\ CountInv
  /\ NeverTorn

-----------------------------------------------------------------------------
(* Arithmetic of positions modulo the capacity. *)

LEMMA Stretch ==
  ASSUME NEW n \in Nat \ {0}, NEW i \in Int, i >= 1
  PROVE  n * i >= n
BY SMT

\* Two positions less than a capacity apart are at different offsets.
LEMMA ModApart ==
  ASSUME NEW n \in Nat \ {0}, NEW a \in Nat, NEW b \in Nat, a < b, b < a + n
  PROVE  a % n # b % n
<1> SUFFICES ASSUME a % n = b % n PROVE FALSE
  OBVIOUS
<1> DEFINE i == a \div n
           j == b \div n
<1>1. i \in Int /\ j \in Int /\ a % n \in Int
  BY SMT
<1>2. a = n * i + (a % n) /\ b = n * j + (b % n)
  BY SMT
<1>3. b - a = n * j - n * i
  BY <1>1, <1>2, SMT
<1>4. n * j - n * i = n * (j - i)
  BY <1>1, SMT
<1> HIDE DEF i, j
<1>5. CASE j - i >= 1
  <2>1. n * (j - i) >= n
    BY <1>1, <1>5, Stretch, SMT
  <2> QED
    BY <2>1, <1>1, <1>3, <1>4, SMT
<1>6. CASE j - i <= 0
  <2>1. n * (j - i) <= 0
    BY <1>1, <1>6, SMT
  <2> QED
    BY <2>1, <1>1, <1>3, <1>4, SMT
<1> QED
  BY <1>1, <1>5, <1>6, SMT

LEMMA OffsetType ==
  ASSUME NEW r \in Rings, NEW p \in Nat
  PROVE  Offset(r, p) \in 0..(Capacity[r] - 1)
<1>1. Capacity[r] \in Nat \ {0}
  BY CapacityAssumption
<1> QED
  BY <1>1, SMT DEF Offset

LEMMA OffsetApart ==
  ASSUME NEW r \in Rings, NEW p \in Nat, NEW q \in Nat, p < q, q < p + Capacity[r]
  PROVE  Offset(r, p) # Offset(r, q)
<1>1. Capacity[r] \in Nat \ {0}
  BY CapacityAssumption
<1> QED
  BY <1>1, ModApart DEF Offset

-----------------------------------------------------------------------------
LEMMA KernelTypes ==
  ASSUME KernelTypeOK, KernelNext
  PROVE  KernelTypeOK'
<1> USE DEF KernelTypeOK
<1>1. ASSUME NEW s \in Sizes, Reserve(s)
      PROVE  KernelTypeOK'
  <2>1. s \in Nat
    BY SizesAssumption
  <2>2. (tail_pos \in [Rings -> Nat])'
    BY <1>1 DEF Reserve
  <2>3. (phase \in {"quiet", "reserved", "overwriting"} /\ pending \in Nat /\ seq \in Nat)'
    BY <1>1, <2>1 DEF Reserve
  <2> QED
    BY <1>1, <2>2, <2>3 DEF Reserve
<1>2. CASE Overwrite
  <2>1. (DOMAIN data = Rings)'
    BY <1>2 DEF Overwrite
  <2>2. (\A r \in Rings : data[r] \in [0..(Capacity[r] - 1) -> Int])'
    <3> DEFINE units ==
          [o \in 0..(Capacity[cur] - 1) |->
             IF \E k \in 0..(pending - 1) : o = Offset(cur, write_pos[cur] + k)
             THEN Torn ELSE data[cur][o]]
    <3>0. data[cur] \in [0..(Capacity[cur] - 1) -> Int]
      OBVIOUS
    <3>1. units \in [0..(Capacity[cur] - 1) -> Int]
      <4> SUFFICES ASSUME NEW o \in 0..(Capacity[cur] - 1)
                   PROVE  units[o] \in Int
        OBVIOUS
      <4>1. data[cur][o] \in Int /\ Torn \in Int
        BY <3>0 DEF Torn
      <4>2. units[o] = data[cur][o] \/ units[o] = Torn
        OBVIOUS
      <4> QED
        BY <4>1, <4>2
    <3>2. data' = [data EXCEPT ![cur] = units]
      BY <1>2 DEF Overwrite
    <3> QED
      BY <3>1, <3>2
  <2> QED
    BY <1>2, <2>1, <2>2 DEF Overwrite
<1>3. ASSUME NEW damaged \in BOOLEAN, Publish(damaged)
      PROVE  KernelTypeOK'
  <2>1. Offset(cur, write_pos[cur]) \in 0..(Capacity[cur] - 1)
    BY OffsetType
  <2>2. (DOMAIN data = Rings)'
    BY <1>3 DEF Publish
  <2>3. (\A r \in Rings : data[r] \in [0..(Capacity[r] - 1) -> Int])'
    BY <1>3, <2>1 DEF Publish, Zero
  <2>4. (log \subseteq Event)'
    BY <1>3 DEF Publish, Event
  <2>5. (corrupt \subseteq Rings \X Nat)'
    BY <1>3 DEF Publish
  <2>6. (write_pos \in [Rings -> Nat])'
    BY <1>3 DEF Publish
  <2> QED
    BY <1>3, <2>2, <2>3, <2>4, <2>5, <2>6 DEF Publish
<1>4. CASE Drop
  BY <1>4 DEF Drop
<1>5. CASE Resize
  <2>1. (cur \in Rings)'
    BY <1>5, BoundsAssumption DEF Resize, Rings
  <2>2. (generation \in [Rings -> Nat])'
    BY <1>5 DEF Resize, Rings
  <2> QED
    BY <1>5, <2>1, <2>2 DEF Resize
<1> QED
  BY <1>1, <1>2, <1>3, <1>4, <1>5 DEF KernelNext

\* The steps of the reader leave the kernel alone.
LEMMA ReaderSteps ==
  ASSUME Calls \/ NextSteps \/ AttachSteps
  PROVE  UNCHANGED kernel
<1>1. CASE Calls
  BY <1>1 DEF Calls, ReaderOpen, ReaderNext, ReaderWait, ReaderClose
<1>2. CASE NextSteps
  BY <1>2 DEF NextSteps, CheckGeneration, CheckEmpty, CheckLapped, ParseEvent, ReadFields,
              TornReadGuard, Resync
<1>3. CASE AttachSteps
  BY <1>3 DEF AttachSteps, Attach, AttachFails, MapRing, MapRingFails, LoadStart, OpenDone,
              OpenNoMemory, ReattachDone, AttachError, TakeRing
<1> QED
  BY <1>1, <1>2, <1>3

LEMMA CallTypes ==
  ASSUME TypeOK, Calls
  PROVE  ReaderTypeOK'
<1> USE DEF TypeOK, ReaderTypeOK, Steps, InNext, InAttach, rd, locals
<1>1. CASE ReaderOpen
  BY <1>1 DEF ReaderOpen
<1>2. CASE ReaderNext
  BY <1>2 DEF ReaderNext
<1>3. CASE ReaderWait
  BY <1>3 DEF ReaderWait
<1>4. CASE ReaderClose
  <2>1. 1 \in Rings
    BY BoundsAssumption DEF Rings
  <2> QED
    BY <1>4, <2>1 DEF ReaderClose, NoEvent
<1> QED
  BY <1>1, <1>2, <1>3, <1>4 DEF Calls

LEMMA NextTypes ==
  ASSUME TypeOK, NextSteps
  PROVE  ReaderTypeOK'
<1> USE DEF TypeOK, ReaderTypeOK, Steps, InNext, InAttach, rd, locals
<1>0. 1 \in Rings /\ Capacity[ring] \in Nat /\ MaxSeq \in Nat /\ tail_pos[ring] \in Nat
  BY BoundsAssumption, CapacityAssumption DEF Rings, KernelTypeOK
<1>1. CASE CheckGeneration
  BY <1>1 DEF CheckGeneration
<1>2. CASE CheckEmpty
  BY <1>2, <1>0 DEF CheckEmpty, Return, DropLocals
<1>3. CASE CheckLapped
  BY <1>3, <1>0 DEF CheckLapped
<1>4. CASE ParseEvent
  BY <1>4, <1>0 DEF ParseEvent
<1>5. CASE ReadFields
  BY <1>5, <1>0 DEF ReadFields
<1>6. CASE TornReadGuard
  <2>1. CASE Deliver
    <3>1. lost' \in Nat /\ last_seq' \in Nat /\ read_pos' \in Nat /\ first' \in Nat
          /\ count' \in Nat
      BY <2>1 DEF Deliver
    <3>2. out' \in [ring : Rings \cup {0}, pos : Nat, size : Nat, seq : Nat]
      BY <2>1 DEF Deliver
    <3> QED
      BY <1>6, <1>0, <2>1, <3>1, <3>2 DEF TornReadGuard, Deliver, Return, DropLocals
  <2>2. CASE ~Deliver
    BY <1>6, <2>2 DEF TornReadGuard
  <2> QED
    BY <2>1, <2>2
<1>7. CASE Resync
  BY <1>7, <1>0 DEF Resync, Return, DropLocals
<1> QED
  BY <1>1, <1>2, <1>3, <1>4, <1>5, <1>6, <1>7 DEF NextSteps

LEMMA AttachTypes ==
  ASSUME TypeOK, AttachSteps
  PROVE  ReaderTypeOK'
<1> USE DEF TypeOK, ReaderTypeOK, Steps, InNext, InAttach, rd, locals
<1>0. 1 \in Rings
  BY BoundsAssumption DEF Rings
<1>1. CASE Attach
  BY <1>1 DEF Attach, KernelTypeOK
<1>2. CASE AttachFails
  BY <1>2, <1>0 DEF AttachFails, AttachError, DropLocals
<1>3. CASE MapRing
  BY <1>3 DEF MapRing
<1>4. CASE MapRingFails
  BY <1>4, <1>0 DEF MapRingFails, AttachError, DropLocals
<1>5. CASE LoadStart
  BY <1>5 DEF LoadStart, KernelTypeOK
<1>6. CASE OpenDone
  BY <1>6, <1>0 DEF OpenDone, TakeRing, DropLocals, KernelTypeOK
<1>7. CASE OpenNoMemory
  BY <1>7, <1>0 DEF OpenNoMemory, AttachError, DropLocals
<1>8. CASE ReattachDone
  BY <1>8, <1>0 DEF ReattachDone, TakeRing, DropLocals, KernelTypeOK
<1> QED
  BY <1>1, <1>2, <1>3, <1>4, <1>5, <1>6, <1>7, <1>8 DEF AttachSteps

LEMMA TypeInit ==
  ASSUME Init
  PROVE  TypeOK
<1>0. 1 \in Rings
  BY BoundsAssumption DEF Rings
<1>1. KernelTypeOK
  BY <1>0 DEF Init, KernelInit, KernelTypeOK, Rings, Zero
<1>2. ReaderTypeOK
  BY <1>0 DEF Init, ReaderTypeOK, Steps, NoEvent
<1> QED
  BY <1>1, <1>2 DEF TypeOK

LEMMA TypeStep ==
  ASSUME TypeOK, [Next]_vars
  PROVE  TypeOK'
<1>1. CASE Calls \/ NextSteps \/ AttachSteps
  <2>1. KernelTypeOK'
    BY <1>1, ReaderSteps DEF TypeOK, KernelTypeOK, kernel
  <2> QED
    BY <1>1, <2>1, CallTypes, NextTypes, AttachTypes DEF TypeOK
<1>2. CASE KernelNext /\ UNCHANGED reader
  <2>1. ReaderTypeOK'
    BY <1>2 DEF TypeOK, ReaderTypeOK, reader, rd, locals
  <2> QED
    BY <1>2, <2>1, KernelTypes DEF TypeOK
<1>3. CASE UNCHANGED vars
  BY <1>3 DEF vars, kernel, reader, rd, locals, TypeOK, KernelTypeOK, ReaderTypeOK
<1> QED
  BY <1>1, <1>2, <1>3 DEF Next

\* Every variable of the reader and of the rings keeps its type, whatever the
\* capacities, the event sizes and the bounds.
THEOREM TypeCorrect == Spec => []TypeOK
BY TypeInit, TypeStep, PTL DEF Spec

-----------------------------------------------------------------------------
(* What a step of the kernel preserves. *)

\* Nothing published goes away, and positions only grow.
LEMMA KernelGrows ==
  ASSUME KernelTypeOK, KernelInv, KernelNext
  PROVE  /\ log \subseteq log'
         /\ corrupt \subseteq corrupt'
         /\ cur <= cur' /\ seq <= seq'
         /\ \A r \in Rings : write_pos[r] <= write_pos'[r] /\ tail_pos[r] <= tail_pos'[r]
         /\ \A r \in Rings : generation[r] <= generation'[r]
         /\ \A r \in Rings : r > cur => generation'[r] = generation[r]
<1> DEFINE Grows ==
      /\ log \subseteq log'
      /\ corrupt \subseteq corrupt'
      /\ cur <= cur' /\ seq <= seq'
      /\ \A r \in Rings : write_pos[r] <= write_pos'[r] /\ tail_pos[r] <= tail_pos'[r]
      /\ \A r \in Rings : generation[r] <= generation'[r]
      /\ \A r \in Rings : r > cur => generation'[r] = generation[r]
<1> USE DEF KernelTypeOK
<1>0. Rings \subseteq Nat
  BY DEF Rings
<1>1. ASSUME NEW s \in Sizes, Reserve(s)
      PROVE  Grows
  BY <1>0, <1>1 DEF Reserve
<1>2. CASE Overwrite
  BY <1>0, <1>2 DEF Overwrite
<1>3. ASSUME NEW damaged \in BOOLEAN, Publish(damaged)
      PROVE  Grows
  BY <1>0, <1>3 DEF Publish
<1>4. CASE Drop
  BY <1>0, <1>4 DEF Drop
<1>5. CASE Resize
  BY <1>0, <1>5 DEF Resize, KernelInv, RingInv
<1> QED
  BY <1>1, <1>2, <1>3, <1>4, <1>5 DEF KernelNext

\* An event that appears is the one that was being written.
LEMMA KernelAdds ==
  ASSUME KernelTypeOK, KernelNext, NEW e \in log', e \notin log
  PROVE  /\ phase # "quiet" /\ phase' = "quiet"
         /\ e = [ring |-> cur, pos |-> write_pos[cur], size |-> pending, seq |-> seq]
         /\ UNCHANGED <<cur, seq, tail_pos, generation>>
         /\ write_pos' = [write_pos EXCEPT ![cur] = @ + pending]
BY DEF KernelNext, Reserve, Overwrite, Publish, Drop, Resize, KernelTypeOK

LEMMA KernelBoundary ==
  ASSUME KernelTypeOK, KernelNext, NEW r \in Rings, NEW p \in Nat, Boundary(r, p)
  PROVE  Boundary(r, p)'
<1> USE DEF KernelTypeOK, Boundary
<1>1. CASE \E s \in Sizes : Reserve(s)
  BY <1>1 DEF Reserve
<1>2. CASE Overwrite
  BY <1>2 DEF Overwrite
<1>3. ASSUME NEW damaged \in BOOLEAN, Publish(damaged)
      PROVE  Boundary(r, p)'
  <2>1. CASE r = cur /\ p = write_pos[cur]
    <3> DEFINE e == [ring |-> cur, pos |-> write_pos[cur], size |-> pending, seq |-> seq]
    <3>1. e \in log' /\ e.ring = cur /\ e.pos = write_pos[cur]
      BY <1>3 DEF Publish
    <3> QED
      BY <2>1, <3>1
  <2>2. CASE r # cur /\ p = write_pos[r]
    BY <1>3, <2>2 DEF Publish
  <2>3. CASE \E e \in log : e.ring = r /\ e.pos = p
    BY <1>3, <2>3 DEF Publish
  <2> QED
    BY <2>1, <2>2, <2>3
<1>4. CASE Drop
  BY <1>4 DEF Drop
<1>5. CASE Resize
  BY <1>5 DEF Resize
<1> QED
  BY <1>1, <1>2, <1>3, <1>4, <1>5 DEF KernelNext

\* The kernel overwrites no event the tail has not passed.
LEMMA KernelKeepsHeaders ==
  ASSUME KernelTypeOK, KernelInv, KernelNext,
         NEW e \in log, tail_pos'[e.ring] <= e.pos
  PROVE  data'[e.ring][Offset(e.ring, e.pos)] = data[e.ring][Offset(e.ring, e.pos)]
<1>0. /\ e.ring \in Rings /\ e.pos \in Nat /\ e.size \in Nat
      /\ cur \in Rings /\ write_pos[cur] \in Nat /\ tail_pos[cur] \in Nat
      /\ Capacity[cur] \in Nat
      /\ DOMAIN data = Rings
  BY CapacityAssumption DEF KernelTypeOK, Event
<1>1. /\ e.pos < write_pos[e.ring]
      /\ phase # "quiet" =>
           pending \in Nat /\ pending > 0 /\ write_pos[cur] + pending <= tail_pos[cur] + Capacity[cur]
  <2>1. e.size > 0 /\ e.pos + e.size <= write_pos[e.ring] /\ write_pos[e.ring] \in Nat
    BY <1>0 DEF KernelInv, LogInv, KernelTypeOK
  <2>2. phase # "quiet" => pending \in Nat /\ pending > 0
    BY SizesAssumption DEF KernelInv, RingInv
  <2> QED
    BY <1>0, <2>1, <2>2 DEF KernelInv, RingInv
<1>2. Offset(e.ring, e.pos) \in 0..(Capacity[e.ring] - 1)
  BY <1>0, OffsetType
<1>3. CASE Overwrite
  <2>1. phase = "reserved" /\ tail_pos' = tail_pos
    BY <1>3 DEF Overwrite
  <2>2. CASE e.ring = cur
    <3>1. ASSUME NEW k \in 0..(pending - 1)
          PROVE  Offset(cur, e.pos) # Offset(cur, write_pos[cur] + k)
      <4>1. /\ write_pos[cur] + k \in Nat
            /\ e.pos < write_pos[cur] + k
            /\ write_pos[cur] + k < e.pos + Capacity[cur]
        BY <1>0, <1>1, <2>1, <2>2
      <4> QED
        BY <1>0, <4>1, OffsetApart
    <3>2. data'[cur] =
            [o \in 0..(Capacity[cur] - 1) |->
               IF \E k \in 0..(pending - 1) : o = Offset(cur, write_pos[cur] + k)
               THEN Torn ELSE data[cur][o]]
      BY <1>0, <1>3 DEF Overwrite
    <3> QED
      BY <1>2, <2>2, <3>1, <3>2
  <2>3. CASE e.ring # cur
    BY <1>0, <1>3, <2>3 DEF Overwrite
  <2> QED
    BY <2>2, <2>3
<1>4. ASSUME NEW damaged \in BOOLEAN, Publish(damaged)
      PROVE  data'[e.ring][Offset(e.ring, e.pos)] = data[e.ring][Offset(e.ring, e.pos)]
  <2>1. phase = "overwriting" /\ tail_pos' = tail_pos
    BY <1>4 DEF Publish
  <2>2. CASE e.ring = cur
    <3>1. Offset(cur, e.pos) # Offset(cur, write_pos[cur])
      BY <1>0, <1>1, <2>1, <2>2, OffsetApart
    <3>2. data'[cur] = [data[cur] EXCEPT ![Offset(cur, write_pos[cur])] =
                          IF damaged THEN Zero ELSE write_pos[cur]]
      BY <1>0, <1>4 DEF Publish
    <3>3. data[cur] \in [0..(Capacity[cur] - 1) -> Int]
      BY <1>0 DEF KernelTypeOK
    <3> QED
      BY <1>2, <2>2, <3>1, <3>2, <3>3
  <2>3. CASE e.ring # cur
    BY <1>0, <1>4, <2>3 DEF Publish
  <2> QED
    BY <2>2, <2>3
<1>5. CASE UNCHANGED data
  BY <1>5
<1> QED
  BY <1>3, <1>4, <1>5 DEF KernelNext, Reserve, Drop, Resize

LEMMA KernelRings ==
  ASSUME KernelTypeOK, KernelInv, KernelNext
  PROVE  RingInv'
<1>0. /\ Rings \subseteq Nat /\ cur \in Rings
      /\ \A r \in Rings : write_pos[r] \in Nat /\ tail_pos[r] \in Nat
      /\ KernelTypeOK'
  <2>1. Rings \subseteq Nat
    BY DEF Rings
  <2> QED
    BY <2>1, KernelTypes DEF KernelTypeOK
<1>1. ASSUME NEW r \in Rings
      PROVE  (tail_pos[r] <= write_pos[r] /\ Boundary(r, tail_pos[r]))'
  <2>1. tail_pos[r] <= write_pos[r] /\ Boundary(r, tail_pos[r])
    BY DEF KernelInv, RingInv
  <2>2. ASSUME NEW s \in Sizes, Reserve(s)
        PROVE  (tail_pos[r] <= write_pos[r] /\ Boundary(r, tail_pos[r]))'
    <3>1. PICK t \in tail_pos[cur]..write_pos[cur] :
            Boundary(cur, t) /\ tail_pos' = [tail_pos EXCEPT ![cur] = t]
      BY <2>2 DEF Reserve
    <3>2. UNCHANGED <<write_pos, log>>
      BY <2>2 DEF Reserve
    <3>3. CASE r = cur
      BY <1>0, <3>1, <3>2, <3>3 DEF Boundary, KernelTypeOK
    <3>4. CASE r # cur
      BY <1>0, <2>1, <3>1, <3>2, <3>4 DEF Boundary, KernelTypeOK
    <3> QED
      BY <3>3, <3>4
  <2>3. CASE tail_pos' = tail_pos
    <3>1. write_pos[r] <= write_pos'[r] /\ write_pos'[r] \in Nat
      BY <1>0, KernelGrows DEF KernelTypeOK
    <3> QED
      BY <1>0, <2>1, <2>3, <3>1, KernelBoundary
  <2> QED
    BY <2>2, <2>3 DEF KernelNext, Overwrite, Publish, Drop, Resize
<1>2. ASSUME NEW r \in Rings
      PROVE  /\ generation'[r] = IF r < cur' THEN r + 1 ELSE r
             /\ cur' < r => write_pos'[r] = 0
  <2>1. /\ generation[r] = IF r < cur THEN r + 1 ELSE r
        /\ cur < r => write_pos[r] = 0
    BY DEF KernelInv, RingInv
  <2>2. CASE Resize
    BY <1>0, <2>1, <2>2 DEF Resize, KernelTypeOK
  <2>3. ASSUME NEW damaged \in BOOLEAN, Publish(damaged)
        PROVE  /\ generation'[r] = IF r < cur' THEN r + 1 ELSE r
               /\ cur' < r => write_pos'[r] = 0
    BY <1>0, <2>1, <2>3 DEF Publish, KernelTypeOK
  <2>4. CASE UNCHANGED <<cur, generation, write_pos>>
    BY <2>1, <2>4
  <2> QED
    BY <2>2, <2>3, <2>4 DEF KernelNext, Overwrite, Reserve, Drop
<1>3. (phase # "quiet" =>
         /\ seq > 0
         /\ pending \in Sizes
         /\ write_pos[cur] + pending <= tail_pos[cur] + Capacity[cur])'
  <2>1. ASSUME NEW s \in Sizes, Reserve(s)
        PROVE  /\ seq' > 0
               /\ pending' \in Sizes
               /\ write_pos'[cur'] + pending' <= tail_pos'[cur'] + Capacity[cur']
    BY <1>0, <2>1 DEF Reserve, KernelTypeOK
  <2>2. CASE Overwrite
    BY <2>2 DEF Overwrite, KernelInv, RingInv
  <2> QED
    BY <2>1, <2>2 DEF KernelNext, Publish, Drop, Resize
<1> QED
  BY <1>1, <1>2, <1>3 DEF RingInv

LEMMA KernelLog ==
  ASSUME KernelTypeOK, KernelInv, KernelNext
  PROVE  LogInv'
<1>0. /\ Rings \subseteq Nat /\ cur \in Rings /\ pending \in Nat /\ seq \in Nat /\ seq' \in Nat
      /\ \A r \in Rings : write_pos[r] \in Nat /\ write_pos'[r] \in Nat
      /\ \A e \in log' : e.ring \in Rings /\ e.pos \in Nat /\ e.size \in Nat /\ e.seq \in Nat
  <2>1. Rings \subseteq Nat
    BY DEF Rings
  <2>2. KernelTypeOK'
    BY KernelTypes
  <2> QED
    BY <2>1, <2>2 DEF KernelTypeOK, Event
<1>1. /\ log \subseteq log' /\ seq <= seq'
      /\ \A r \in Rings : write_pos[r] <= write_pos'[r]
  BY KernelGrows
<1>2. ASSUME NEW e \in log
      PROVE  /\ e.pos < write_pos[e.ring] /\ e.ring <= cur
             /\ phase # "quiet" => e.seq < seq
  <2>1. /\ e.ring \in Rings /\ e.pos \in Nat /\ e.size \in Nat
        /\ e.ring \in Nat /\ write_pos[e.ring] \in Nat /\ cur \in Nat
    BY <1>0, <1>1, <1>2
  <2>2. e.size > 0 /\ e.pos + e.size <= write_pos[e.ring] /\ (phase # "quiet" => e.seq < seq)
    BY <1>2 DEF KernelInv, LogInv
  <2>3. e.pos < write_pos[e.ring]
    BY <2>1, <2>2
  <2>4. cur < e.ring => write_pos[e.ring] = 0
    BY <2>1 DEF KernelInv, RingInv
  <2>5. e.ring <= cur
    BY <2>1, <2>3, <2>4
  <2> QED
    BY <2>2, <2>3, <2>5
<1>3. ASSUME NEW e \in log', e \notin log
      PROVE  /\ phase # "quiet" /\ phase' = "quiet" /\ seq' = seq
             /\ e.ring = cur /\ e.pos = write_pos[cur] /\ e.size = pending /\ e.seq = seq
             /\ write_pos'[cur] = write_pos[cur] + pending
             /\ e = [ring |-> cur, pos |-> write_pos[cur], size |-> pending, seq |-> seq]
  <2>1. cur \in Rings /\ write_pos \in [Rings -> Nat]
    BY <1>0 DEF KernelTypeOK
  <2> QED
    BY <1>3, <2>1, KernelAdds
<1>4. ASSUME NEW e \in log'
      PROVE  (/\ e.pos + e.size <= write_pos[e.ring]
              /\ Boundary(e.ring, e.pos + e.size)
              /\ e.size <= Capacity[e.ring]
              /\ e.seq <= seq
              /\ e.size > 0 /\ e.seq > 0
              /\ phase # "quiet" => e.seq < seq)'
  <2>1. CASE e \in log
    <3>1. /\ e.pos + e.size <= write_pos[e.ring]
          /\ Boundary(e.ring, e.pos + e.size)
          /\ e.size <= Capacity[e.ring]
          /\ e.seq <= seq
          /\ e.size > 0 /\ e.seq > 0
          /\ phase # "quiet" => e.seq < seq
      BY <2>1 DEF KernelInv, LogInv
    <3>2. /\ e.ring \in Rings /\ e.pos \in Nat /\ e.size \in Nat /\ e.seq \in Nat
          /\ write_pos[e.ring] \in Nat /\ write_pos'[e.ring] \in Nat
          /\ write_pos[e.ring] <= write_pos'[e.ring]
          /\ seq \in Nat /\ seq' \in Nat /\ seq <= seq'
      BY <1>0, <1>1
    <3>3. Boundary(e.ring, e.pos + e.size)'
      <4>1. e.pos + e.size \in Nat
        BY <3>2
      <4> QED
        BY <3>1, <3>2, <4>1, KernelBoundary
    <3>4. phase' # "quiet" => (phase # "quiet" /\ seq' = seq) \/ seq' = seq + 1
      BY DEF KernelNext, Reserve, Overwrite, Publish, Drop, Resize
    <3>5. e.pos + e.size <= write_pos'[e.ring] /\ e.seq <= seq'
      BY <3>1, <3>2
    <3>6. phase' # "quiet" => e.seq < seq'
      BY <3>1, <3>2, <3>4
    <3> QED
      BY <3>1, <3>3, <3>5, <3>6
  <2>2. CASE e \notin log
    <3>1. pending \in Sizes /\ seq > 0
      BY <1>3, <2>2 DEF KernelInv, RingInv
    <3>2. pending > 0 /\ pending <= Capacity[cur]
      BY <1>0, <3>1, SizesAssumption
    <3> QED
      BY <1>0, <1>3, <2>2, <3>1, <3>2 DEF Boundary
  <2> QED
    BY <2>1, <2>2
<1>5. ASSUME NEW e \in log', NEW f \in log', e.ring = f.ring, e.pos = f.pos
      PROVE  e = f
  <2>1. CASE e \in log /\ f \in log
    BY <1>5, <2>1 DEF KernelInv, LogInv
  <2>2. CASE e \notin log /\ f \notin log
    BY <1>3, <2>2
  <2>3. CASE (e \in log) # (f \in log)
    BY <1>0, <1>2, <1>3, <1>5, <2>3
  <2> QED
    BY <2>1, <2>2, <2>3
<1>6. ASSUME NEW e \in log', NEW f \in log',
             e.ring < f.ring \/ (e.ring = f.ring /\ e.pos < f.pos)
      PROVE  e.seq < f.seq
  <2>1. CASE e \in log /\ f \in log
    BY <1>6, <2>1 DEF KernelInv, LogInv
  <2>2. CASE e \in log /\ f \notin log
    BY <1>2, <1>3, <2>2
  <2>3. CASE e \notin log
    <3>1. e.ring = cur /\ e.pos = write_pos[cur]
      BY <1>3, <2>3
    <3>2. /\ f.ring \in Nat /\ f.pos \in Nat /\ write_pos[f.ring] \in Nat
          /\ cur \in Nat
      BY <1>0
    <3>3. CASE f \in log
      <4>1. f.ring <= cur /\ f.pos < write_pos[f.ring]
        BY <1>2, <3>3
      <4> QED
        BY <1>6, <3>1, <3>2, <4>1
    <3>4. CASE f \notin log
      <4>1. f.ring = cur /\ f.pos = write_pos[cur]
        BY <1>3, <3>4
      <4> QED
        BY <1>6, <3>1, <3>2, <4>1
    <3> QED
      BY <3>3, <3>4
  <2> QED
    BY <2>1, <2>2, <2>3
<1> QED
  BY <1>4, <1>5, <1>6 DEF LogInv

LEMMA KernelStore ==
  ASSUME KernelTypeOK, KernelInv, KernelNext
  PROVE  StoreInv'
<1> SUFFICES ASSUME NEW e \in log', tail_pos'[e.ring] <= e.pos
             PROVE  (\/ data[e.ring][Offset(e.ring, e.pos)] = e.pos
                     \/ /\ data[e.ring][Offset(e.ring, e.pos)] = Zero
                        /\ <<e.ring, e.pos>> \in corrupt)'
  BY DEF StoreInv
<1>1. CASE e \in log
  <2>1. e.ring \in Rings /\ e.pos \in Nat /\ tail_pos[e.ring] \in Nat /\ tail_pos'[e.ring] \in Nat
    BY <1>1, KernelTypes DEF KernelTypeOK, Event
  <2>2. tail_pos[e.ring] <= e.pos /\ corrupt \subseteq corrupt'
    BY <2>1, KernelGrows
  <2>3. \/ data[e.ring][Offset(e.ring, e.pos)] = e.pos
        \/ /\ data[e.ring][Offset(e.ring, e.pos)] = Zero
           /\ <<e.ring, e.pos>> \in corrupt
    BY <1>1, <2>2 DEF KernelInv, StoreInv
  <2>4. data'[e.ring][Offset(e.ring, e.pos)] = data[e.ring][Offset(e.ring, e.pos)]
    BY <1>1, KernelKeepsHeaders
  <2>5. Offset(e.ring, e.pos)' = Offset(e.ring, e.pos)
    BY DEF Offset
  <2> QED
    BY <2>2, <2>3, <2>4, <2>5
<1>2. CASE e \notin log
  <2>1. PICK damaged \in BOOLEAN : Publish(damaged)
    BY <1>2 DEF KernelNext, Reserve, Overwrite, Drop, Resize
  <2>2. e.ring = cur /\ e.pos = write_pos[cur] /\ cur \in Rings /\ DOMAIN data = Rings
    BY <1>2, <2>1 DEF Publish, KernelTypeOK
  <2>3. Offset(cur, write_pos[cur]) \in DOMAIN data[cur]
    BY OffsetType DEF KernelTypeOK
  <2>4. data'[cur][Offset(cur, write_pos[cur])] = IF damaged THEN Zero ELSE write_pos[cur]
    BY <2>1, <2>2, <2>3 DEF Publish
  <2>5. damaged => <<cur, write_pos[cur]>> \in corrupt'
    BY <2>1 DEF Publish
  <2> QED
    BY <2>2, <2>4, <2>5 DEF Offset
<1> QED
  BY <1>1, <1>2

LEMMA KernelSteps ==
  ASSUME KernelTypeOK, KernelInv, KernelNext
  PROVE  KernelInv'
BY KernelRings, KernelLog, KernelStore DEF KernelInv

-----------------------------------------------------------------------------
(* The reader's invariants while the kernel runs. *)

LEMMA KernelPlace ==
  ASSUME IInv, KernelNext, UNCHANGED reader
  PROVE  PlaceInv'
<1>0. /\ UNCHANGED <<pc, caller, ring, read_pos, gen>> /\ IsOpen' = IsOpen
      /\ ring \in Rings /\ ring \in Nat /\ read_pos \in Nat /\ cur \in Nat /\ cur' \in Nat
      /\ write_pos[ring] \in Nat /\ write_pos'[ring] \in Nat
  <2>1. KernelTypeOK'
    BY KernelTypes DEF IInv, TypeOK
  <2>2. Rings \subseteq Nat
    BY DEF Rings
  <2> QED
    BY <2>1, <2>2 DEF IInv, TypeOK, ReaderTypeOK, KernelTypeOK, reader, rd, IsOpen
<1>1. cur <= cur' /\ write_pos[ring] <= write_pos'[ring]
  BY <1>0, KernelGrows DEF IInv, TypeOK
<1>2. generation'[ring] = generation[ring] \/ generation[ring] = ring
  <2>1. CASE Resize
    BY <1>0, <2>1 DEF Resize, IInv, TypeOK, KernelTypeOK, KernelInv, RingInv
  <2>2. CASE UNCHANGED generation
    BY <2>2
  <2> QED
    BY <2>1, <2>2 DEF KernelNext, Reserve, Overwrite, Publish, Drop
<1>3. Boundary(ring, read_pos) => Boundary(ring, read_pos)'
  BY <1>0, KernelBoundary DEF IInv, TypeOK
<1> QED
  BY <1>0, <1>1, <1>2, <1>3 DEF IInv, PlaceInv

LEMMA KernelGuard ==
  ASSUME IInv, KernelNext, UNCHANGED reader
  PROVE  GuardInv'
<1>0. /\ UNCHANGED <<pc, ring, read_pos, saved_tail, size, sequence>>
      /\ ring \in Rings /\ read_pos \in Nat
      /\ tail_pos[ring] \in Nat /\ tail_pos'[ring] \in Nat
  <2>1. KernelTypeOK'
    BY KernelTypes DEF IInv, TypeOK
  <2> QED
    BY <2>1 DEF IInv, TypeOK, ReaderTypeOK, KernelTypeOK, reader, rd, locals
<1>1. log \subseteq log' /\ corrupt \subseteq corrupt' /\ tail_pos[ring] <= tail_pos'[ring]
  BY <1>0, KernelGrows DEF IInv, TypeOK
<1>2. tail_pos'[ring] <= read_pos => tail_pos[ring] <= read_pos
  BY <1>0, <1>1
<1>3. ASSUME pc = "fields", tail_pos'[ring] <= read_pos
      PROVE  Header' = read_pos
  <2>1. PICK e \in log : e.ring = ring /\ e.pos = read_pos
    BY <1>2, <1>3 DEF IInv, GuardInv
  <2>2. Header = read_pos
    BY <1>2, <1>3 DEF IInv, GuardInv
  <2>3. data'[ring][Offset(ring, read_pos)] = data[ring][Offset(ring, read_pos)]
    BY <1>3, <2>1, KernelKeepsHeaders DEF IInv, TypeOK
  <2> QED
    BY <1>0, <2>2, <2>3 DEF Header, Offset
<1> QED
  BY <1>0, <1>1, <1>2, <1>3 DEF IInv, GuardInv

LEMMA KernelAttach ==
  ASSUME IInv, KernelNext, UNCHANGED reader
  PROVE  AttachInv'
<1>0. /\ UNCHANGED <<pc, caller, ring, new_ring, start>>
      /\ new_ring \in Rings /\ new_ring \in Nat /\ ring \in Nat /\ start \in Nat
      /\ cur \in Nat /\ cur' \in Nat
      /\ write_pos[new_ring] \in Nat /\ write_pos'[new_ring] \in Nat
  <2>1. KernelTypeOK'
    BY KernelTypes DEF IInv, TypeOK
  <2>2. Rings \subseteq Nat
    BY DEF Rings
  <2> QED
    BY <2>1, <2>2 DEF IInv, TypeOK, ReaderTypeOK, KernelTypeOK, reader, rd, locals
<1>1. cur <= cur' /\ write_pos[new_ring] <= write_pos'[new_ring]
  BY <1>0, KernelGrows DEF IInv, TypeOK
<1>2. Boundary(new_ring, start) => Boundary(new_ring, start)'
  BY <1>0, KernelBoundary DEF IInv, TypeOK
<1> QED
  BY <1>0, <1>1, <1>2 DEF IInv, AttachInv

LEMMA KernelAhead ==
  ASSUME IInv, KernelNext, UNCHANGED reader
  PROVE  AheadInv'
<1>0. /\ UNCHANGED <<ring, read_pos, last_seq>> /\ IsOpen' = IsOpen
      /\ last_seq \in Nat /\ seq \in Nat /\ seq' \in Nat
  <2>1. KernelTypeOK'
    BY KernelTypes DEF IInv, TypeOK
  <2> QED
    BY <2>1 DEF IInv, TypeOK, ReaderTypeOK, KernelTypeOK, reader, rd, IsOpen
<1>1. seq <= seq'
  BY KernelGrows DEF IInv, TypeOK
<1>2. phase' # "quiet" => (phase # "quiet" /\ seq' = seq) \/ seq' = seq + 1
  BY DEF KernelNext, Reserve, Overwrite, Publish, Drop, Resize
<1>3. last_seq <= seq /\ (phase # "quiet" => last_seq < seq)
  BY DEF IInv, AheadInv
<1>4. ASSUME IsOpen, NEW e \in log',
             e.ring > ring \/ (e.ring = ring /\ e.pos >= read_pos)
      PROVE  e.seq > last_seq
  <2>1. CASE e \in log
    BY <1>4, <2>1 DEF IInv, AheadInv
  <2>2. CASE e \notin log
    <3>1. e.seq = seq /\ phase # "quiet"
      BY <2>2, KernelAdds DEF IInv, TypeOK
    <3> QED
      BY <1>0, <1>3, <3>1
  <2> QED
    BY <2>1, <2>2
<1>5. last_seq <= seq' /\ (phase' # "quiet" => last_seq < seq')
  BY <1>0, <1>1, <1>2, <1>3
<1> QED
  BY <1>0, <1>4, <1>5 DEF AheadInv

LEMMA KernelReader ==
  ASSUME IInv, KernelNext, UNCHANGED reader
  PROVE  IInv'
<1>1. TypeOK' /\ KernelInv'
  <2>1. KernelTypeOK' /\ KernelInv'
    BY KernelTypes, KernelSteps DEF IInv, TypeOK
  <2>2. ReaderTypeOK'
    BY DEF IInv, TypeOK, ReaderTypeOK, reader, rd, locals
  <2> QED
    BY <2>1, <2>2 DEF TypeOK
<1>2. HandleInv' /\ CountInv'
  BY DEF IInv, HandleInv, CountInv, reader, rd, locals, IsOpen
<1>3. NeverTorn'
  <2>1. log \subseteq log'
    BY KernelGrows DEF IInv, TypeOK
  <2> QED
    BY <2>1 DEF IInv, NeverTorn, reader
<1> QED
  BY <1>1, <1>2, <1>3, KernelPlace, KernelGuard, KernelAttach, KernelAhead DEF IInv

-----------------------------------------------------------------------------
(* The reader's own steps. *)

ReaderInv == PlaceInv /\ GuardInv /\ AttachInv /\ HandleInv /\ AheadInv /\ CountInv /\ NeverTorn

LEMMA Ground ==
  ASSUME TypeOK
  PROVE  /\ Rings \subseteq Nat /\ cur \in Nat /\ seq \in Nat
         /\ ring \in Rings /\ ring \in Nat /\ new_ring \in Rings /\ new_ring \in Nat
         /\ read_pos \in Nat /\ last_seq \in Nat /\ lost \in Nat /\ gen \in Nat
         /\ saved_tail \in Nat /\ size \in Nat /\ sequence \in Nat /\ start \in Nat
         /\ first \in Nat /\ count \in Nat
         /\ write_pos[ring] \in Nat /\ tail_pos[ring] \in Nat /\ generation[ring] \in Nat
         /\ write_pos[new_ring] \in Nat /\ tail_pos[new_ring] \in Nat
<1>1. Rings \subseteq Nat
  BY DEF Rings
<1>2. cur \in Rings /\ ring \in Rings /\ new_ring \in Rings
  BY DEF TypeOK, KernelTypeOK, ReaderTypeOK
<1>3. /\ read_pos \in Nat /\ last_seq \in Nat /\ lost \in Nat /\ gen \in Nat
      /\ saved_tail \in Nat /\ size \in Nat /\ sequence \in Nat /\ start \in Nat
      /\ first \in Nat /\ count \in Nat
  BY DEF TypeOK, ReaderTypeOK
<1>4. /\ seq \in Nat
      /\ write_pos[ring] \in Nat /\ tail_pos[ring] \in Nat /\ generation[ring] \in Nat
      /\ write_pos[new_ring] \in Nat /\ tail_pos[new_ring] \in Nat
  BY <1>2 DEF TypeOK, KernelTypeOK
<1> QED
  BY <1>1, <1>2, <1>3, <1>4

\* The generation word differs from the one recorded only in a retired ring.
LEMMA StaleIsRetired ==
  ASSUME IInv, IsOpen, generation[ring] # gen
  PROVE  ring < cur
<1>1. ring \in Rings /\ gen \in {ring, generation[ring]}
  BY Ground DEF IInv, PlaceInv
<1>2. generation[ring] = IF ring < cur THEN ring + 1 ELSE ring
  BY <1>1 DEF IInv, KernelInv, RingInv
<1> QED
  BY <1>1, <1>2

LEMMA CallsKeep ==
  ASSUME IInv, Calls
  PROVE  ReaderInv'
<1> USE DEF InNext, InAttach, IsOpen, rd, locals, kernel
<1>1. CASE ReaderOpen
  BY <1>1 DEF ReaderOpen, ReaderInv, IInv, PlaceInv, GuardInv, AttachInv, HandleInv, AheadInv,
              CountInv, NeverTorn, Boundary, Header, Offset
<1>2. CASE ReaderNext
  BY <1>2 DEF ReaderNext, ReaderInv, IInv, PlaceInv, GuardInv, AttachInv, HandleInv, AheadInv,
              CountInv, NeverTorn, Boundary, Header, Offset
<1>3. CASE ReaderWait
  <2>1. ring < cur
    BY <1>3, StaleIsRetired DEF ReaderWait
  <2> QED
    BY <1>3, <2>1 DEF ReaderWait, ReaderInv, IInv, PlaceInv, GuardInv, AttachInv, HandleInv,
              AheadInv, CountInv, NeverTorn, Boundary, Header, Offset
<1>4. CASE ReaderClose
  <2>1. PlaceInv' /\ GuardInv' /\ AttachInv' /\ NeverTorn'
    BY <1>4 DEF ReaderClose, PlaceInv, GuardInv, AttachInv, NeverTorn
  <2>2. HandleInv'
    BY <1>4 DEF ReaderClose, IInv, HandleInv
  <2>3. AheadInv'
    <3>1. seq \in Nat /\ (phase # "quiet" => seq > 0)
      BY Ground DEF IInv, KernelInv, RingInv
    <3> QED
      BY <1>4, <3>1 DEF ReaderClose, AheadInv
  <2>4. CountInv'
    BY <1>4 DEF ReaderClose, CountInv
  <2> QED
    BY <2>1, <2>2, <2>3, <2>4 DEF ReaderInv
<1> QED
  BY <1>1, <1>2, <1>3, <1>4 DEF Calls

LEMMA ParseKeeps ==
  ASSUME IInv, ParseEvent
  PROVE  GuardInv'
<1>0. /\ pc = "parse" /\ pc' = (IF size' = 0 THEN "resync" ELSE "fields") /\ size' \in Nat
      /\ UNCHANGED <<ring, read_pos, saved_tail, tail_pos, log, corrupt, data>>
  <2>1. Capacity[ring] \in Nat
    BY Ground, CapacityAssumption DEF IInv
  <2> QED
    BY <2>1 DEF ParseEvent, rd, kernel
<1>1. saved_tail <= read_pos
  BY <1>0 DEF IInv, GuardInv
<1>2. Header' = Header
  BY <1>0 DEF Header, Offset
<1>3. ASSUME tail_pos[ring] <= read_pos
      PROVE  \E e \in log : /\ e.ring = ring /\ e.pos = read_pos /\ e.size > 0
                            /\ \/ Header = read_pos /\ size' = e.size
                               \/ size' = 0 /\ <<ring, read_pos>> \in corrupt
  <2>1. PICK e \in log : e.ring = ring /\ e.pos = read_pos
    <3>1. read_pos < write_pos[ring] /\ Boundary(ring, read_pos)
      BY <1>0 DEF IInv, PlaceInv, IsOpen, InNext
    <3> QED
      BY <3>1, Ground DEF IInv, Boundary
  <2>2. e.size > 0 /\ \A f \in log : EventHere(f) => f = e
    BY <2>1 DEF IInv, KernelInv, LogInv, EventHere
  <2>3. Header = read_pos \/ (Header = Zero /\ <<ring, read_pos>> \in corrupt)
    BY <1>3, <2>1 DEF IInv, KernelInv, StoreInv, Header
  <2>4. Zero # read_pos
    BY Ground DEF IInv, Zero
  <2> QED
    BY <2>1, <2>2, <2>3, <2>4 DEF ParseEvent
<1>4. pc' = "fields" => size' > 0
  BY <1>0
<1>5. pc' = "resync" => size' = 0
  BY <1>0
<1>6. ASSUME tail_pos[ring] <= read_pos, pc' = "fields"
      PROVE  Header = read_pos /\ \E e \in log : e.ring = ring /\ e.pos = read_pos /\ size' = e.size
  BY <1>3, <1>6, <1>4, <1>0
<1>7. ASSUME tail_pos[ring] <= read_pos, pc' = "resync"
      PROVE  <<ring, read_pos>> \in corrupt
  <2>1. PICK e \in log : /\ e.size > 0
                         /\ size' = e.size \/ <<ring, read_pos>> \in corrupt
    BY <1>3, <1>7
  <2> QED
    BY <2>1, <1>5, <1>7
<1>8. pc' \in {"fields", "resync"}
  BY <1>0
<1> QED
  BY <1>0, <1>1, <1>2, <1>4, <1>6, <1>7, <1>8 DEF GuardInv

\* What the guard lets through is the event at read_pos, whole.
LEMMA GuardPasses ==
  ASSUME IInv, pc = "guard", ~(tail_pos[ring] > saved_tail /\ read_pos < tail_pos[ring])
  PROVE  \E e \in log : e = [ring |-> ring, pos |-> read_pos, size |-> size, seq |-> sequence]
<1>1. tail_pos[ring] <= read_pos
  <2>1. saved_tail <= read_pos
    BY DEF IInv, GuardInv
  <2> QED
    BY <2>1, Ground DEF IInv
<1>2. PICK e \in log : e.ring = ring /\ e.pos = read_pos /\ size = e.size
  BY <1>1 DEF IInv, GuardInv
<1>3. PICK f \in log : f.ring = ring /\ f.pos = read_pos /\ sequence = f.seq
  BY <1>1 DEF IInv, GuardInv
<1>4. e = f
  BY <1>2, <1>3 DEF IInv, KernelInv, LogInv
<1>5. e \in Event
  BY DEF IInv, TypeOK, KernelTypeOK
<1>6. e = [ring |-> e.ring, pos |-> e.pos, size |-> e.size, seq |-> e.seq]
  BY <1>5 DEF Event
<1> QED
  BY <1>2, <1>3, <1>4, <1>6

LEMMA DeliverKeeps ==
  ASSUME IInv, pc = "guard", Deliver, UNCHANGED <<kernel, caller, ring, gen, fds, maps>>,
         ~(tail_pos[ring] > saved_tail /\ read_pos < tail_pos[ring])
  PROVE  ReaderInv'
<1>1. PICK e \in log : e = [ring |-> ring, pos |-> read_pos, size |-> size, seq |-> sequence]
  BY GuardPasses
<1>2. e.ring = ring /\ e.pos = read_pos /\ e.size = size /\ e.seq = sequence
  BY <1>1
<1>3. /\ read_pos + size <= write_pos[ring] /\ Boundary(ring, read_pos + size)
      /\ size > 0 /\ sequence > 0 /\ sequence <= seq /\ (phase # "quiet" => sequence < seq)
  BY <1>2 DEF IInv, KernelInv, LogInv
<1>4. IsOpen /\ sequence > last_seq
  <2>1. IsOpen
    BY DEF IsOpen, InNext
  <2>2. e.pos >= read_pos
    BY <1>2, Ground DEF IInv
  <2> QED
    BY <1>2, <2>1, <2>2 DEF IInv, AheadInv
<1>5. /\ pc' = "idle" /\ read_pos' = read_pos + size /\ last_seq' = sequence
      /\ out' = e /\ count' = count + 1
      /\ first' = (IF count = 0 THEN sequence ELSE first)
      /\ lost' = (IF last_seq # 0 /\ sequence > last_seq + 1
                  THEN lost + (sequence - last_seq - 1) ELSE lost)
      /\ UNCHANGED <<ring, gen, fds, maps, cur, write_pos, generation, log, seq, phase>>
  BY <1>1 DEF Deliver, Return, kernel
<1>6. PlaceInv'
  <2>1. ring <= cur /\ gen \in {ring, generation[ring]}
    BY <1>4 DEF IInv, PlaceInv
  <2> QED
    BY <1>3, <1>5, <2>1 DEF PlaceInv, Boundary, InNext
<1>7. GuardInv' /\ AttachInv'
  BY <1>5 DEF GuardInv, AttachInv, InAttach
<1>8. HandleInv'
  BY <1>5 DEF IInv, HandleInv, IsOpen, InNext
<1>9. AheadInv'
  <2>1. ASSUME NEW g \in log, g.ring > ring \/ (g.ring = ring /\ g.pos >= read_pos + size)
        PROVE  g.seq > sequence
    <3>1. g.ring \in Nat /\ g.pos \in Nat /\ g.seq \in Nat
      <4>1. g \in Event /\ Rings \subseteq Nat
        BY Ground DEF IInv, TypeOK, KernelTypeOK
      <4> QED
        BY <4>1 DEF Event
    <3>2. ring < g.ring \/ (ring = g.ring /\ read_pos < g.pos)
      BY <2>1, <3>1, <1>3, Ground DEF IInv
    <3>3. e.seq < g.seq
      BY <1>2, <3>2 DEF IInv, KernelInv, LogInv
    <3> QED
      BY <1>2, <3>1, <3>3, Ground DEF IInv
  <2> QED
    BY <1>3, <1>5, <2>1 DEF AheadInv
<1>10. CountInv'
  <2>1. /\ count = 0 <=> last_seq = 0
        /\ count = 0 => lost = 0
        /\ count > 0 => lost + count = last_seq - first + 1
    BY DEF IInv, CountInv
  <2>2. /\ last_seq \in Nat /\ sequence \in Nat /\ lost \in Nat /\ count \in Nat /\ first \in Nat
    BY Ground DEF IInv
  <2>3. count' > 0 /\ last_seq' # 0
    BY <1>3, <1>5, <2>2
  <2>4. lost' + count' = last_seq' - first' + 1
    BY <1>4, <1>5, <2>1, <2>2
  <2> QED
    BY <1>5, <2>2, <2>3, <2>4 DEF CountInv, IsOpen
<1>11. NeverTorn'
  BY <1>5 DEF NeverTorn
<1> QED
  BY <1>6, <1>7, <1>8, <1>9, <1>10, <1>11 DEF ReaderInv

\* Moving up to the tail keeps what lies ahead ahead.
LEMMA LapKeeps ==
  ASSUME IInv, IsOpen, read_pos < tail_pos[ring], read_pos' = tail_pos[ring],
         UNCHANGED <<kernel, ring, last_seq, gen>>, IsOpen'
  PROVE  /\ ring' <= cur' /\ Boundary(ring, read_pos)' /\ read_pos' <= write_pos'[ring']
         /\ gen' \in {ring', generation'[ring']}
         /\ AheadInv'
<1>1. tail_pos[ring] <= write_pos[ring] /\ Boundary(ring, tail_pos[ring])
  BY Ground DEF IInv, KernelInv, RingInv
<1>2. ASSUME NEW e \in log, e.ring > ring \/ (e.ring = ring /\ e.pos >= tail_pos[ring])
      PROVE  e.seq > last_seq
  <2>1. e.pos \in Nat
    <3>1. e \in Event
      BY DEF IInv, TypeOK, KernelTypeOK
    <3> QED
      BY <3>1 DEF Event
  <2>2. e.ring > ring \/ (e.ring = ring /\ e.pos >= read_pos)
    BY <1>2, <2>1, Ground DEF IInv
  <2> QED
    BY <2>2 DEF IInv, AheadInv
<1>3. ring <= cur /\ gen \in {ring, generation[ring]}
  BY DEF IInv, PlaceInv
<1>4. last_seq <= seq /\ (phase # "quiet" => last_seq < seq)
  BY DEF IInv, AheadInv
<1>5. AheadInv'
  BY <1>2, <1>4 DEF AheadInv, kernel
<1> QED
  BY <1>1, <1>3, <1>5 DEF Boundary, kernel

LEMMA NextKeeps ==
  ASSUME IInv, NextSteps
  PROVE  ReaderInv'
<1> USE DEF InNext, InAttach, IsOpen, rd, locals, kernel
<1>1. CASE CheckGeneration
  <2>1. pc' = "attach" => ring < cur
    BY <1>1, StaleIsRetired DEF CheckGeneration
  <2> QED
    BY <1>1, <2>1 DEF CheckGeneration, ReaderInv, IInv, PlaceInv, GuardInv, AttachInv, HandleInv,
              AheadInv, CountInv, NeverTorn, Boundary
<1>2. CASE CheckEmpty
  <2>1. pc' \in {"idle", "tail"} /\ (pc' = "tail" => read_pos < write_pos[ring])
    <3>1. read_pos <= write_pos[ring]
      BY <1>2 DEF CheckEmpty, IInv, PlaceInv
    <3> QED
      BY <1>2, <3>1, Ground DEF CheckEmpty, Return, IInv
  <2>2. PlaceInv' /\ GuardInv' /\ AttachInv'
    BY <1>2, <2>1 DEF CheckEmpty, IInv, PlaceInv, GuardInv, AttachInv, Boundary
  <2> QED
    BY <1>2, <2>1, <2>2 DEF CheckEmpty, ReaderInv, IInv, HandleInv, AheadInv, CountInv, NeverTorn
<1>3. CASE CheckLapped
  <2>1. CASE read_pos < tail_pos[ring]
    <3>1. /\ pc = "tail" /\ pc' = "generation" /\ read_pos' = tail_pos[ring]
          /\ UNCHANGED <<kernel, caller, ring, last_seq, lost, gen, fds, maps, out, first, count>>
      BY <1>3, <2>1 DEF CheckLapped
    <3>2. /\ ring' <= cur' /\ Boundary(ring, read_pos)' /\ read_pos' <= write_pos'[ring']
          /\ gen' \in {ring', generation'[ring']}
          /\ AheadInv'
      BY <2>1, <3>1, LapKeeps
    <3>3. PlaceInv' /\ GuardInv' /\ AttachInv'
      BY <3>1, <3>2 DEF IInv, PlaceInv, GuardInv, AttachInv
    <3> QED
      BY <3>1, <3>2, <3>3 DEF ReaderInv, IInv, HandleInv, CountInv, NeverTorn
  <2>2. CASE ~(read_pos < tail_pos[ring])
    <3>1. tail_pos[ring] <= read_pos
      BY <2>2, Ground DEF IInv
    <3> QED
      BY <1>3, <2>2, <3>1 DEF CheckLapped, ReaderInv, IInv, PlaceInv, GuardInv, AttachInv,
                HandleInv, AheadInv, CountInv, NeverTorn, Boundary
  <2> QED
    BY <2>1, <2>2
<1>4. CASE ParseEvent
  <2>1. pc = "parse" /\ pc' \in {"fields", "resync"}
    BY <1>4 DEF ParseEvent
  <2>2. PlaceInv' /\ AttachInv' /\ HandleInv'
    BY <1>4, <2>1 DEF ParseEvent, IInv, PlaceInv, AttachInv, HandleInv, Boundary
  <2>3. AheadInv' /\ CountInv' /\ NeverTorn'
    BY <1>4, <2>1 DEF ParseEvent, IInv, AheadInv, CountInv, NeverTorn
  <2> QED
    BY <1>4, <2>2, <2>3, ParseKeeps DEF ReaderInv
<1>5. CASE ReadFields
  <2>1. pc = "fields" /\ pc' = "guard"
    BY <1>5 DEF ReadFields
  <2>2. GuardInv'
    BY <1>5, <2>1 DEF ReadFields, IInv, GuardInv, EventHere
  <2>3. PlaceInv' /\ AttachInv' /\ HandleInv'
    BY <1>5, <2>1 DEF ReadFields, IInv, PlaceInv, AttachInv, HandleInv, Boundary
  <2>4. AheadInv' /\ CountInv' /\ NeverTorn'
    BY <1>5, <2>1 DEF ReadFields, IInv, AheadInv, CountInv, NeverTorn
  <2> QED
    BY <2>2, <2>3, <2>4 DEF ReaderInv
<1>6. CASE TornReadGuard
  <2>1. CASE tail_pos[ring] > saved_tail /\ read_pos < tail_pos[ring]
    BY <1>6, <2>1 DEF TornReadGuard, ReaderInv, IInv, PlaceInv, GuardInv, AttachInv, HandleInv,
              AheadInv, CountInv, NeverTorn, Boundary
  <2>2. CASE ~(tail_pos[ring] > saved_tail /\ read_pos < tail_pos[ring])
    BY <1>6, <2>2, DeliverKeeps DEF TornReadGuard
  <2> QED
    BY <2>1, <2>2
<1>7. CASE Resync
  <2>1. CASE read_pos < tail_pos[ring]
    <3>1. ~(tail_pos[ring] <= read_pos)
      BY <2>1, Ground DEF IInv
    <3>2. /\ pc = "resync" /\ pc' = "generation" /\ read_pos' = tail_pos[ring]
          /\ UNCHANGED <<kernel, caller, ring, last_seq, lost, gen, fds, maps, out, first, count>>
      BY <1>7, <3>1 DEF Resync
    <3>3. /\ ring' <= cur' /\ Boundary(ring, read_pos)' /\ read_pos' <= write_pos'[ring']
          /\ gen' \in {ring', generation'[ring']}
          /\ AheadInv'
      BY <2>1, <3>2, LapKeeps
    <3>4. PlaceInv' /\ GuardInv' /\ AttachInv'
      BY <3>2, <3>3 DEF IInv, PlaceInv, GuardInv, AttachInv
    <3> QED
      BY <3>2, <3>3, <3>4 DEF ReaderInv, IInv, HandleInv, CountInv, NeverTorn
  <2>2. CASE ~(read_pos < tail_pos[ring])
    <3>1. tail_pos[ring] <= read_pos
      BY <2>2, Ground DEF IInv
    <3> QED
      BY <1>7, <2>2, <3>1 DEF Resync, Return, ReaderInv, IInv, PlaceInv, GuardInv, AttachInv,
                HandleInv, AheadInv, CountInv, NeverTorn, Boundary
  <2> QED
    BY <2>1, <2>2
<1> QED
  BY <1>1, <1>2, <1>3, <1>4, <1>5, <1>6, <1>7 DEF NextSteps

\* A failed attach leaves the reader there was, or none.
LEMMA AttachErrorKeeps ==
  ASSUME IInv, pc \in InAttach, AttachError,
         fds' = (IF caller = "open" THEN {} ELSE {ring}),
         maps' = (IF caller = "open" THEN {} ELSE {ring})
  PROVE  ReaderInv'
<1>1. pc' = (IF caller = "open" THEN "closed" ELSE "idle") /\ IsOpen' = IsOpen
  BY DEF AttachError, IsOpen, InNext, InAttach
<1>2. PlaceInv' /\ GuardInv' /\ AttachInv'
  BY <1>1 DEF AttachError, rd, kernel, IInv, PlaceInv, GuardInv, AttachInv, InNext, InAttach, Boundary
<1>3. HandleInv'
  BY <1>1 DEF AttachError, rd, HandleInv, IsOpen, InNext, InAttach
<1>4. AheadInv' /\ CountInv' /\ NeverTorn'
  BY <1>1 DEF AttachError, rd, kernel, IInv, AheadInv, CountInv, NeverTorn
<1> QED
  BY <1>2, <1>3, <1>4 DEF ReaderInv

LEMMA TakeRingKeeps ==
  ASSUME IInv, TakeRing, pc' \in {"idle", "generation"}, caller = "open" \/ caller = "next" \/ pc' = "idle",
         caller = "open" => pc' = "idle",
         fds' = {new_ring}, maps' = {new_ring}
  PROVE  ReaderInv'
<1>0. /\ pc = "record" /\ ring' = new_ring /\ read_pos' = start /\ gen' = generation[new_ring]
      /\ UNCHANGED <<kernel, caller, last_seq, lost, out, first, count>>
  BY DEF TakeRing
<1>1. /\ new_ring <= cur /\ (caller # "open" => ring < new_ring)
      /\ Boundary(new_ring, start) /\ start <= write_pos[new_ring]
  BY <1>0 DEF IInv, AttachInv
<1>2. PlaceInv' /\ GuardInv' /\ AttachInv'
  BY <1>0, <1>1 DEF kernel, PlaceInv, GuardInv, AttachInv, InNext, InAttach, Boundary
<1>3. HandleInv'
  BY <1>0 DEF HandleInv, IsOpen, InNext, InAttach
<1>4. AheadInv'
  <2>1. last_seq <= seq /\ (phase # "quiet" => last_seq < seq)
    BY DEF IInv, AheadInv
  <2>2. ASSUME NEW e \in log, e.ring > new_ring \/ (e.ring = new_ring /\ e.pos >= start)
        PROVE  e.seq > last_seq
    <3>1. e.ring \in Nat
      <4>1. e \in Event /\ Rings \subseteq Nat
        BY Ground DEF IInv, TypeOK, KernelTypeOK
      <4> QED
        BY <4>1 DEF Event
    <3>2. CASE caller = "open"
      <4>1. last_seq = 0
        BY <1>0, <3>2 DEF IInv, CountInv, IsOpen, InNext
      <4>2. e.seq > 0
        BY DEF IInv, KernelInv, LogInv
      <4> QED
        BY <4>1, <4>2
    <3>3. CASE caller # "open"
      <4>1. IsOpen
        BY <1>0, <3>3 DEF IsOpen, InAttach
      <4>2. e.ring > ring
        BY <1>1, <2>2, <3>1, <3>3, Ground DEF IInv
      <4> QED
        BY <4>1, <4>2 DEF IInv, AheadInv
    <3> QED
      BY <3>2, <3>3
  <2> QED
    BY <1>0, <2>1, <2>2 DEF kernel, AheadInv
<1>5. CountInv' /\ NeverTorn'
  BY <1>0 DEF kernel, IInv, CountInv, NeverTorn, IsOpen, InNext
<1> QED
  BY <1>2, <1>3, <1>4, <1>5 DEF ReaderInv

LEMMA AttachKeeps ==
  ASSUME IInv, AttachSteps
  PROVE  ReaderInv'
<1> USE DEF InNext, InAttach, IsOpen, rd, locals, kernel
<1>1. CASE Attach
  <2>1. PlaceInv' /\ GuardInv'
    BY <1>1 DEF Attach, IInv, PlaceInv, GuardInv, Boundary
  <2>2. AttachInv'
    BY <1>1, Ground DEF Attach, IInv, AttachInv
  <2>3. HandleInv'
    BY <1>1 DEF Attach, IInv, HandleInv
  <2>4. AheadInv' /\ CountInv' /\ NeverTorn'
    BY <1>1 DEF Attach, IInv, AheadInv, CountInv, NeverTorn
  <2> QED
    BY <2>1, <2>2, <2>3, <2>4 DEF ReaderInv
<1>2. CASE AttachFails
  BY <1>2, AttachErrorKeeps DEF AttachFails, IInv, HandleInv
<1>3. CASE MapRing
  BY <1>3 DEF MapRing, ReaderInv, IInv, PlaceInv, GuardInv, AttachInv, HandleInv,
            AheadInv, CountInv, NeverTorn, Boundary
<1>4. CASE MapRingFails
  <2>1. caller # "open" => ring # new_ring
    BY <1>4, Ground DEF MapRingFails, IInv, AttachInv
  <2> QED
    BY <1>4, <2>1, AttachErrorKeeps DEF MapRingFails, IInv, HandleInv
<1>5. CASE LoadStart
  <2>1. tail_pos[new_ring] <= write_pos[new_ring] /\ Boundary(new_ring, tail_pos[new_ring])
    BY Ground DEF IInv, KernelInv, RingInv
  <2>2. PlaceInv' /\ GuardInv'
    BY <1>5 DEF LoadStart, IInv, PlaceInv, GuardInv, Boundary
  <2>3. AttachInv'
    BY <1>5, <2>1 DEF LoadStart, IInv, AttachInv, Boundary
  <2>4. HandleInv'
    BY <1>5 DEF LoadStart, IInv, HandleInv
  <2>5. AheadInv' /\ CountInv' /\ NeverTorn'
    BY <1>5 DEF LoadStart, IInv, AheadInv, CountInv, NeverTorn
  <2> QED
    BY <2>2, <2>3, <2>4, <2>5 DEF ReaderInv
<1>6. CASE OpenDone
  BY <1>6, TakeRingKeeps DEF OpenDone, TakeRing, IInv, HandleInv
<1>7. CASE OpenNoMemory
  BY <1>7, AttachErrorKeeps DEF OpenNoMemory, IInv, HandleInv
<1>8. CASE ReattachDone
  <2>1. ring # new_ring
    BY <1>8, Ground DEF ReattachDone, TakeRing, IInv, AttachInv
  <2> QED
    BY <1>8, <2>1, TakeRingKeeps DEF ReattachDone, TakeRing, IInv, HandleInv
<1> QED
  BY <1>1, <1>2, <1>3, <1>4, <1>5, <1>6, <1>7, <1>8 DEF AttachSteps

-----------------------------------------------------------------------------
(* The theorems. *)

LEMMA IInvInit ==
  ASSUME Init
  PROVE  IInv
<1>0. 1 \in Rings /\ Rings \subseteq Nat
  BY BoundsAssumption DEF Rings
<1>1. TypeOK
  BY TypeInit
<1>2. KernelInv
  <2>1. RingInv
    <3> SUFFICES ASSUME NEW r \in Rings
                 PROVE  /\ tail_pos[r] <= write_pos[r] /\ Boundary(r, tail_pos[r])
                        /\ generation[r] = (IF r < cur THEN r + 1 ELSE r)
                        /\ cur < r => write_pos[r] = 0
      BY DEF Init, KernelInit, RingInv
    <3>1. r \in Nat /\ r >= 1
      BY DEF Rings
    <3> QED
      BY <3>1 DEF Init, KernelInit, Boundary
  <2>2. LogInv /\ StoreInv
    BY DEF Init, KernelInit, LogInv, StoreInv
  <2> QED
    BY <2>1, <2>2 DEF KernelInv
<1>3. ReaderInv
  <2>1. pc = "closed" /\ ~IsOpen
    BY DEF Init, IsOpen, InNext, InAttach
  <2>2. PlaceInv /\ GuardInv /\ AttachInv
    BY <2>1 DEF PlaceInv, GuardInv, AttachInv, InNext, InAttach
  <2>3. HandleInv
    BY <2>1 DEF Init, HandleInv
  <2>4. AheadInv /\ CountInv /\ NeverTorn
    BY <2>1 DEF Init, KernelInit, AheadInv, CountInv, NeverTorn
  <2> QED
    BY <2>2, <2>3, <2>4 DEF ReaderInv
<1> QED
  BY <1>1, <1>2, <1>3 DEF IInv, ReaderInv

LEMMA IInvStep ==
  ASSUME IInv, [Next]_vars
  PROVE  IInv'
<1>0. TypeOK'
  BY TypeStep DEF IInv
<1>1. CASE Calls \/ NextSteps \/ AttachSteps
  <2>1. UNCHANGED kernel
    BY <1>1, ReaderSteps
  <2>2. KernelInv'
    BY <2>1 DEF IInv, KernelInv, RingInv, LogInv, StoreInv, Boundary, Offset, kernel
  <2>3. ReaderInv'
    BY <1>1, CallsKeep, NextKeeps, AttachKeeps
  <2> QED
    BY <1>0, <2>2, <2>3 DEF IInv, ReaderInv
<1>2. CASE KernelNext /\ UNCHANGED reader
  BY <1>2, KernelReader
<1>3. CASE UNCHANGED vars
  <2>1. KernelInv'
    BY <1>3 DEF vars, kernel, IInv, KernelInv, RingInv, LogInv, StoreInv, Boundary, Offset
  <2>2. ReaderInv'
    <3> USE DEF vars, kernel, reader, rd, locals, IInv, IsOpen
    <3>1. PlaceInv' /\ AttachInv'
      BY <1>3 DEF PlaceInv, AttachInv, Boundary
    <3>2. GuardInv'
      BY <1>3 DEF GuardInv, Header, Offset
    <3>3. HandleInv' /\ CountInv' /\ NeverTorn'
      BY <1>3 DEF HandleInv, CountInv, NeverTorn
    <3>4. AheadInv'
      BY <1>3 DEF AheadInv
    <3> QED
      BY <3>1, <3>2, <3>3, <3>4 DEF ReaderInv
  <2> QED
    BY <1>0, <2>1, <2>2 DEF IInv, ReaderInv
<1> QED
  BY <1>1, <1>2, <1>3 DEF Next

LEMMA Inductive == Spec => []IInv
BY IInvInit, IInvStep, PTL DEF Spec

\* What next() gives the caller was published whole, for every capacity and
\* every interleaving of the kernel's overwriting with the loads of next().
THEOREM NoTornEvent == Spec => []NeverTorn
<1>1. IInv => NeverTorn
  BY DEF IInv
<1> QED
  BY <1>1, Inductive, PTL

\* next() never parses from the middle of an event.
THEOREM AlwaysAtEvent == Spec => []ReadPosAtEvent
<1>1. IInv => ReadPosAtEvent
  BY DEF IInv, PlaceInv, ReadPosAtEvent
<1> QED
  BY <1>1, Inductive, PTL

\* The lost counter and the deliveries together account for every sequence
\* number from the first delivered to the last.
THEOREM ExactLoss == Spec => []LostExact
<1>1. IInv => LostExact
  BY DEF IInv, CountInv, LostExact
<1> QED
  BY <1>1, Inductive, PTL

\* No path of open, reattach and close leaks or drops a descriptor or mapping.
THEOREM BalancedHandles == Spec => []HandlesBalanced
<1>1. IInv => HandlesBalanced
  BY DEF IInv, HandleInv, HandlesBalanced, IsOpen, InNext, InAttach
<1> QED
  BY <1>1, Inductive, PTL

\* When the parse fails, next() gives up only on an event that was published
\* damaged: an overwritten slot is always found out by the tail and retried.
THEOREM EinvalIsReal == Spec => CorruptIsReal
<1>1. IInv /\ [Next]_vars =>
        [pc = "resync" /\ pc' = "idle" => <<ring, read_pos>> \in corrupt]_vars
  <2> SUFFICES ASSUME IInv, Next, pc = "resync", pc' = "idle"
               PROVE  <<ring, read_pos>> \in corrupt
    OBVIOUS
  <2>1. Resync
    BY DEF Next, Calls, ReaderOpen, ReaderNext, ReaderWait, ReaderClose,
           NextSteps, CheckGeneration, CheckEmpty, CheckLapped, ParseEvent, ReadFields,
           TornReadGuard, AttachSteps, Attach, AttachFails, MapRing, MapRingFails, LoadStart,
           OpenDone, OpenNoMemory, ReattachDone, TakeRing, reader
  <2>2. tail_pos[ring] <= read_pos
    BY <2>1 DEF Resync
  <2> QED
    BY <2>2 DEF IInv, GuardInv
<1> QED
  BY <1>1, Inductive, PTL DEF Spec, CorruptIsReal

LEMMA DeliverGives ==
  ASSUME IInv, pc = "guard", Deliver, UNCHANGED <<kernel, caller, ring, gen, fds, maps>>,
         ~(tail_pos[ring] > saved_tail /\ read_pos < tail_pos[ring])
  PROVE  Stream!Give
<1>1. PICK e \in log : e = [ring |-> ring, pos |-> read_pos, size |-> size, seq |-> sequence]
  BY GuardPasses
<1>2. sequence <= seq /\ sequence \in Nat
  BY <1>1, Ground DEF IInv, KernelInv, LogInv
<1>3. IsOpen
  BY DEF IsOpen, InNext
<1>4. sequence > last_seq
  <2>1. e.pos >= read_pos /\ e.ring = ring /\ e.seq = sequence
    BY <1>1, Ground DEF IInv
  <2> QED
    BY <1>3, <2>1 DEF IInv, AheadInv
<1>5. last_seq = 0 => lost = 0
  BY DEF IInv, CountInv
<1>6. last_seq' = sequence /\ IsOpen' /\ seq' = seq
  BY DEF Deliver, Return, IsOpen, kernel
<1>7. last_seq' \in (last_seq + 1)..seq
  BY <1>2, <1>4, <1>6, Ground DEF IInv
<1>8. lost' = IF last_seq = 0 THEN 0 ELSE lost + (last_seq' - last_seq - 1)
  <2>1. lost' = IF last_seq # 0 /\ sequence > last_seq + 1
                THEN lost + (sequence - last_seq - 1) ELSE lost
    BY DEF Deliver
  <2>2. lost \in Int /\ last_seq \in Int /\ sequence \in Int
    BY Ground DEF IInv
  <2> QED
    BY <1>4, <1>5, <1>6, <2>1, <2>2
<1> QED
  BY <1>3, <1>6, <1>7, <1>8 DEF Stream!Give

\* The reader implements EventStream: whatever the kernel overwrites, drops,
\* damages or resizes, the caller of next() sees increasing sequence numbers,
\* none twice, and reader_lost() is exactly what was skipped.
THEOREM ReaderIsStream == Spec => StreamSpec
<1>1. Init => Stream!Init
  BY DEF Init, KernelInit, Stream!Init, IsOpen, InNext, InAttach
<1>2. IInv /\ [Next]_vars => [Stream!Next]_(Stream!vars)
  <2> SUFFICES ASSUME IInv, [Next]_vars
               PROVE  Stream!Next \/ UNCHANGED <<seq, IsOpen, last_seq, lost>>
    BY DEF Stream!vars
  <2> USE DEF IsOpen, InNext, InAttach
  <2>1. CASE Calls
    <3>1. CASE ReaderClose
      BY <3>1 DEF ReaderClose, kernel, Stream!Next, Stream!Close
    <3> QED
      BY <2>1, <3>1 DEF Calls, ReaderOpen, ReaderNext, ReaderWait, rd, kernel
  <2>2. CASE NextSteps
    <3>1. CASE TornReadGuard
      <4>1. CASE tail_pos[ring] > saved_tail /\ read_pos < tail_pos[ring]
        BY <3>1, <4>1 DEF TornReadGuard, kernel
      <4>2. CASE ~(tail_pos[ring] > saved_tail /\ read_pos < tail_pos[ring])
        BY <3>1, <4>2, DeliverGives DEF TornReadGuard, Stream!Next
      <4> QED
        BY <4>1, <4>2
    <3>2. CASE CheckGeneration
      BY <3>2 DEF CheckGeneration, rd, kernel, IInv, PlaceInv
    <3>3. CASE CheckEmpty \/ CheckLapped \/ ParseEvent \/ ReadFields \/ Resync
      BY <3>3 DEF CheckEmpty, CheckLapped, ParseEvent, ReadFields, Resync, Return, rd, kernel
    <3> QED
      BY <2>2, <3>1, <3>2, <3>3 DEF NextSteps
  <2>3. CASE AttachSteps
    <3>1. CASE OpenDone
      BY <3>1 DEF OpenDone, TakeRing, kernel, Stream!Next, Stream!Open
    <3>2. CASE ReattachDone
      BY <3>2 DEF ReattachDone, TakeRing, kernel
    <3>3. CASE Attach \/ MapRing \/ LoadStart
      BY <3>3 DEF Attach, MapRing, LoadStart, rd, kernel
    <3>4. CASE AttachFails \/ MapRingFails \/ OpenNoMemory
      BY <3>4 DEF AttachFails, MapRingFails, OpenNoMemory, AttachError, rd, kernel
    <3> QED
      BY <2>3, <3>1, <3>2, <3>3, <3>4 DEF AttachSteps
  <2>4. CASE KernelNext /\ UNCHANGED reader
    <3>1. CASE \E n \in Sizes : Reserve(n)
      BY <2>4, <3>1 DEF Reserve, reader, rd, Stream!Next, Stream!Stamp
    <3>2. CASE Drop
      BY <2>4, <3>2 DEF Drop, reader, rd, Stream!Next, Stream!Stamp
    <3> QED
      BY <2>4, <3>1, <3>2 DEF KernelNext, Overwrite, Publish, Resize, reader, rd
  <2>5. CASE UNCHANGED vars
    BY <2>5 DEF vars, kernel, reader, rd
  <2> QED
    BY <2>1, <2>2, <2>3, <2>4, <2>5 DEF Next
<1> QED
  BY <1>1, <1>2, Inductive, PTL DEF Spec, StreamSpec, Stream!Spec

=============================================================================
