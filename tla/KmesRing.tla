------------------------------ MODULE KmesRing ------------------------------
(***************************************************************************)
(* The producer side of the KMES per-CPU event ring, as the consumer in    *)
(* src/event/consume.rs relies on it.  The kernel is not part of the       *)
(* repository: this module is the environment of EventReader.              *)
(*                                                                         *)
(* A ring is a metadata page (write_pos, tail_pos, generation) and a data  *)
(* region of Capacity[r] units, addressed by position modulo the capacity. *)
(* Positions never wrap.  A resize retires the ring: the CPU gets a new,   *)
(* empty one, and the generation word in the old page changes, which is    *)
(* the only way a mapped consumer can notice.                              *)
(*                                                                         *)
(* What a unit holds is abstracted to what reading an event header there   *)
(* would give: the header of the event that starts at that position, zero  *)
(* bytes, or Torn, bytes of which nothing is known (payload, or a header   *)
(* being overwritten).                                                     *)
(***************************************************************************)
EXTENDS Integers, FiniteSets

CONSTANTS
  MaxRing,      \* bound: rings the CPU ever has (resizes + 1)
  Capacity,     \* units of data in each ring
  MaxSeq,       \* bound: sequence numbers the kernel stamps
  Sizes,        \* the event sizes, in units
  MaxCorrupt    \* bound: events published damaged

Rings == 1..MaxRing

ASSUME BoundsAssumption ==
  /\ MaxRing \in Nat \ {0}
  /\ MaxSeq \in Nat
  /\ MaxCorrupt \in Nat

ASSUME CapacityAssumption == Capacity \in [Rings -> Nat \ {0}]

\* kmes_emit refuses an event no ring could hold.
ASSUME SizesAssumption ==
  \A s \in Sizes : s \in Nat \ {0} /\ \A r \in Rings : s <= Capacity[r]

VARIABLES
  cur,          \* the ring the CPU writes to, and the one kmes_attach gives
  write_pos,    \* per ring: end of the last published event
  tail_pos,     \* per ring: start of the oldest surviving event
  generation,   \* per ring: the generation word of its page
  data,         \* per ring: the units of the data region
  log,          \* every event ever published
  corrupt,      \* the <<ring, position>> of the events published damaged
  seq,          \* last sequence number stamped on this CPU
  phase,        \* how far the event being written is, "quiet" if there is none
  pending       \* the size of that event

kernel == <<cur, write_pos, tail_pos, generation, data, log, corrupt, seq, phase, pending>>

Torn == -1
Zero == -2

Event == [ring : Rings, pos : Nat, size : Nat, seq : Nat]

Offset(r, p) == p % Capacity[r]

\* The kernel moves the tail only from one event to another, or to the end.
Boundary(r, p) ==
  p = write_pos[r] \/ \E e \in log : e.ring = r /\ e.pos = p

KernelTypeOK ==
  /\ cur \in Rings
  /\ write_pos \in [Rings -> Nat]
  /\ tail_pos \in [Rings -> Nat]
  /\ generation \in [Rings -> Nat]
  /\ DOMAIN data = Rings
  /\ \A r \in Rings : data[r] \in [0..(Capacity[r] - 1) -> Int]
  /\ log \subseteq Event
  /\ corrupt \subseteq Rings \X Nat
  /\ seq \in Nat
  /\ phase \in {"quiet", "reserved", "overwriting"}
  /\ pending \in Nat

KernelInit ==
  /\ cur = 1
  /\ write_pos = [r \in Rings |-> 0]
  /\ tail_pos = [r \in Rings |-> 0]
  /\ generation = [r \in Rings |-> r]
  /\ data = [r \in Rings |-> [o \in 0..(Capacity[r] - 1) |-> Zero]]
  /\ log = {}
  /\ corrupt = {}
  /\ seq = 0
  /\ phase = "quiet"
  /\ pending = 0

-----------------------------------------------------------------------------
(***************************************************************************)
(* Emitting takes three steps a consumer can run between: the tail moves   *)
(* past the events that will be overwritten, the bytes change, the new     *)
(* write position is published.                                            *)
(***************************************************************************)
Reserve(n) ==
  /\ phase = "quiet"
  /\ seq < MaxSeq
  /\ seq' = seq + 1
  /\ phase' = "reserved"
  /\ pending' = n
  /\ \E t \in tail_pos[cur]..write_pos[cur] :
       /\ Boundary(cur, t)
       /\ write_pos[cur] + n <= t + Capacity[cur]
       /\ tail_pos' = [tail_pos EXCEPT ![cur] = t]
  /\ UNCHANGED <<cur, write_pos, generation, data, log, corrupt>>

Overwrite ==
  /\ phase = "reserved"
  /\ phase' = "overwriting"
  /\ data' = [data EXCEPT ![cur] =
       [o \in 0..(Capacity[cur] - 1) |->
          IF \E k \in 0..(pending - 1) : o = Offset(cur, write_pos[cur] + k)
          THEN Torn ELSE data[cur][o]]]
  /\ UNCHANGED <<cur, write_pos, tail_pos, generation, log, corrupt, seq, pending>>

\* A failing kernel may publish an event whose header does not parse (what
\* the consumer's corruption guards are for).
Publish(damaged) ==
  /\ phase = "overwriting"
  /\ damaged => Cardinality(corrupt) < MaxCorrupt
  /\ phase' = "quiet"
  /\ pending' = 0
  /\ data' = [data EXCEPT ![cur] =
       [data[cur] EXCEPT ![Offset(cur, write_pos[cur])] =
          IF damaged THEN Zero ELSE write_pos[cur]]]
  /\ corrupt' = IF damaged THEN corrupt \cup {<<cur, write_pos[cur]>>} ELSE corrupt
  /\ log' = log \cup {[ring |-> cur, pos |-> write_pos[cur],
                       size |-> pending, seq |-> seq]}
  /\ write_pos' = [write_pos EXCEPT ![cur] = @ + pending]
  /\ UNCHANGED <<cur, tail_pos, generation, seq>>

\* A sequence number is spent on an event that never reaches the ring.
Drop ==
  /\ phase = "quiet"
  /\ seq < MaxSeq
  /\ seq' = seq + 1
  /\ UNCHANGED <<cur, write_pos, tail_pos, generation, data, log, corrupt, phase, pending>>

Resize ==
  /\ phase = "quiet"
  /\ cur < MaxRing
  /\ cur' = cur + 1
  /\ generation' = [generation EXCEPT ![cur] = cur + 1]
  /\ UNCHANGED <<write_pos, tail_pos, data, log, corrupt, seq, phase, pending>>

KernelNext ==
  \/ \E n \in Sizes : Reserve(n)
  \/ Overwrite
  \/ \E damaged \in BOOLEAN : Publish(damaged)
  \/ Drop
  \/ Resize

=============================================================================
