---------------------------- MODULE EventReader ----------------------------
(***************************************************************************)
(* The high-level event reader of src/event/consume.rs: open, next, the    *)
(* re-attach after a resize, close.  One thread runs the reader; every     *)
(* load of a word the kernel shares is a step of its own, so the kernel    *)
(* (KmesRing) can run between any two of them.  The target is x86-64: the  *)
(* loads of one thread are not reordered with each other.                  *)
(*                                                                         *)
(* The futex part of wait() is in EventWait.                               *)
(***************************************************************************)
EXTENDS KmesRing

VARIABLES
  pc,           \* where the reader's thread is
  caller,       \* which call a re-attach returns to
  ring, read_pos, last_seq, lost, gen,           \* struct peios_event_reader
  saved_tail, size, sequence, new_ring, start,   \* locals of next and attach_and_map
  fds,          \* rings the reader holds a descriptor of
  maps,         \* rings the reader has mapped
  out,          \* the event the last successful next() gave the caller
  result,       \* how the last call returned
  first, count  \* history: first sequence delivered, number delivered

rd == <<ring, read_pos, last_seq, lost, gen>>
locals == <<saved_tail, size, sequence, new_ring, start>>
reader == <<pc, caller, rd, locals, fds, maps, out, result, first, count>>
vars == <<kernel, reader>>

NoEvent == [ring |-> 0, pos |-> 0, size |-> 0, seq |-> 0]

InNext == {"generation", "write", "tail", "parse", "fields", "guard", "resync"}
InAttach == {"attach", "map", "start", "record"}
Steps == {"closed", "idle"} \cup InNext \cup InAttach

\* There is a reader: a re-attach leaves the old one in place until it succeeds.
IsOpen == pc \in {"idle"} \cup InNext \/ (pc \in InAttach /\ caller # "open")

ReaderTypeOK ==
  /\ pc \in Steps
  /\ caller \in {"open", "next", "wait"}
  /\ ring \in Rings
  /\ read_pos \in Nat /\ last_seq \in Nat /\ lost \in Nat /\ gen \in Nat
  /\ saved_tail \in Nat /\ size \in Nat /\ sequence \in Nat
  /\ new_ring \in Rings /\ start \in Nat
  /\ fds \subseteq Rings
  /\ maps \subseteq Rings
  /\ out \in [ring : Rings \cup {0}, pos : Nat, size : Nat, seq : Nat]
  /\ result \in {"none", "event", "empty", "ready", "corrupt", "failed"}
  /\ first \in Nat
  /\ count \in Nat

TypeOK == KernelTypeOK /\ ReaderTypeOK

Init ==
  /\ KernelInit
  /\ pc = "closed"
  /\ caller = "open"
  /\ ring = 1 /\ read_pos = 0 /\ last_seq = 0 /\ lost = 0 /\ gen = 0
  /\ saved_tail = 0 /\ size = 0 /\ sequence = 0 /\ new_ring = 1 /\ start = 0
  /\ fds = {}
  /\ maps = {}
  /\ out = NoEvent
  /\ result = "none"
  /\ first = 0
  /\ count = 0

-----------------------------------------------------------------------------
(* The calls of the application. *)

ReaderOpen ==
  /\ pc = "closed"
  /\ pc' = "attach"
  /\ caller' = "open"
  /\ result' = "none"
  /\ UNCHANGED <<kernel, rd, locals, fds, maps, out, first, count>>

ReaderNext ==
  /\ pc = "idle"
  /\ pc' = "generation"
  /\ caller' = "next"
  /\ result' = "none"
  /\ UNCHANGED <<kernel, rd, locals, fds, maps, out, first, count>>

\* wait() looks at the generation first; when it has not changed the call is
\* the futex protocol of EventWait, which leaves the reader as it is.
ReaderWait ==
  /\ pc = "idle"
  /\ generation[ring] # gen
  /\ pc' = "attach"
  /\ caller' = "wait"
  /\ result' = "none"
  /\ UNCHANGED <<kernel, rd, locals, fds, maps, out, first, count>>

ReaderClose ==
  /\ pc = "idle"
  /\ pc' = "closed"
  /\ fds' = fds \ {ring}
  /\ maps' = maps \ {ring}
  /\ caller' = "open"
  /\ ring' = 1 /\ read_pos' = 0 /\ last_seq' = 0 /\ lost' = 0 /\ gen' = 0
  /\ out' = NoEvent
  /\ result' = "none"
  /\ first' = 0
  /\ count' = 0
  /\ UNCHANGED <<kernel, locals>>

-----------------------------------------------------------------------------
(* peios_event_reader::next, one step per load. *)

\* The call is over: its locals are gone.
DropLocals ==
  /\ saved_tail' = 0 /\ size' = 0 /\ sequence' = 0 /\ new_ring' = 1 /\ start' = 0

Return(res) ==
  /\ pc' = "idle"
  /\ result' = res
  /\ DropLocals

\* Mutant: a changed generation is not acted on.
CheckGenerationIgnored ==
  /\ pc = "generation"
  /\ pc' = "write"
  /\ UNCHANGED <<kernel, caller, rd, locals, fds, maps, out, result, first, count>>

CheckGeneration ==
  /\ pc = "generation"
  /\ pc' = IF generation[ring] # gen THEN "attach" ELSE "write"
  /\ UNCHANGED <<kernel, caller, rd, locals, fds, maps, out, result, first, count>>

CheckEmpty ==
  /\ pc = "write"
  /\ IF write_pos[ring] = read_pos
     THEN Return("empty")
     ELSE pc' = "tail" /\ UNCHANGED <<locals, result>>
  /\ UNCHANGED <<kernel, caller, rd, fds, maps, out, first, count>>

\* Mutant: a lapped reader steps over one unit instead of going to the tail.
CheckLappedByOne ==
  /\ pc = "tail"
  /\ IF read_pos < tail_pos[ring]
     THEN read_pos' = read_pos + 1 /\ pc' = "generation" /\ UNCHANGED saved_tail
     ELSE saved_tail' = tail_pos[ring] /\ pc' = "parse" /\ UNCHANGED read_pos
  /\ UNCHANGED <<kernel, caller, ring, last_seq, lost, gen, size, sequence, new_ring, start,
                 fds, maps, out, result, first, count>>

\* Mutant: being lapped counts as a lost event by itself.
CheckLappedCounts ==
  /\ pc = "tail"
  /\ IF read_pos < tail_pos[ring]
     THEN read_pos' = tail_pos[ring] /\ lost' = lost + 1 /\ pc' = "generation" /\ UNCHANGED saved_tail
     ELSE saved_tail' = tail_pos[ring] /\ pc' = "parse" /\ UNCHANGED <<read_pos, lost>>
  /\ UNCHANGED <<kernel, caller, ring, last_seq, gen, size, sequence, new_ring, start,
                 fds, maps, out, result, first, count>>

\* Mutant: a lapped reader starts over without moving.
CheckLappedStays ==
  /\ pc = "tail"
  /\ IF read_pos < tail_pos[ring]
     THEN pc' = "generation" /\ UNCHANGED <<read_pos, saved_tail>>
     ELSE saved_tail' = tail_pos[ring] /\ pc' = "parse" /\ UNCHANGED read_pos
  /\ UNCHANGED <<kernel, caller, ring, last_seq, lost, gen, size, sequence, new_ring, start,
                 fds, maps, out, result, first, count>>

CheckLapped ==
  /\ pc = "tail"
  /\ IF read_pos < tail_pos[ring]
     THEN read_pos' = tail_pos[ring] /\ pc' = "generation" /\ UNCHANGED saved_tail
     ELSE saved_tail' = tail_pos[ring] /\ pc' = "parse" /\ UNCHANGED read_pos
  /\ UNCHANGED <<kernel, caller, ring, last_seq, lost, gen, size, sequence, new_ring, start,
                 fds, maps, out, result, first, count>>

(***************************************************************************)
(* event_at reads plain memory the kernel may be overwriting: the size and *)
(* type_len that parse_event checks first, the sequence and the rest after *)
(* them.  Bytes that are not the header of the event at read_pos can read  *)
(* as anything, a header that parses included.  Size 0 is a failed parse.  *)
(***************************************************************************)
Header == data[ring][Offset(ring, read_pos)]

EventHere(e) == e \in log /\ e.ring = ring /\ e.pos = read_pos

ParseEvent ==
  /\ pc = "parse"
  /\ size' \in 0..Capacity[ring]
  /\ \/ Header = Zero /\ size' = 0
     \/ Header = read_pos /\ \E e \in log : EventHere(e) /\ size' = e.size
     \/ Header \notin {Zero, read_pos}
  /\ pc' = IF size' = 0 THEN "resync" ELSE "fields"
  /\ UNCHANGED <<kernel, caller, rd, saved_tail, sequence, new_ring, start,
                 fds, maps, out, result, first, count>>

ReadFields ==
  /\ pc = "fields"
  /\ sequence' \in 0..MaxSeq
  /\ Header = read_pos => \E e \in log : EventHere(e) /\ sequence' = e.seq
  /\ pc' = "guard"
  /\ UNCHANGED <<kernel, caller, rd, saved_tail, size, new_ring, start,
                 fds, maps, out, result, first, count>>

\* Mutant: the gap is counted without taking off the event itself.
DeliverGapOffByOne ==
  /\ lost' = IF last_seq # 0 /\ sequence > last_seq + 1
             THEN lost + (sequence - last_seq) ELSE lost
  /\ last_seq' = sequence
  /\ read_pos' = read_pos + size
  /\ out' = [ring |-> ring, pos |-> read_pos, size |-> size, seq |-> sequence]
  /\ first' = IF count = 0 THEN sequence ELSE first
  /\ count' = count + 1
  /\ Return("event")

\* The sequence-gap accounting and the advance to the next event.
Deliver ==
  /\ lost' = IF last_seq # 0 /\ sequence > last_seq + 1
             THEN lost + (sequence - last_seq - 1) ELSE lost
  /\ last_seq' = sequence
  /\ read_pos' = read_pos + size
  /\ out' = [ring |-> ring, pos |-> read_pos, size |-> size, seq |-> sequence]
  /\ first' = IF count = 0 THEN sequence ELSE first
  /\ count' = count + 1
  /\ Return("event")

\* Mutant: no re-check of the tail after the read.
TornReadUnguarded ==
  /\ pc = "guard"
  /\ Deliver
  /\ UNCHANGED <<kernel, caller, ring, gen, fds, maps>>

TornReadGuard ==
  /\ pc = "guard"
  /\ IF tail_pos[ring] > saved_tail /\ read_pos < tail_pos[ring]
     THEN /\ pc' = "generation"
          /\ UNCHANGED <<read_pos, last_seq, lost, locals, out, result, first, count>>
     ELSE Deliver
  /\ UNCHANGED <<kernel, caller, ring, gen, fds, maps>>

\* Mutant: every failed parse is taken for corruption.
ResyncGivesUp ==
  /\ pc = "resync"
  /\ Return("corrupt")
  /\ UNCHANGED <<kernel, caller, rd, fds, maps, out, first, count>>

Resync ==
  /\ pc = "resync"
  /\ IF tail_pos[ring] <= read_pos
     THEN Return("corrupt") /\ UNCHANGED read_pos
     ELSE read_pos' = tail_pos[ring] /\ pc' = "generation" /\ UNCHANGED <<locals, result>>
  /\ UNCHANGED <<kernel, caller, ring, last_seq, lost, gen, fds, maps, out, first, count>>

-----------------------------------------------------------------------------
(* attach_and_map, for open and for reattach. *)

AttachError ==
  /\ pc' = IF caller = "open" THEN "closed" ELSE "idle"
  /\ result' = "failed"
  /\ DropLocals
  /\ UNCHANGED <<kernel, caller, rd, out, first, count>>

Attach ==
  /\ pc = "attach"
  /\ pc' = "map"
  /\ new_ring' = cur
  /\ fds' = fds \cup {cur}
  /\ UNCHANGED <<kernel, caller, rd, saved_tail, size, sequence, start,
                 maps, out, result, first, count>>

AttachFails ==
  /\ pc = "attach"
  /\ AttachError
  /\ UNCHANGED <<fds, maps>>

MapRing ==
  /\ pc = "map"
  /\ pc' = "start"
  /\ maps' = maps \cup {new_ring}
  /\ UNCHANGED <<kernel, caller, rd, locals, fds, out, result, first, count>>

\* Mutant: the descriptor is left open when the mapping fails.
MapRingFailsLeaks ==
  /\ pc = "map"
  /\ AttachError
  /\ UNCHANGED <<fds, maps>>

MapRingFails ==
  /\ pc = "map"
  /\ AttachError
  /\ fds' = fds \ {new_ring}
  /\ UNCHANGED maps

LoadStart ==
  /\ pc = "start"
  /\ pc' = "record"
  /\ start' = tail_pos[new_ring]
  /\ UNCHANGED <<kernel, caller, rd, saved_tail, size, sequence, new_ring,
                 fds, maps, out, result, first, count>>

\* Mutant: one before the oldest event, whatever the position.
TakeRingBefore ==
  /\ pc = "record"
  /\ ring' = new_ring
  /\ read_pos' = start - 1
  /\ gen' = generation[new_ring]
  /\ DropLocals
  /\ UNCHANGED <<kernel, caller, last_seq, lost, out, first, count>>

\* The generation is loaded from the new page; the rest is local to the
\* thread: a new reader, or the old one moved to the new ring.
TakeRing ==
  /\ pc = "record"
  /\ ring' = new_ring
  /\ read_pos' = start
  /\ gen' = generation[new_ring]
  /\ DropLocals
  /\ UNCHANGED <<kernel, caller, last_seq, lost, out, first, count>>

OpenDone ==
  /\ caller = "open"
  /\ TakeRing
  /\ pc' = "idle"
  /\ UNCHANGED <<fds, maps, result>>

OpenNoMemory ==
  /\ pc = "record" /\ caller = "open"
  /\ AttachError
  /\ fds' = fds \ {new_ring}
  /\ maps' = maps \ {new_ring}

ReattachDone ==
  /\ caller # "open"
  /\ TakeRing
  /\ fds' = fds \ {ring}
  /\ maps' = maps \ {ring}
  /\ IF caller = "next"
     THEN pc' = "generation" /\ UNCHANGED result
     ELSE pc' = "idle" /\ result' = "ready"

-----------------------------------------------------------------------------
NextSteps ==
  \/ CheckGeneration \/ CheckEmpty \/ CheckLapped
  \/ ParseEvent \/ ReadFields \/ TornReadGuard \/ Resync

AttachSteps ==
  \/ Attach \/ AttachFails \/ MapRing \/ MapRingFails
  \/ LoadStart \/ OpenDone \/ OpenNoMemory \/ ReattachDone

Calls == ReaderOpen \/ ReaderNext \/ ReaderWait \/ ReaderClose

Next ==
  \/ Calls
  \/ NextSteps
  \/ AttachSteps
  \/ KernelNext /\ UNCHANGED reader

Spec == Init /\ [][Next]_vars

(***************************************************************************)
(* Fairness: the reader's thread keeps running, the application keeps      *)
(* calling next() ("just loop next()/wait()"), and attaching and mapping   *)
(* do not fail for ever.  Nothing is assumed of the kernel.                *)
(***************************************************************************)
Fairness ==
  /\ WF_vars(NextSteps)
  /\ WF_vars(AttachSteps)
  /\ WF_vars(ReaderNext)
  /\ SF_vars(Attach)
  /\ SF_vars(MapRing)

FairSpec == Spec /\ Fairness

-----------------------------------------------------------------------------
\* next() never gives the caller a torn event: what it returned was published,
\* whole, at the position it was read from, however the kernel's overwriting
\* ran between the loads of event_at and the guard after it.
NeverTorn == out # NoEvent => out \in log

\* The read position is always the start of an event or the end of the
\* published data, after lapping, resynchronising and re-attaching too: next()
\* never parses from the middle of an event.
ReadPosAtEvent == IsOpen => Boundary(ring, read_pos)

\* reader_lost accounts for every sequence number between the first event
\* delivered and the last: each was delivered or counted lost, across lapping,
\* kernel drops and resizes.
LostExact == count > 0 => lost + count = last_seq - first + 1

\* Descriptors and mappings are neither leaked nor dropped by any path of
\* open, reattach and close: a closed reader holds none, a reader at rest
\* exactly those of its ring, also after a re-attach that failed halfway.
HandlesBalanced ==
  /\ pc = "closed" => fds = {} /\ maps = {}
  /\ pc = "idle" => fds = {ring} /\ maps = {ring}

\* When the parse fails, next() gives up (EINVAL) only on an event that really
\* was published damaged, never because the kernel overwrote the slot while it was parsed.
CorruptIsReal ==
  [][pc = "resync" /\ pc' = "idle" => <<ring, read_pos>> \in corrupt]_vars

\* The reader is an event stream: in order, no duplicates, exact loss count.
Stream == INSTANCE EventStream WITH
  stamped <- seq, isOpen <- IsOpen, last <- last_seq, skipped <- lost
StreamSpec == Stream!Spec

\* Every call of next() returns once the kernel stops writing: the retry loop
\* does not spin on a lapped, torn or damaged slot.
NextReturns == pc = "generation" ~> pc = "idle"

\* A reader with unread events gets to the end of them, unless one was published
\* damaged, at which next() reports EINVAL.
Drains ==
  pc = "idle" /\ read_pos < write_pos[ring]
    ~> (pc = "closed" \/ read_pos = write_pos[ring] \/ corrupt # {})

\* A generation word that differs from the one recorded is acted on: the reader
\* ends up on a ring whose generation it knows.
StaleReaderMoves ==
  IsOpen /\ gen # generation[ring] ~> (pc = "closed" \/ gen = generation[ring])

\* A reader whose ring was retired by a resize moves to the new one (consume.rs
\* says of next() that "buffer resizes are handled internally").
ResizeHandled == IsOpen /\ ring # cur ~> (pc = "closed" \/ ring = cur)

=============================================================================
