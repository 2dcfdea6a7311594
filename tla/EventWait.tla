----------------------------- MODULE EventWait -----------------------------
(***************************************************************************)
(* The notification wait of src/event/consume.rs (Ring::wait, futex_wait)  *)
(* between a consumer that loops next()/wait() and the kernel's producer.  *)
(*                                                                         *)
(* Positions count events here; what the events are is EventReader's       *)
(* subject.  On x86-64 a load may overtake an earlier store of the same    *)
(* thread to another word: the consumer's stores to need_wake go through a *)
(* buffer that reaches memory later.  A system call empties it.            *)
(*                                                                         *)
(* The producer is external.  It is taken in the form most helpful to the  *)
(* consumer: it bumps the futex counter for every event, after publishing, *)
(* and then wakes the sleeper if need_wake is set.                         *)
(***************************************************************************)
EXTENDS Integers, Sequences

CONSTANTS
  Timeout,       \* timeout_ms; negative is for ever
  MaxWrite,      \* bound: events published
  CounterMod,    \* the futex word counts modulo this (2^32 in the code)
  BufferSize     \* stores the consumer's CPU holds back at most

ASSUME WaitAssumption ==
  /\ Timeout \in Int
  /\ MaxWrite \in Nat
  /\ CounterMod \in Nat \ {0}
  /\ BufferSize \in Nat \ {0}

VARIABLES
  write_pos, counter, need_wake,   \* the shared pages
  producer,                        \* where the producer is in an emit
  pc, read_pos, observed, result,  \* the consumer's thread
  buffer                           \* its stores to need_wake not yet in memory

consumer == <<pc, read_pos, observed, result>>
vars == <<write_pos, counter, need_wake, producer, consumer, buffer>>

InWait == {"arm", "recheck", "observe", "futex", "asleep", "disarm"}

TypeOK ==
  /\ write_pos \in Nat
  /\ counter \in 0..(CounterMod - 1)
  /\ need_wake \in BOOLEAN
  /\ producer \in {"quiet", "bump", "wake"}
  /\ pc \in {"drain"} \cup InWait
  /\ read_pos \in Nat
  /\ observed \in 0..(CounterMod - 1)
  /\ result \in {"none", "Ready", "Idle", "Error"}
  /\ buffer \in Seq(BOOLEAN)

Init ==
  /\ write_pos = 0 /\ counter = 0 /\ need_wake = FALSE
  /\ producer = "quiet"
  /\ pc = "drain" /\ read_pos = 0 /\ observed = 0 /\ result = "none"
  /\ buffer = <<>>

-----------------------------------------------------------------------------
(* The producer. *)

Publish ==
  /\ producer = "quiet"
  /\ write_pos < MaxWrite
  /\ write_pos' = write_pos + 1
  /\ producer' = "bump"
  /\ UNCHANGED <<counter, need_wake, consumer, buffer>>

Bump ==
  /\ producer = "bump"
  /\ counter' = (counter + 1) % CounterMod
  /\ producer' = "wake"
  /\ UNCHANGED <<write_pos, need_wake, consumer, buffer>>

Wake ==
  /\ producer = "wake"
  /\ producer' = "quiet"
  /\ IF need_wake /\ pc = "asleep"
     THEN pc' = "disarm" /\ result' = "Ready"
     ELSE UNCHANGED <<pc, result>>
  /\ UNCHANGED <<write_pos, counter, need_wake, read_pos, observed, buffer>>

-----------------------------------------------------------------------------
(* The consumer: next() until it answers 0, then wait(). *)

\* set_need_wake: the store is issued, memory changes when the buffer drains.
Store(on) ==
  /\ Len(buffer) < BufferSize
  /\ buffer' = Append(buffer, on)

DrainBuffer ==
  /\ buffer # <<>>
  /\ need_wake' = Head(buffer)
  /\ buffer' = Tail(buffer)
  /\ UNCHANGED <<write_pos, counter, producer, consumer>>

NextEvent ==
  /\ pc = "drain"
  /\ read_pos < write_pos
  /\ read_pos' = read_pos + 1
  /\ UNCHANGED <<write_pos, counter, need_wake, producer, pc, observed, result, buffer>>

NextEmpty ==
  /\ pc = "drain"
  /\ read_pos = write_pos
  /\ pc' = "arm"
  /\ result' = "none"
  /\ UNCHANGED <<write_pos, counter, need_wake, producer, read_pos, observed, buffer>>

Arm ==
  /\ pc = "arm"
  /\ pc' = "recheck"
  /\ Store(TRUE)
  /\ UNCHANGED <<write_pos, counter, need_wake, producer, read_pos, observed, result>>

\* Mutant: events that appeared in time leave the flag set.
RecheckStaysArmed ==
  /\ pc = "recheck"
  /\ IF write_pos # read_pos
     THEN pc' = "drain" /\ result' = "Ready"
     ELSE pc' = "observe" /\ UNCHANGED result
  /\ UNCHANGED <<write_pos, counter, need_wake, producer, read_pos, observed, buffer>>

\* Mutant: the flag is cleared whatever the re-check finds.
RecheckDisarms ==
  /\ pc = "recheck"
  /\ Store(FALSE)
  /\ IF write_pos # read_pos
     THEN pc' = "drain" /\ result' = "Ready"
     ELSE pc' = "observe" /\ UNCHANGED result
  /\ UNCHANGED <<write_pos, counter, need_wake, producer, read_pos, observed>>

Recheck ==
  /\ pc = "recheck"
  /\ IF write_pos # read_pos
     THEN pc' = "drain" /\ result' = "Ready" /\ Store(FALSE)
     ELSE pc' = "observe" /\ UNCHANGED <<result, buffer>>
  /\ UNCHANGED <<write_pos, counter, need_wake, producer, read_pos, observed>>

Observe ==
  /\ pc = "observe"
  /\ observed' = counter
  /\ pc' = "futex"
  /\ UNCHANGED <<write_pos, counter, need_wake, producer, read_pos, result, buffer>>

\* FUTEX_WAIT: compares and goes to sleep in one step (the kernel's futex).
FutexWait ==
  /\ pc = "futex"
  /\ buffer = <<>>
  /\ IF counter = observed
     THEN pc' = "asleep" /\ UNCHANGED result
     ELSE pc' = "disarm" /\ result' = "Ready"
  /\ UNCHANGED <<write_pos, counter, need_wake, producer, read_pos, observed, buffer>>

FutexError ==
  /\ pc = "futex"
  /\ buffer = <<>>
  /\ pc' = "disarm"
  /\ result' = "Error"
  /\ UNCHANGED <<write_pos, counter, need_wake, producer, read_pos, observed, buffer>>

\* Mutant: the sign of the timeout is read the wrong way round.
TimedOutIfNegative ==
  /\ pc = "asleep"
  /\ Timeout < 0
  /\ pc' = "disarm"
  /\ result' = "Idle"
  /\ UNCHANGED <<write_pos, counter, need_wake, producer, read_pos, observed, buffer>>

TimedOut ==
  /\ pc = "asleep"
  /\ Timeout >= 0
  /\ pc' = "disarm"
  /\ result' = "Idle"
  /\ UNCHANGED <<write_pos, counter, need_wake, producer, read_pos, observed, buffer>>

Interrupted ==
  /\ pc = "asleep"
  /\ pc' = "disarm"
  /\ result' = "Idle"
  /\ UNCHANGED <<write_pos, counter, need_wake, producer, read_pos, observed, buffer>>

Disarm ==
  /\ pc = "disarm"
  /\ pc' = "drain"
  /\ Store(FALSE)
  /\ UNCHANGED <<write_pos, counter, need_wake, producer, read_pos, observed, result>>

-----------------------------------------------------------------------------
Producer == Publish \/ Bump \/ Wake

Thread ==
  \/ NextEvent \/ NextEmpty
  \/ Arm \/ Recheck \/ Observe \/ FutexWait \/ FutexError \/ Disarm

Next == Producer \/ DrainBuffer \/ Thread \/ TimedOut \/ Interrupted

Spec == Init /\ [][Next]_vars

(***************************************************************************)
(* An emit once begun goes on, store buffers drain, the consumer's thread  *)
(* runs while it is awake, and a timer that is set fires.  Signals are not *)
(* relied on, and the producer may publish no more.                        *)
(***************************************************************************)
Fairness ==
  /\ WF_vars(Bump \/ Wake)
  /\ WF_vars(DrainBuffer)
  /\ WF_vars(Thread)
  /\ WF_vars(TimedOut)

FairSpec == Spec /\ Fairness

-----------------------------------------------------------------------------
\* While the consumer sleeps the kernel can see that it must be woken: the
\* flag is set in memory, not only issued, on every way into FUTEX_WAIT.
AsleepArmed == pc = "asleep" => need_wake

\* No way out of wait() leaves need_wake set: once the stores of a consumer
\* that is not waiting have drained, the producer makes no wake-up call for it.
AwakeDisarmed == pc = "drain" /\ buffer = <<>> => ~need_wake

\* With a timeout every wait returns, whatever the producer does.
WaitReturns == pc = "arm" ~> pc = "drain"

\* With a timeout every published event is read by the loop, although a
\* wake-up may be missed.
AllRead == \A n \in 1..MaxWrite : write_pos >= n ~> read_pos >= n

\* A sleeping consumer with unread events is woken: what the comment on wait()
\* says the re-check of write_pos is for.
RaceClosed == pc = "asleep" /\ read_pos < write_pos ~> pc # "asleep"

=============================================================================
