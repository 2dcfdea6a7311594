-------------------------- MODULE EventWaitProofs --------------------------
(***************************************************************************)
(* Proofs about EventWait, for every timeout, store-buffer size and        *)
(* counter width.                                                          *)
(***************************************************************************)
EXTENDS EventWait, SequenceTheorems, TLAPS

\* need_wake as the consumer's own thread would read it: the youngest store
\* in its buffer, or memory.
Flag == IF buffer = <<>> THEN need_wake ELSE buffer[Len(buffer)]

\* The flag is set exactly between arming and disarming, and a sleeper's
\* stores have drained.
FlagInv ==
  /\ pc \in {"drain", "arm"} => ~Flag
  /\ pc \in InWait \ {"arm"} => Flag
  /\ pc = "asleep" => buffer = <<>>

IInv == TypeOK /\ FlagInv

-----------------------------------------------------------------------------
LEMMA EmptyIsShort ==
  ASSUME NEW b \in Seq(BOOLEAN)
  PROVE  b = <<>> <=> Len(b) = 0
<1>1. Len(<<>>) = 0
  BY EmptySeq
<1>2. b # <<>> => Len(b) \in Nat \ {0}
  BY EmptySeq
<1>3. CASE b = <<>>
  BY <1>1, <1>3, Zenon
<1>4. CASE b # <<>>
  <2>1. Len(b) # 0
    BY <1>2, <1>4, Zenon
  <2> QED
    BY <2>1, <1>4, Zenon
<1> QED
  BY <1>3, <1>4

LEMMA StoreSets ==
  ASSUME TypeOK, NEW on \in BOOLEAN, Store(on)
  PROVE  buffer' \in Seq(BOOLEAN) /\ buffer' # <<>> /\ Flag' = on
<1>1. buffer \in Seq(BOOLEAN) /\ buffer' = Append(buffer, on)
  BY DEF TypeOK, Store
<1>2. Len(buffer') = Len(buffer) + 1 /\ buffer'[Len(buffer')] = on /\ buffer' # <<>>
  BY <1>1, AppendProperties
<1> QED
  BY <1>1, <1>2, AppendProperties DEF Flag

LEMMA DrainKeeps ==
  ASSUME TypeOK, DrainBuffer
  PROVE  buffer' \in Seq(BOOLEAN) /\ need_wake' \in BOOLEAN /\ Flag' = Flag
<1>1. buffer \in Seq(BOOLEAN) /\ buffer # <<>> /\ need_wake' = Head(buffer) /\ buffer' = Tail(buffer)
  BY DEF TypeOK, DrainBuffer
<1>2. /\ Head(buffer) = buffer[1] /\ Len(buffer) \in Nat \ {0} /\ buffer[1] \in BOOLEAN
      /\ Tail(buffer) \in Seq(BOOLEAN) /\ Len(Tail(buffer)) = Len(buffer) - 1
      /\ \A i \in 1..(Len(buffer) - 1) : Tail(buffer)[i] = buffer[i + 1]
  BY <1>1, HeadTailProperties, EmptySeq
<1>3. CASE Len(buffer) = 1
  <2>0. Len(Tail(buffer)) = 0 /\ Tail(buffer) \in Seq(BOOLEAN)
    BY <1>2, <1>3
  <2>1. Tail(buffer) = <<>>
    BY <2>0, EmptyIsShort, Zenon
  <2> QED
    BY <1>1, <1>2, <1>3, <2>1 DEF Flag
<1>4. CASE Len(buffer) # 1
  <2>1. Len(buffer) - 1 \in 1..(Len(buffer) - 1) /\ (Len(buffer) - 1) + 1 = Len(buffer)
    BY <1>2, <1>4
  <2>2. Tail(buffer)[Len(buffer) - 1] = buffer[Len(buffer)]
    BY <1>2, <2>1
  <2>3. Tail(buffer) # <<>>
    <3>1. Len(Tail(buffer)) # 0 /\ Tail(buffer) \in Seq(BOOLEAN)
      BY <1>2, <1>4
    <3> QED
      BY <3>1, EmptyIsShort, Zenon
  <2> QED
    BY <1>1, <1>2, <2>2, <2>3 DEF Flag
<1> QED
  BY <1>3, <1>4

LEMMA TypeStep ==
  ASSUME TypeOK, [Next]_vars
  PROVE  TypeOK'
<1> USE DEF TypeOK, InWait, consumer
<1>1. CASE Publish
  BY <1>1 DEF Publish
<1>2. CASE Bump
  <2>1. (counter + 1) % CounterMod \in 0..(CounterMod - 1)
    BY WaitAssumption
  <2> QED
    BY <1>2, <2>1 DEF Bump
<1>3. CASE Wake
  BY <1>3 DEF Wake
<1>4. CASE DrainBuffer
  BY <1>4, DrainKeeps DEF DrainBuffer
<1>5. CASE NextEvent \/ NextEmpty
  BY <1>5 DEF NextEvent, NextEmpty
<1>6. CASE Arm
  BY <1>6, StoreSets DEF Arm
<1>7. CASE Recheck
  BY <1>7, StoreSets DEF Recheck
<1>8. CASE Observe \/ FutexWait \/ FutexError
  BY <1>8 DEF Observe, FutexWait, FutexError
<1>9. CASE TimedOut \/ Interrupted
  BY <1>9 DEF TimedOut, Interrupted
<1>10. CASE Disarm
  BY <1>10, StoreSets DEF Disarm
<1>11. CASE UNCHANGED vars
  BY <1>11 DEF vars
<1> QED
  BY <1>1, <1>2, <1>3, <1>4, <1>5, <1>6, <1>7, <1>8, <1>9, <1>10, <1>11
     DEF Next, Producer, Thread

LEMMA FlagStep ==
  ASSUME IInv, [Next]_vars
  PROVE  FlagInv'
<1> USE DEF InWait, consumer
<1>1. CASE Publish \/ Bump
  BY <1>1 DEF Publish, Bump, IInv, FlagInv, Flag
<1>2. CASE Wake
  BY <1>2 DEF Wake, IInv, FlagInv, Flag
<1>3. CASE DrainBuffer
  BY <1>3, DrainKeeps DEF DrainBuffer, IInv, FlagInv
<1>4. CASE NextEvent \/ NextEmpty
  BY <1>4 DEF NextEvent, NextEmpty, IInv, FlagInv, Flag
<1>5. CASE Arm
  BY <1>5, StoreSets DEF Arm, IInv, FlagInv
<1>6. CASE Recheck
  <2>1. CASE write_pos # read_pos
    BY <1>6, <2>1, StoreSets DEF Recheck, IInv, FlagInv
  <2>2. CASE write_pos = read_pos
    BY <1>6, <2>2 DEF Recheck, IInv, FlagInv, Flag
  <2> QED
    BY <2>1, <2>2
<1>7. CASE Observe
  BY <1>7 DEF Observe, IInv, FlagInv, Flag
<1>8. CASE FutexWait \/ FutexError
  BY <1>8 DEF FutexWait, FutexError, IInv, FlagInv, Flag
<1>9. CASE TimedOut \/ Interrupted
  BY <1>9 DEF TimedOut, Interrupted, IInv, FlagInv, Flag
<1>10. CASE Disarm
  BY <1>10, StoreSets DEF Disarm, IInv, FlagInv
<1>11. CASE UNCHANGED vars
  BY <1>11 DEF vars, IInv, FlagInv, Flag
<1> QED
  BY <1>1, <1>2, <1>3, <1>4, <1>5, <1>6, <1>7, <1>8, <1>9, <1>10, <1>11
     DEF Next, Producer, Thread

LEMMA Inductive == Spec => []IInv
<1>1. Init => IInv
  <2> SUFFICES ASSUME Init PROVE IInv
    OBVIOUS
  <2>1. 0 \in 0..(CounterMod - 1)
    BY WaitAssumption
  <2>2. <<>> \in Seq(BOOLEAN)
    OBVIOUS
  <2>3. TypeOK
    BY <2>1, <2>2 DEF Init, TypeOK
  <2> QED
    BY <2>3 DEF Init, IInv, FlagInv, Flag, InWait
<1>2. IInv /\ [Next]_vars => IInv'
  BY TypeStep, FlagStep DEF IInv
<1> QED
  BY <1>1, <1>2, PTL DEF Spec

\* The words of the wait keep their types; the futex word stays in its width.
THEOREM TypeCorrect == Spec => []TypeOK
<1>1. IInv => TypeOK
  BY DEF IInv
<1> QED
  BY <1>1, Inductive, PTL

\* Whatever the store buffer delays, a consumer asleep in FUTEX_WAIT has
\* need_wake set where the producer looks.
THEOREM SleeperIsArmed == Spec => []AsleepArmed
<1>1. IInv => AsleepArmed
  BY DEF IInv, FlagInv, Flag, AsleepArmed, InWait
<1> QED
  BY <1>1, Inductive, PTL

\* Every way out of wait() leaves need_wake clear once its stores drained.
THEOREM DrainerIsDisarmed == Spec => []AwakeDisarmed
<1>1. IInv => AwakeDisarmed
  BY DEF IInv, FlagInv, Flag, AwakeDisarmed
<1> QED
  BY <1>1, Inductive, PTL

=============================================================================
