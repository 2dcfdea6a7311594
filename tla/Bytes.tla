------------------------------- MODULE Bytes -------------------------------
(***************************************************************************)
(* Byte buffers as the builders write them and the views read them back.   *)
(* A buffer is a sequence of cells, one per byte: a value of w bytes is    *)
(* its number in the first cell and Pad in the others, so that a read at a *)
(* wrong offset or width does not yield a value.                           *)
(***************************************************************************)
EXTENDS Integers, Sequences, FiniteSetsExt

CONSTANT U16Max    \* bound: u16::MAX, 65535 in the code

Pad == -1
Garbled == -2
NullArg == <<Garbled>>    \* a NULL pointer

Word(v, w) == <<v>> \o [i \in 1..(w - 1) |-> Pad]

\* The value of w bytes at offset off.
At(buf, off, w) ==
  IF off >= 0 /\ off + w <= Len(buf) /\ buf[off + 1] # Pad
       /\ SubSeq(buf, off + 1, off + w) = Word(buf[off + 1], w)
  THEN buf[off + 1] ELSE Garbled

Concat(parts) ==
  LET upto[i \in 0..Len(parts)] == IF i = 0 THEN <<>> ELSE upto[i - 1] \o parts[i]
  IN  upto[Len(parts)]

\* Where each of these parts starts when they are laid out from an offset on, and
\* where the last one ends.
Starts(parts, from) ==
  LET start[i \in 1..(Len(parts) + 1)] ==
        IF i = 1 THEN from ELSE start[i - 1] + Len(parts[i - 1])
  IN  start

Slice(buf, off, n) == SubSeq(buf, off + 1, off + n)

\* A set of numbers in order.
AsSeq(nums) ==
  [i \in 1..Cardinality(nums) |-> CHOOSE n \in nums : Cardinality({m \in nums : m < n}) = i - 1]

AsU16(n) == n % (U16Max + 1)
=============================================================================
