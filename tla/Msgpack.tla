------------------------------ MODULE Msgpack ------------------------------
(***************************************************************************)
(* The structure of MessagePack buffers (src/msgpack.rs): validate and     *)
(* skip, the writer with its sticky error, and a caller of the reader that *)
(* takes a payload apart value by value.                                   *)
(*                                                                         *)
(* A buffer is a sequence of values without their children, as value_step  *)
(* consumes them: a leaf (nil, bool, int, float, str, bin, ext), an array  *)
(* or map header with its count, or bytes value_step refuses (a reserved   *)
(* lead byte, a string that is not UTF-8, a leaf cut short) and that what  *)
(* follows does not repair.  MsgpackForms is how a value is laid out.       *)
(***************************************************************************)
EXTENDS Integers, Sequences

CONSTANTS
  MAX_DEPTH,    \* the nesting ceiling, 256 in the code
  MaxCount,     \* bound: entries of a container
  MaxLen        \* bound: values in a buffer

ASSUME MsgpackAssumption ==
  /\ MAX_DEPTH \in Nat \ {0}
  /\ MaxCount \in Nat
  /\ MaxLen \in Nat

Leaf == <<"leaf", 0>>
Bad == <<"bad", 0>>
Values == {Leaf} \cup ({"array", "map"} \X (0..MaxCount))
Tokens == Values \cup {Bad}
\* The same with any count, or with what a leaf holds beside it.
AnyToken ==
  {Leaf, Bad} \cup ({"array", "map"} \X Nat)
  \cup ({"int", "bool", "str", "bin"} \X {0} \X Seq(STRING))
Places == Nat \ {0}

-----------------------------------------------------------------------------
(* validate and skip. *)

\* How many values follow the one at p as its children; -1 when there is no
\* well-formed value at p.
value_step(b, p) ==
  IF p > Len(b) \/ b[p] = Bad THEN -1
  ELSE IF b[p][1] = "map" THEN 2 * b[p][2] ELSE b[p][2]

\* The containers that still expect values; those that do not are left.
Unfinished(s) ==
  LET open == {i \in 1..Len(s) : s[i] > 0}
  IN  SubSeq(s, 1, IF open = {} THEN 0 ELSE CHOOSE i \in open : \A j \in open : j <= i)

\* Mutant: the limit is off by one.
ValidateDeeper(b, max_depth) ==
  LET loop[p \in Places] == [s \in Seq(Nat) |->
        LET stack == Unfinished(s)
            depth == Len(stack)
            children == value_step(b, p)
            left == [stack EXCEPT ![depth] = @ - 1]
        IN  IF depth = 0 THEN p = Len(b) + 1
            ELSE /\ children # -1
                 /\ children = 0 \/ depth <= max_depth
                 /\ loop[p + 1][IF children = 0 THEN left ELSE Append(left, children)]]
  IN  b # <<>> /\ max_depth # 0 /\ max_depth <= MAX_DEPTH /\ loop[1][<<1>>]

\* Exactly one value, that takes every byte.
validate(b, max_depth) ==
  LET loop[p \in Places] == [s \in Seq(Nat) |->
        LET stack == Unfinished(s)
            depth == Len(stack)
            children == value_step(b, p)
            left == [stack EXCEPT ![depth] = @ - 1]
        IN  IF depth = 0 THEN p = Len(b) + 1
            ELSE /\ children # -1
                 /\ children = 0 \/ depth < max_depth
                 /\ loop[p + 1][IF children = 0 THEN left ELSE Append(left, children)]]
  IN  b # <<>> /\ max_depth # 0 /\ max_depth <= MAX_DEPTH /\ loop[1][<<1>>]

\* Mutant: the place is not restored when the value is malformed.
SkipLosesPlace(b, p) ==
  LET loop[q \in Places] == [remaining \in Nat |->
        IF remaining = 0 \/ value_step(b, q) = -1 THEN q
        ELSE loop[q + 1][remaining - 1 + value_step(b, q)]]
  IN  loop[p][1]

\* Where the value at p ends; p again if it is malformed.
skip(b, p) ==
  LET loop[q \in Places] == [remaining \in Nat |->
        IF remaining = 0 THEN q
        ELSE IF value_step(b, q) = -1 THEN p
        ELSE loop[q + 1][remaining - 1 + value_step(b, q)]]
  IN  loop[p][1]

-----------------------------------------------------------------------------
(* The writer, and a caller taking its payload apart. *)

VARIABLES
  buf, error,        \* struct peios_mp_writer
  asked,             \* history: what the caller wrote since the last reset
  payload,           \* what peios_mp_writer_bytes last gave out
  pos, todo          \* the reader's cursor, and the values its caller still expects

writer == <<buf, error, asked>>
reader == <<payload, pos, todo>>
vars == <<writer, reader>>

Init ==
  /\ buf = <<>> /\ error = "none" /\ asked = <<>>
  /\ payload = <<>> /\ pos = 1 /\ todo = 0

\* What peios_mp_writer_bytes gave is borrowed until the next call that writes.
EndBorrow == payload' = <<>> /\ pos' = 1 /\ todo' = 0

Asks(t) ==
  /\ Len(asked) < MaxLen
  /\ asked' = Append(asked, t)
  /\ EndBorrow

\* One write_* call, write_raw included: nothing happens once an error is latched.
Write(t) ==
  /\ Asks(t)
  /\ buf' = IF error = "none" THEN Append(buf, t) ELSE buf
  /\ UNCHANGED error

\* A string that is not UTF-8, a NULL pointer with a length, a length past 32
\* bits: the call writes nothing and latches EINVAL.
WriteInvalid ==
  /\ Asks(Leaf)
  /\ error = "none"
  /\ error' = "EINVAL"
  /\ UNCHANGED buf

\* Memory runs out before the first byte, or between the bytes of a value.
WriteNoMemory(t) ==
  /\ Asks(t)
  /\ error = "none"
  /\ error' = "ENOMEM"
  /\ buf' \in {buf, Append(buf, Bad)}

Reset ==
  /\ buf' = <<>> /\ error' = "none" /\ asked' = <<>>
  /\ EndBorrow

\* Mutant: only the structure is looked at.
BytesIgnoresError ==
  IF validate(buf, MAX_DEPTH)
  THEN payload' = buf /\ pos' = 1 /\ todo' = 1 /\ UNCHANGED writer
  ELSE error' = "EINVAL" /\ UNCHANGED <<buf, asked, reader>>

\* peios_mp_writer_bytes: malformed structure is latched like any other error.
Bytes ==
  IF error = "none" /\ validate(buf, MAX_DEPTH)
  THEN payload' = buf /\ pos' = 1 /\ todo' = 1 /\ UNCHANGED writer
  ELSE /\ error' = IF error = "none" THEN "EINVAL" ELSE error
       /\ UNCHANGED <<buf, asked, reader>>

\* Mutant: a map counts as one value per pair.
ReadMapPairs ==
  /\ todo > 0
  /\ value_step(payload, pos) >= 0
  /\ pos' = pos + 1
  /\ todo' = todo - 1 + payload[pos][2]
  /\ UNCHANGED <<writer, payload>>

\* read_nil ... read_ext, read_array, read_map: the cursor moves over one
\* header and the caller expects the children.
ReadValue ==
  /\ todo > 0
  /\ value_step(payload, pos) >= 0
  /\ pos' = pos + 1
  /\ todo' = todo - 1 + value_step(payload, pos)
  /\ UNCHANGED <<writer, payload>>

\* peios_mp_skip: one complete value.
SkipValue ==
  /\ todo > 0
  /\ skip(payload, pos) # pos
  /\ pos' = skip(payload, pos)
  /\ todo' = todo - 1
  /\ UNCHANGED <<writer, payload>>

Next ==
  \/ \E t \in Tokens : Write(t)
  \/ WriteInvalid
  \/ \E t \in Values : WriteNoMemory(t)
  \/ Reset \/ Bytes
  \/ ReadValue \/ SkipValue

Spec == Init /\ [][Next]_vars

-----------------------------------------------------------------------------
(***************************************************************************)
(* What a value is, by its grammar: where n values that start at p end (0  *)
(* if they do not), nested no deeper than d.                               *)
(***************************************************************************)
Ends(b) ==
  LET end[p \in Places] == [n \in Nat |-> [d \in Int |->
        IF n = 0 THEN p
        ELSE IF p > Len(b) \/ b[p] = Bad \/ d = 0 THEN 0
        ELSE LET n2 == IF b[p][1] = "map" THEN 2 * b[p][2] ELSE b[p][2]
                 q == end[p + 1][n2][d - 1]
             IN  IF q = 0 THEN 0 ELSE end[q][n - 1][d]]]
  IN  end

OneValue(b, d) == Ends(b)[1][1][d] = Len(b) + 1

\* validate accepts exactly the buffers that hold one value, nested no deeper
\* than asked for, at every limit from 0 to one past the ceiling: its stack of
\* counts agrees with the grammar also for empty containers at the limit.
ValidateExact ==
  \A d \in 0..(MAX_DEPTH + 1) :
    validate(buf, d) <=> d \in 1..MAX_DEPTH /\ OneValue(buf, d)

\* skip stops where the value ends, at any depth and from any place, and goes
\* nowhere on malformed input: its one counter does for a stack.
SkipExact ==
  \A p \in 1..Len(buf) :
    skip(buf, p) = IF Ends(buf)[p][1][-1] = 0 THEN p ELSE Ends(buf)[p][1][-1]

\* What peios_mp_writer_bytes gives out is everything the caller wrote since
\* the reset: no call that failed is missing from the middle of it.
NothingDropped == payload # <<>> => payload = asked

\* A caller that follows the counts the reader returns, skipping what it likes,
\* never runs out of a payload and uses all of it.
DrainExact ==
  /\ todo > 0 => value_step(payload, pos) >= 0 /\ skip(payload, pos) # pos
  /\ todo = 0 => pos = Len(payload) + 1

=============================================================================
