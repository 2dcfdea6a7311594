----------------------------- MODULE MCMsgpack -----------------------------
(***************************************************************************)
(* The structure of buffers (Msgpack) and the bytes of one value           *)
(* (MsgpackForms): instances that meet every width of a length.            *)
(***************************************************************************)
EXTENDS Msgpack, MsgpackForms

NoForm == [kind |-> "structure", v |-> <<>>, n |-> 0, bytes |-> <<>>, more |-> 0, utf8 |-> TRUE]

MCIntBytes == {0, 1, 127, 128, 223, 224, 255}
MCInts64 ==
  {v \in {Fill(f, 8 - k) \o t : f \in {0, 255}, k \in 1..3, t \in UNION {[1..n -> MCIntBytes] : n \in 1..3}} :
     Len(v) = 8}
  \cup {Fill(f, n) \o <<a>> \o Fill(z, 7 - n) : f \in {0, 255}, a \in MCIntBytes, z \in {0, 255}, n \in 0..7}
MCLengths == {0, 1, 2, 3, 4, 8, 15, 16, 17, 31, 32, 255, 256, 65535, 65536}
MCTails ==
  {<<>>, <<0>>, <<1>>, <<255>>, <<0, 0>>, <<0, 1>>, <<1, 0>>, <<128, 2>>, <<0, 0, 0>>,
   <<0, 0, 0, 1>>, <<0, 1, 0, 0>>, <<0, 0, 0, 2, 7>>, <<255, 0, 0, 0, 0, 0, 0>>,
   <<128, 0, 0, 0, 0, 0, 0, 0>>, <<127, 255, 255, 255, 255, 255, 255, 255>>}

=============================================================================
