--------------------------- MODULE SocketMessage ---------------------------
(***************************************************************************)
(* Messages with a token and descriptors on a Unix socket                  *)
(* (src/token/message.rs): peios_socket_send_message,                      *)
(* peios_socket_recv_message and the walk of the control buffer, and the   *)
(* kernel between them (external).                                         *)
(*                                                                         *)
(* A descriptor is named by the message that carried it, its kind and its  *)
(* place, so one that is closed never comes back under the same name.      *)
(* Sizes of control messages are in units of an int: a header is four, and *)
(* data is padded to two.                                                  *)
(***************************************************************************)
EXTENDS Integers, Sequences, Functions

CONSTANTS
  ScmMaxFd,     \* SCM_MAX_FD
  MaxFds,       \* bound: descriptors a caller tries to send
  MaxCap,       \* bound: fd_cap of a receiver
  MaxSend,      \* bound: messages
  Extras        \* what else the receiving socket may have asked the kernel for

ASSUME MessageAssumption ==
  /\ ScmMaxFd \in Nat /\ MaxFds \in Nat /\ MaxCap \in Nat /\ MaxSend \in Nat
  /\ Extras \subseteq {"none", "creds", "pidfd"}

VARIABLES
  queue,          \* messages on the socket: [id, tokens, fds]
  sent,           \* how many there have been
  open,           \* descriptors open in the receiving process
  pc,             \* where the receiver is
  control,        \* the control messages of recvmsg still to be walked
  ctrunc,         \* MSG_CTRUNC, as the kernel returned it
  fd_cap, token_fd, fds, flagged,   \* struct peios_socket_message
  message         \* history: the message being received

out == <<token_fd, fds, flagged>>
messageVars == <<queue, sent, open, pc, control, ctrunc, fd_cap, out, message>>

NoFd == <<>>
Fd(m, kind, i) == <<m, kind, i>>
Fds(m, kind, n) == [i \in 1..n |-> Fd(m, kind, i)]
NoMessage == [id |-> 0, tokens |-> 0, fds |-> 0]

MessageInit ==
  /\ queue = <<>> /\ sent = 0 /\ open = {}
  /\ pc = "idle" /\ control = <<>> /\ ctrunc = FALSE
  /\ fd_cap = 0 /\ token_fd = NoFd /\ fds = <<>> /\ flagged = FALSE
  /\ message = NoMessage

-----------------------------------------------------------------------------
(* Sending. *)

Queue(tokens, n) ==
  /\ sent < MaxSend
  /\ sent' = sent + 1
  /\ queue' = Append(queue, [id |-> sent + 1, tokens |-> tokens, fds |-> n])
  /\ UNCHANGED <<open, pc, control, ctrunc, fd_cap, out, message>>

\* More descriptors than a message may carry are refused before anything is
\* sent; a negative token_fd attaches none.
SendMessage(hasToken, n) ==
  /\ n <= ScmMaxFd
  /\ Queue(IF hasToken THEN 1 ELSE 0, n)

\* Somebody else's message, whose control data is not libpeios's.
ForeignMessage(tokens, n) == n <= ScmMaxFd /\ Queue(tokens, n)

-----------------------------------------------------------------------------
(* recvmsg: the kernel installs what fits in the control buffer and closes *)
(* the rest.                                                               *)

CmsgHeader == 4
Align(n) == n + (n % 2)
Space(n) == CmsgHeader + Align(n)
Least(a, b) == IF a < b THEN a ELSE b

\* Room for one token and fd_cap descriptors.
ControlLen(cap) ==
  Space(1) + IF Least(cap, ScmMaxFd) > 0 THEN Space(Least(cap, ScmMaxFd)) ELSE 0

\* How many of n ints fit behind a header in what is left of the buffer.
Fitting(b, n) == IF b.room > CmsgHeader THEN Least(n, b.room - CmsgHeader) ELSE 0

\* Puts one control message of up to n ints into the buffer.
Put(b, kind, data, n) ==
  LET fits == Fitting(b, n)
  IN  IF n = 0 THEN b
      ELSE [room |-> IF fits = 0 THEN b.room ELSE b.room - Least(b.room, Space(fits)),
            msgs |-> IF fits = 0 THEN b.msgs
                     ELSE Append(b.msgs, [kind |-> kind,
                                          data |-> SubSeq(data, 1, Least(fits, Len(data)))]),
            cut |-> b.cut \/ fits < n]

ControlMessages(m, cap, extra, tokenFirst) ==
  LET tokens == Fds(m.id, "token", m.tokens)
      rights == Fds(m.id, "rights", m.fds)
      empty == [room |-> ControlLen(cap), msgs |-> <<>>, cut |-> FALSE]
      creds == IF extra = "creds" THEN Put(empty, "creds", <<>>, 3) ELSE empty
      both == IF tokenFirst
              THEN Put(Put(creds, "token", tokens, m.tokens), "rights", rights, m.fds)
              ELSE Put(Put(creds, "rights", rights, m.fds), "token", tokens, m.tokens)
  IN  IF extra = "pidfd" THEN Put(both, "pidfd", Fds(m.id, "pidfd", 1), 1) ELSE both

Installed(msgs) == UNION {Range(msgs[i].data) : i \in 1..Len(msgs)}

\* The arguments are good and recvmsg succeeds.
RecvMessage(cap, extra, tokenFirst) ==
  /\ pc = "idle"
  /\ queue # <<>>
  /\ LET b == ControlMessages(Head(queue), cap, extra, tokenFirst)
     IN  /\ control' = b.msgs
         /\ ctrunc' = b.cut
         /\ open' = open \cup Installed(b.msgs)
  /\ queue' = Tail(queue)
  /\ message' = Head(queue)
  /\ fd_cap' = cap
  /\ token_fd' = NoFd /\ fds' = <<>> /\ flagged' = FALSE
  /\ pc' = "walk"
  /\ UNCHANGED sent

-----------------------------------------------------------------------------
(* deliver_control, one step per descriptor. *)

Walking(kind) == pc = "walk" /\ control # <<>> /\ Head(control).kind = kind

TakeFd ==
  LET rest == Tail(Head(control).data)
  IN  control' = IF rest = <<>> THEN Tail(control)
                 ELSE <<[Head(control) EXCEPT !.data = rest]>> \o Tail(control)

Close(d) == open' = open \ {d} /\ flagged' = TRUE

\* The first token is the caller's, any other is closed.
DeliverToken ==
  /\ Walking("token")
  /\ TakeFd
  /\ LET d == Head(Head(control).data)
     IN  IF token_fd = NoFd
         THEN token_fd' = d /\ UNCHANGED <<open, flagged>>
         ELSE Close(d) /\ UNCHANGED token_fd
  /\ UNCHANGED <<queue, sent, pc, ctrunc, fd_cap, fds, message>>

\* Mutant: a descriptor without room is flagged and stays open.
DeliverRightsLeaky ==
  /\ Walking("rights")
  /\ TakeFd
  /\ IF Len(fds) < fd_cap
     THEN fds' = Append(fds, Head(Head(control).data)) /\ UNCHANGED flagged
     ELSE flagged' = TRUE /\ UNCHANGED fds
  /\ UNCHANGED <<queue, sent, open, pc, ctrunc, fd_cap, token_fd, message>>

\* Mutant: one descriptor too many is stored.
DeliverRightsPast ==
  /\ Walking("rights")
  /\ TakeFd
  /\ LET d == Head(Head(control).data)
     IN  IF Len(fds) <= fd_cap
         THEN fds' = Append(fds, d) /\ UNCHANGED <<open, flagged>>
         ELSE Close(d) /\ UNCHANGED fds
  /\ UNCHANGED <<queue, sent, pc, ctrunc, fd_cap, token_fd, message>>

\* The caller's array is filled, the rest is closed.
DeliverRights ==
  /\ Walking("rights")
  /\ TakeFd
  /\ LET d == Head(Head(control).data)
     IN  IF Len(fds) < fd_cap
         THEN fds' = Append(fds, d) /\ UNCHANGED <<open, flagged>>
         ELSE Close(d) /\ UNCHANGED fds
  /\ UNCHANGED <<queue, sent, pc, ctrunc, fd_cap, token_fd, message>>

\* A kind the walk does not know is passed over.
DeliverOther ==
  /\ pc = "walk" /\ control # <<>> /\ Head(control).kind \notin {"token", "rights"}
  /\ control' = Tail(control)
  /\ UNCHANGED <<queue, sent, open, pc, ctrunc, fd_cap, out, message>>

\* Mutant: MSG_CTRUNC is not looked at.
DeliveredUnchecked ==
  /\ pc = "walk" /\ control = <<>>
  /\ pc' = "returned"
  /\ UNCHANGED <<queue, sent, open, control, ctrunc, fd_cap, out, message>>

\* What the kernel had no room for is flagged as well.
Delivered ==
  /\ pc = "walk" /\ control = <<>>
  /\ pc' = "returned"
  /\ flagged' = (flagged \/ ctrunc)
  /\ UNCHANGED <<queue, sent, open, control, ctrunc, fd_cap, token_fd, fds, message>>

\* The caller closes what it was handed.
Release ==
  /\ pc = "returned"
  /\ pc' = "idle"
  /\ open' = open \ (Range(fds) \cup {token_fd})
  /\ fd_cap' = 0 /\ token_fd' = NoFd /\ fds' = <<>> /\ flagged' = FALSE
  /\ ctrunc' = FALSE
  /\ message' = NoMessage
  /\ UNCHANGED <<queue, sent, control>>

MessageNext ==
  \/ \E hasToken \in BOOLEAN, n \in 0..MaxFds : SendMessage(hasToken, n)
  \/ \E tokens \in 0..2, n \in 0..MaxFds : ForeignMessage(tokens, n)
  \/ \E cap \in 0..MaxCap, extra \in Extras, tokenFirst \in BOOLEAN :
       RecvMessage(cap, extra, tokenFirst)
  \/ DeliverToken \/ DeliverRights \/ DeliverOther \/ Delivered
  \/ Release

MessageSpec == MessageInit /\ [][MessageNext]_messageVars

-----------------------------------------------------------------------------
\* "Every descriptor the kernel delivered is either handed to the caller or
\* closed": when the call has returned the open descriptors are exactly the
\* caller's, and when the caller has closed those there are none.
NothingLeaks ==
  /\ pc = "returned" => open = Range(fds) \cup ({token_fd} \ {NoFd})
  /\ pc = "idle" => open = {}

\* The caller is told of everything that was sent and is missing: without the
\* flag it holds the token and every descriptor, in the order they were sent.
CompleteUnlessFlagged ==
  pc = "returned" /\ ~flagged =>
    /\ fds = Fds(message.id, "rights", message.fds)
    /\ token_fd = IF message.tokens = 0 THEN NoFd ELSE Fd(message.id, "token", 1)

\* What is there is never out of place: a prefix of what was sent, no more
\* than the caller has room for, although padding lets the kernel deliver more.
InOrder ==
  pc # "idle" =>
    /\ Len(fds) <= fd_cap
    /\ Len(fds) <= message.fds
    /\ fds = Fds(message.id, "rights", Len(fds))

=============================================================================
