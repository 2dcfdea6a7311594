------------------------ MODULE SocketMessageProofs ------------------------
(***************************************************************************)
(* Proofs about the receive side of src/token/message.rs, for every        *)
(* SCM_MAX_FD, every capacity and every number of messages: no descriptor  *)
(* leaks out of the walk of the control buffer, what is missing is flagged *)
(* and what is there is in order.                                          *)
(*                                                                         *)
(* The properties speak of the call that has returned. The invariant IInv  *)
(* says what holds in the middle of the walk: which descriptors wait in    *)
(* the control buffer, that they follow the ones handed out, and that      *)
(* every open descriptor is the caller's or waits.                         *)
(***************************************************************************)
EXTENDS SocketMessage, SequenceTheorems, TLAPS

Kinds == {"token", "rights", "creds", "pidfd"}
Descriptors == Nat \X Kinds \X Nat
Cmsgs == [kind : Kinds, data : Seq(Descriptors)]
Messages == [id : Nat, tokens : Nat, fds : Nat]

Types ==
  /\ queue \in Seq(Messages) /\ message \in Messages /\ sent \in Nat
  /\ pc \in {"idle", "walk", "returned"}
  /\ control \in Seq(Cmsgs)
  /\ ctrunc \in BOOLEAN /\ flagged \in BOOLEAN
  /\ fd_cap \in Nat
  /\ token_fd \in Descriptors \cup {NoFd}
  /\ fds \in Seq(Descriptors)

\* data lists the descriptors of a kind from the one after the first n on.
From(data, m, kind, n) ==
  \A k \in 1..Len(data) : data[k] = Fd(m.id, kind, n + k)

\* The descriptors that wait in the control buffer follow the held ones that
\* were handed out. Where one was passed over the array is full and the caller
\* is told.
RightsIn(data, m, held, cap, told, cut) ==
  \E n \in 0..m.fds :
    /\ data # <<>>
    /\ From(data, m, "rights", n)
    /\ held <= n
    /\ held < cap \/ ~told => n = held
    /\ n + Len(data) <= m.fds
    /\ cut \/ n + Len(data) = m.fds

\* So do the tokens, of which the first is the caller's.
TokensIn(data, m, token) ==
  \E n \in 0..m.tokens :
    /\ data # <<>>
    /\ From(data, m, "token", n)
    /\ n = 0 <=> token = NoFd
    /\ n + Len(data) <= m.tokens

\* What waits in control, by kind.
RightsWait ==
  \A i \in 1..Len(control) : control[i].kind = "rights" =>
    RightsIn(control[i].data, message, Len(fds), fd_cap, flagged, ctrunc)

TokensWait ==
  \A i \in 1..Len(control) : control[i].kind = "token" =>
    TokensIn(control[i].data, message, token_fd)

\* When nothing of a kind waits any more the caller has all of it, or is told.
RightsDone ==
  (\A i \in 1..Len(control) : control[i].kind # "rights")
    => flagged \/ ctrunc \/ Len(fds) = message.fds

TokensDone ==
  (\A i \in 1..Len(control) : control[i].kind # "token")
    => ctrunc \/ (token_fd = NoFd <=> message.tokens = 0)

\* What the caller has so far.
HandedOut ==
  /\ fds = Fds(message.id, "rights", Len(fds))
  /\ Len(fds) <= fd_cap /\ Len(fds) <= message.fds
  /\ token_fd \in {NoFd, Fd(message.id, "token", 1)}

\* The kernel puts at most one control message of a kind, and credentials are
\* not descriptors.
OnePerKind ==
  /\ \A i, j \in 1..Len(control) : control[i].kind = control[j].kind => i = j
  /\ \A i \in 1..Len(control) : control[i].kind = "creds" => control[i].data = <<>>

\* Every open descriptor has an owner: the caller, or the control buffer.
Owned ==
  "pidfd" \notin Extras =>
    /\ \A i \in 1..Len(control) : control[i].kind # "pidfd"
    /\ open = Range(fds) \cup ({token_fd} \ {NoFd}) \cup Installed(control)

IInv ==
  /\ Types
  /\ OnePerKind /\ RightsWait /\ TokensWait /\ Owned
  /\ pc # "idle" => RightsDone /\ TokensDone /\ HandedOut
  /\ pc = "idle" => fds = <<>> /\ token_fd = NoFd
  /\ pc # "walk" => control = <<>>
  /\ pc = "returned" /\ ctrunc => flagged

-----------------------------------------------------------------------------
(* The steps that do not take a descriptor. *)

LEMMA IInvInit == MessageInit => IInv
<1> SUFFICES ASSUME MessageInit PROVE IInv  OBVIOUS
<1> USE DEF MessageInit
<1>1. Types
  <2>1. NoMessage \in Messages
    BY DEF NoMessage, Messages
  <2>2. ctrunc \in BOOLEAN /\ flagged \in BOOLEAN
    OBVIOUS
  <2>3. QED
    BY <2>1, <2>2 DEF Types
<1>2. Owned
  BY DEF Owned, Installed, Range
<1>3. QED
  BY <1>1, <1>2 DEF IInv, OnePerKind, RightsWait, TokensWait

LEMMA QueueKeeps ==
  ASSUME IInv, NEW tokens \in Nat, NEW n \in Nat, Queue(tokens, n)
  PROVE  IInv'
<1> USE DEF Queue, out
<1>1. Types'
  BY DEF IInv, Types, Messages
<1>2. (OnePerKind /\ RightsWait /\ TokensWait)'
  BY DEF IInv, OnePerKind, RightsWait, TokensWait
<1>3. Owned'
  BY DEF IInv, Owned
<1>4. pc # "idle" => (RightsDone /\ TokensDone /\ HandedOut)'
  BY DEF IInv, RightsDone, TokensDone, HandedOut
<1>5. QED
  BY <1>1, <1>2, <1>3, <1>4 DEF IInv

LEMMA DeliveredKeeps ==
  ASSUME IInv, Delivered
  PROVE  IInv'
<1> USE DEF Delivered
<1>1. Types'
  BY DEF IInv, Types
<1>2. OnePerKind' /\ RightsWait' /\ TokensWait'
  BY DEF IInv, OnePerKind, RightsWait, TokensWait
<1>3. Owned'
  BY DEF IInv, Owned, Installed, Range
<1>4. RightsDone' /\ TokensDone' /\ HandedOut'
  BY DEF IInv, Types, RightsDone, TokensDone, HandedOut
<1>5. QED
  BY <1>1, <1>2, <1>3, <1>4 DEF IInv

LEMMA ReleaseKeeps ==
  ASSUME IInv, Release
  PROVE  IInv'
<1> USE DEF Release
<1>0. control = <<>> /\ control' = <<>>
  BY DEF IInv
<1>1. Types'
  <2>1. NoMessage \in Messages
    BY DEF NoMessage, Messages
  <2>2. ctrunc' \in BOOLEAN /\ flagged' \in BOOLEAN
    OBVIOUS
  <2>3. QED
    BY <2>1, <2>2 DEF IInv, Types
<1>2. OnePerKind' /\ RightsWait' /\ TokensWait'
  BY <1>0 DEF OnePerKind, RightsWait, TokensWait
<1>3. Owned'
  BY <1>0 DEF IInv, Owned, Installed, Range
<1>4. QED
  BY <1>0, <1>1, <1>2, <1>3 DEF IInv

LEMMA OtherKeeps ==
  ASSUME IInv, DeliverOther
  PROVE  IInv'
<1>0. /\ Len(control') = Len(control) - 1
      /\ Len(control) \in Nat /\ Len(control) > 0
      /\ \A i \in 1..Len(control') : control'[i] = control[i + 1]
      /\ control[1].kind \notin {"token", "rights"}
      /\ \A i \in 1..Len(control) : control[i] \in Cmsgs
      /\ UNCHANGED <<ctrunc, fd_cap, token_fd, fds, flagged, message, open, pc>>
      /\ pc # "idle"
  BY DEF IInv, Types, DeliverOther, out
<1>1. \A i \in 1..Len(control) :
        i # 1 => i - 1 \in 1..Len(control') /\ control'[i - 1] = control[i]
  BY <1>0
<1>2. Types'
  BY DEF IInv, Types, DeliverOther, out
<1>3. OnePerKind'
  <2>1. \A i \in 1..Len(control') : i + 1 \in 1..Len(control) /\ control'[i] = control[i + 1]
    BY <1>0
  <2>2. \A i, j \in 1..Len(control') : control'[i].kind = control'[j].kind => i = j
    BY <1>0, <2>1 DEF IInv, OnePerKind
  <2>3. QED
    BY <2>1, <2>2 DEF IInv, OnePerKind
<1>4. RightsWait'
  BY <1>0 DEF IInv, RightsWait
<1>5. TokensWait'
  BY <1>0 DEF IInv, TokensWait
<1>6. Owned'
  <2> SUFFICES ASSUME "pidfd" \notin Extras PROVE Owned'
    BY DEF Owned
  <2>1. control[1].data = <<>>
    BY <1>0 DEF IInv, Owned, OnePerKind, Cmsgs, Kinds
  <2>2. Range(control[1].data) = {}
    BY <2>1 DEF Range
  <2>3. Installed(control') \subseteq Installed(control)
    BY <1>0 DEF Installed
  <2>4. Installed(control) \subseteq Installed(control')
    BY <1>1, <2>2 DEF Installed
  <2>5. QED
    BY <1>0, <2>3, <2>4 DEF IInv, Owned
<1>7. RightsDone'
  BY <1>0, <1>1 DEF IInv, RightsDone
<1>8. TokensDone'
  BY <1>0, <1>1 DEF IInv, TokensDone
<1>9. HandedOut'
  BY <1>0 DEF IInv, HandedOut
<1>10. QED
  BY <1>0, <1>2, <1>3, <1>4, <1>5, <1>6, <1>7, <1>8, <1>9 DEF IInv

-----------------------------------------------------------------------------
(* deliver_control: taking one descriptor. *)

LEMMA ExceptData ==
  ASSUME NEW c \in Cmsgs, NEW r
  PROVE  [c EXCEPT !.data = r] = [kind |-> c.kind, data |-> r]
BY DEF Cmsgs

\* TakeFd removes the first descriptor d of the first control message, and the
\* message with its last one.
LEMMA TakeFdGives ==
  ASSUME Types, control # <<>>, Head(control).data # <<>>, TakeFd
  PROVE  LET c == Head(control)
         IN /\ control' \in Seq(Cmsgs)
            /\ \/ /\ Len(c.data) = 1
                  /\ Len(control') = Len(control) - 1
                  /\ \A i \in 1..Len(control') : control'[i] = control[i + 1]
               \/ /\ Len(c.data) > 1
                  /\ Len(control') = Len(control)
                  /\ control'[1] = [kind |-> c.kind, data |-> Tail(c.data)]
                  /\ \A i \in 2..Len(control') : control'[i] = control[i]
<1> DEFINE c == Head(control)
           rest == Tail(c.data)
           d == [kind |-> c.kind, data |-> rest]
<1>1. /\ control \in Seq(Cmsgs) /\ Tail(control) \in Seq(Cmsgs)
      /\ c \in Cmsgs /\ c.data \in Seq(Descriptors) /\ rest \in Seq(Descriptors)
  <2>1. control \in Seq(Cmsgs)
    BY DEF Types
  <2>2. Tail(control) \in Seq(Cmsgs) /\ c \in Cmsgs
    BY <2>1
  <2>3. c.data \in Seq(Descriptors)
    BY <2>2 DEF Cmsgs
  <2>4. rest \in Seq(Descriptors)
    BY <2>3
  <2>5. QED
    BY <2>1, <2>2, <2>3, <2>4
<1>2. [c EXCEPT !.data = rest] = d
  BY <1>1, ExceptData
<1>3. d \in Cmsgs
  BY <1>1 DEF Cmsgs
<1>4. Len(c.data) \in Nat /\ Len(c.data) > 0 /\ Len(rest) = Len(c.data) - 1
  BY <1>1
<1>5. CASE rest = <<>>
  <2>1. control' = Tail(control)
    BY <1>5 DEF TakeFd
  <2>2. Len(c.data) = 1
    <3>1. Len(rest) = 0
      <4> HIDE DEF rest
      <4>1. QED
        BY <1>5
    <3>2. QED
      BY <1>4, <3>1
  <2>3. QED
    BY <1>1, <2>1, <2>2
<1>6. CASE rest # <<>>
  <2>1. control' = <<d>> \o Tail(control)
    BY <1>2, <1>6 DEF TakeFd
  <2>2. Len(c.data) > 1
    BY <1>1, <1>4, <1>6
  <2> HIDE DEF d, c
  <2>3. <<d>> \in Seq(Cmsgs) /\ Len(<<d>>) = 1
    BY <1>3
  <2>4. /\ control' \in Seq(Cmsgs)
        /\ Len(control') = 1 + Len(Tail(control))
        /\ control'[1] = d
        /\ \A i \in 2..Len(control') : control'[i] = Tail(control)[i - 1]
    BY <1>1, <1>3, <2>1, <2>3
  <2>5. QED
    BY <1>1, <2>2, <2>4 DEF d, c
<1>7. QED
  BY <1>5, <1>6

\* Who walks over a token or a right: the first message lists descriptors of
\* its kind, and no two descriptors of a message are the same.
LEMMA HeadLists ==
  ASSUME IInv, control # <<>>, Head(control).kind \in {"token", "rights"}
  PROVE  /\ control[1] = Head(control)
         /\ Head(control).data \in Seq(Descriptors)
         /\ Head(control).data # <<>>
         /\ \E n \in Nat : From(Head(control).data, message, Head(control).kind, n)
<1>1. control \in Seq(Cmsgs) /\ Len(control) > 0 /\ control[1] = Head(control) /\ 1 \in 1..Len(control)
  BY DEF IInv, Types
<1>2. Head(control) \in Cmsgs
  BY <1>1
<1>3. CASE Head(control).kind = "token"
  <2>1. TokensIn(Head(control).data, message, token_fd)
    BY <1>1, <1>3 DEF IInv, TokensWait
  <2>2. message.tokens \in Nat
    BY DEF IInv, Types, Messages
  <2>3. QED
    BY <1>1, <1>2, <1>3, <2>1, <2>2 DEF TokensIn, Cmsgs
<1>4. CASE Head(control).kind = "rights"
  <2>1. RightsIn(Head(control).data, message, Len(fds), fd_cap, flagged, ctrunc)
    BY <1>1, <1>4 DEF IInv, RightsWait
  <2>2. message.fds \in Nat
    BY DEF IInv, Types, Messages
  <2>3. QED
    BY <1>1, <1>2, <1>4, <2>1, <2>2 DEF RightsIn, Cmsgs
<1>5. QED
  BY <1>3, <1>4

\* A descriptor that waits is named after the message and its kind.
LEMMA EntryKind ==
  ASSUME IInv, "pidfd" \notin Extras,
         NEW i \in 1..Len(control), NEW x \in Range(control[i].data)
  PROVE  \E n \in Nat : x = Fd(message.id, control[i].kind, n)
<1>1. control[i] \in Cmsgs
  BY DEF IInv, Types
<1>2. control[i].data \in Seq(Descriptors)
  BY <1>1 DEF Cmsgs
<1>3. PICK k \in 1..Len(control[i].data) : x = control[i].data[k]
  BY <1>2 DEF Range
<1>4. message.fds \in Nat /\ message.tokens \in Nat
  BY DEF IInv, Types, Messages
<1>5. CASE control[i].kind = "token"
  <2>1. TokensIn(control[i].data, message, token_fd)
    BY <1>5 DEF IInv, TokensWait
  <2>2. QED
    BY <1>2, <1>3, <1>4, <1>5, <2>1 DEF TokensIn, From
<1>6. CASE control[i].kind = "rights"
  <2>1. RightsIn(control[i].data, message, Len(fds), fd_cap, flagged, ctrunc)
    BY <1>6 DEF IInv, RightsWait
  <2>2. QED
    BY <1>2, <1>3, <1>4, <1>6, <2>1 DEF RightsIn, From
<1>7. control[i].kind # "creds"
  BY <1>3 DEF IInv, OnePerKind
<1>8. control[i].kind # "pidfd"
  BY DEF IInv, Owned
<1>9. QED
  BY <1>1, <1>5, <1>6, <1>7, <1>8 DEF Cmsgs, Kinds

\* What TakeFd leaves: the other messages as they were, at most one of the
\* first one's kind, with its tail.
TakenFrom(old, new, c) ==
  /\ \A i \in 1..Len(new) : new[i].kind # c.kind => \E j \in 1..Len(old) : old[j] = new[i]
  /\ \A j \in 1..Len(old) : old[j].kind # c.kind => \E i \in 1..Len(new) : new[i] = old[j]
  /\ \A i \in 1..Len(new) :
       new[i].kind = c.kind => Len(c.data) > 1 /\ new[i].data = Tail(c.data)
  /\ Len(c.data) > 1 =>
       \E i \in 1..Len(new) : new[i] = [kind |-> c.kind, data |-> Tail(c.data)]

LEMMA TakeFdKeeps ==
  ASSUME IInv, control # <<>>, Head(control).kind \in {"token", "rights"}, TakeFd
  PROVE  control' \in Seq(Cmsgs) /\ OnePerKind' /\ TakenFrom(control, control', Head(control))
<1> DEFINE c == Head(control)
           L == Len(control)
<1>1. c.data # <<>> /\ control[1] = c
  BY HeadLists
<1>2. /\ control' \in Seq(Cmsgs)
      /\ \/ /\ Len(c.data) = 1
            /\ Len(control') = L - 1
            /\ \A i \in 1..Len(control') : control'[i] = control[i + 1]
         \/ /\ Len(c.data) > 1
            /\ Len(control') = L
            /\ control'[1] = [kind |-> c.kind, data |-> Tail(c.data)]
            /\ \A i \in 2..Len(control') : control'[i] = control[i]
  BY <1>1, TakeFdGives DEF IInv
<1>3. L \in Nat /\ L > 0
  BY DEF IInv, Types
<1>4. /\ \A i, j \in 1..L : control[i].kind = control[j].kind => i = j
      /\ \A i \in 1..L : control[i].kind = "creds" => control[i].data = <<>>
  BY DEF IInv, OnePerKind
<1>5. c.kind # "creds"
  OBVIOUS
<1> HIDE DEF c, L
<1>6. CASE /\ Len(c.data) = 1
           /\ Len(control') = L - 1
           /\ \A i \in 1..Len(control') : control'[i] = control[i + 1]
  <2>1. \A i \in 1..Len(control') : i + 1 \in 1..L /\ control'[i] = control[i + 1]
    BY <1>3, <1>6
  <2>2. \A j \in 1..L : j # 1 => j - 1 \in 1..Len(control') /\ control'[j - 1] = control[j]
    BY <1>3, <1>6
  <2>3. \A i, j \in 1..Len(control') : control'[i].kind = control'[j].kind => i = j
    <3>1. \A i, j \in 1..Len(control') :
            control'[i].kind = control'[j].kind => i + 1 = j + 1
      BY <1>4, <2>1
    <3>2. \A i, j \in 1..Len(control') : i + 1 = j + 1 => i = j
      BY <1>3, <1>6
    <3>3. QED
      BY <3>1, <3>2
  <2>4. OnePerKind'
    BY <1>4, <2>1, <2>3 DEF OnePerKind
  <2>5. \A i \in 1..Len(control') : control'[i].kind # c.kind
    BY <1>1, <1>3, <1>4, <1>6, <2>1
  <2>6. \A i \in 1..Len(control') : \E j \in 1..L : control[j] = control'[i]
    BY <2>1
  <2>7. \A j \in 1..L : control[j].kind # c.kind => \E i \in 1..Len(control') : control'[i] = control[j]
    BY <1>1, <2>2
  <2>8. TakenFrom(control, control', c)
    BY <1>6, <2>5, <2>6, <2>7 DEF TakenFrom, L
  <2>9. QED
    BY <1>2, <2>4, <2>8 DEF c
<1>7. CASE /\ Len(c.data) > 1
           /\ Len(control') = L
           /\ control'[1] = [kind |-> c.kind, data |-> Tail(c.data)]
           /\ \A i \in 2..Len(control') : control'[i] = control[i]
  <2>1. \A i \in 1..L : control'[i].kind = control[i].kind
    BY <1>1, <1>3, <1>7
  <2>2. \A i \in 1..L : control'[i].kind # c.kind => control'[i] = control[i]
    BY <1>1, <1>3, <1>7
  <2>3. OnePerKind'
    BY <1>4, <1>5, <1>7, <2>1, <2>2 DEF OnePerKind
  <2>4. \A i \in 1..L : control'[i].kind = c.kind => i = 1
    BY <1>1, <1>3, <1>4, <2>1
  <2>5. 1 \in 1..L
    BY <1>3
  <2>6. \A i \in 1..L : control[i].kind # c.kind => control'[i] = control[i]
    BY <2>1, <2>2
  <2>7. \A i \in 1..Len(control') :
          control'[i].kind = c.kind => Len(c.data) > 1 /\ control'[i].data = Tail(c.data)
    <3>1. control'[1].data = Tail(c.data)
      BY <1>7
    <3>2. QED
      BY <1>7, <2>4, <3>1
  <2>8. TakenFrom(control, control', c)
    BY <1>7, <2>2, <2>5, <2>6, <2>7 DEF TakenFrom, L
  <2>9. QED
    BY <1>2, <2>3, <2>8 DEF c
<1>8. QED
  BY <1>2, <1>6, <1>7

\* The descriptor taken is in no place of the control buffer any more.
LEMMA TakeFdInstalled ==
  ASSUME IInv, control # <<>>, Head(control).kind \in {"token", "rights"}, TakeFd,
         "pidfd" \notin Extras
  PROVE  /\ Installed(control) = Installed(control') \cup {Head(Head(control).data)}
         /\ Head(Head(control).data) \notin Installed(control')
<1> DEFINE c == Head(control)
           d == Head(c.data)
<1>1. /\ control[1] = c /\ c.data \in Seq(Descriptors) /\ c.data # <<>>
      /\ \E n \in Nat : From(c.data, message, c.kind, n)
  BY HeadLists
<1>2. PICK n \in Nat : \A k \in 1..Len(c.data) : c.data[k] = Fd(message.id, c.kind, n + k)
  BY <1>1 DEF From
<1>3. /\ \A i \in 1..Len(control') : control'[i].kind # c.kind =>
           \E j \in 1..Len(control) : control[j] = control'[i]
      /\ \A j \in 1..Len(control) : control[j].kind # c.kind =>
           \E i \in 1..Len(control') : control'[i] = control[j]
      /\ \A i \in 1..Len(control') : control'[i].kind = c.kind =>
           Len(c.data) > 1 /\ control'[i].data = Tail(c.data)
      /\ Len(c.data) > 1 =>
           \E i \in 1..Len(control') : control'[i] = [kind |-> c.kind, data |-> Tail(c.data)]
  BY TakeFdKeeps DEF TakenFrom
<1>4. 1 \in 1..Len(control) /\ Len(control) \in Nat
  BY DEF IInv, Types
<1>5. \A j \in 1..Len(control) : control[j].kind = c.kind => j = 1
  BY <1>1, <1>4 DEF IInv, OnePerKind
<1> HIDE DEF c
<1>6. Range(c.data) = {d} \cup Range(Tail(c.data))
  <2>1. Tail(c.data) = [k \in 1..Len(c.data) - 1 |-> c.data[k + 1]]
    BY <1>1
  <2>2. DOMAIN c.data = 1..Len(c.data) /\ d = c.data[1] /\ Len(c.data) \in Nat /\ Len(c.data) > 0
    BY <1>1
  <2>3. Range(Tail(c.data)) = {c.data[k + 1] : k \in 1..Len(c.data) - 1}
    BY <2>1 DEF Range
  <2>4. \A k \in 1..Len(c.data) : k = 1 \/ (k - 1 \in 1..Len(c.data) - 1 /\ (k - 1) + 1 = k)
    BY <2>2
  <2>5. \A k \in 1..Len(c.data) - 1 : k + 1 \in 1..Len(c.data)
    BY <2>2
  <2>6. Range(c.data) \subseteq {d} \cup Range(Tail(c.data))
    BY <2>2, <2>3, <2>4 DEF Range
  <2>7. 1 \in 1..Len(c.data)
    BY <2>2
  <2>8. QED
    BY <2>2, <2>3, <2>5, <2>6, <2>7 DEF Range
<1>7. d = Fd(message.id, c.kind, n + 1)
  BY <1>1, <1>2
<1>8. d \notin Range(Tail(c.data))
  <2>0. DOMAIN Tail(c.data) = 1..Len(Tail(c.data))
    BY <1>1
  <2>1. SUFFICES ASSUME NEW k \in 1..Len(Tail(c.data)) PROVE Tail(c.data)[k] # d
    BY <2>0, Zenon DEF Range
  <2>2. Tail(c.data)[k] = Fd(message.id, c.kind, n + (k + 1))
    BY <1>1, <1>2
  <2>3. n + (k + 1) # n + 1
    BY <1>1
  <2>4. QED
    BY <1>7, <2>2, <2>3 DEF Fd
<1>9. \A j \in 1..Len(control) : control[j].kind # c.kind => d \notin Range(control[j].data)
  BY <1>7, EntryKind DEF Fd
<1>10. d \notin Installed(control')
  <2>1. SUFFICES ASSUME NEW i \in 1..Len(control') PROVE d \notin Range(control'[i].data)
    BY DEF Installed
  <2>2. QED
    BY <1>3, <1>8, <1>9
<1>11. Installed(control) \subseteq Installed(control') \cup {d}
  <2>1. SUFFICES ASSUME NEW j \in 1..Len(control), NEW x \in Range(control[j].data)
                 PROVE  x \in Installed(control') \cup {d}
    BY DEF Installed
  <2>2. CASE control[j].kind # c.kind
    BY <1>3, <2>2 DEF Installed
  <2>3. CASE control[j].kind = c.kind
    <3>1. x = d \/ x \in Range(Tail(c.data))
      BY <1>1, <1>5, <1>6, <2>3
    <3>2. x \in Range(Tail(c.data)) => Len(c.data) > 1
      BY <1>1 DEF Range
    <3>3. QED
      BY <1>3, <3>1, <3>2 DEF Installed
  <2>4. QED
    BY <2>2, <2>3
<1>12. Installed(control') \cup {d} \subseteq Installed(control)
  <2>1. d \in Installed(control)
    BY <1>1, <1>4, <1>6 DEF Installed
  <2>2. ASSUME NEW i \in 1..Len(control'), NEW x \in Range(control'[i].data)
        PROVE  x \in Installed(control)
    <3>1. CASE control'[i].kind # c.kind
      BY <1>3, <3>1 DEF Installed
    <3>2. CASE control'[i].kind = c.kind
      BY <1>1, <1>3, <1>4, <1>6, <3>2 DEF Installed
    <3>3. QED
      BY <3>1, <3>2
  <2>3. QED
    BY <2>1, <2>2 DEF Installed
<1>13. QED
  BY <1>10, <1>11, <1>12 DEF c

\* Being told of more can only help a descriptor that waits.
LEMMA ToldRights ==
  ASSUME NEW data, NEW m, NEW held, NEW cap, NEW told, NEW cut,
         RightsIn(data, m, held, cap, told, cut)
  PROVE  RightsIn(data, m, held, cap, TRUE, cut)
BY DEF RightsIn

LEMMA AppendIs ==
  ASSUME NEW S, NEW q \in Seq(S), NEW e \in S
  PROVE  /\ Append(q, e) \in Seq(S) /\ Len(Append(q, e)) = Len(q) + 1
         /\ Append(q, e) = [i \in 1..(Len(q) + 1) |-> IF i = Len(q) + 1 THEN e ELSE q[i]]
<1> DEFINE a == Append(q, e)
<1>1. a \in Seq(S) /\ Len(a) = Len(q) + 1 /\ Len(q) \in Nat
  OBVIOUS
<1>2. \A i \in 1..(Len(q) + 1) : a[i] = IF i = Len(q) + 1 THEN e ELSE q[i]
  OBVIOUS
<1> HIDE DEF a
<1>3. a = [i \in 1..Len(a) |-> a[i]]
  BY <1>1
<1>4. a = [i \in 1..(Len(q) + 1) |-> IF i = Len(q) + 1 THEN e ELSE q[i]]
  BY <1>1, <1>2, <1>3
<1>5. QED
  BY <1>1, <1>4 DEF a

\* What is left of a list after its first descriptor.
LEMMA FromTail ==
  ASSUME NEW data \in Seq(Descriptors), data # <<>>, NEW m, NEW kind, NEW n \in Nat,
         From(data, m, kind, n)
  PROVE  /\ Head(data) = Fd(m.id, kind, n + 1)
         /\ From(Tail(data), m, kind, n + 1)
         /\ Len(data) > 1 => Tail(data) # <<>>
         /\ Len(data) \in Nat /\ Len(data) > 0 /\ Len(Tail(data)) = Len(data) - 1
<1>1. Len(data) \in Nat /\ Len(data) > 0 /\ Len(Tail(data)) = Len(data) - 1
  OBVIOUS
<1>2. Head(data) = Fd(m.id, kind, n + 1)
  BY <1>1 DEF From
<1>3. From(Tail(data), m, kind, n + 1)
  <2>1. SUFFICES ASSUME NEW k \in 1..Len(Tail(data))
                 PROVE  Tail(data)[k] = Fd(m.id, kind, (n + 1) + k)
    BY DEF From
  <2>2. k + 1 \in 1..Len(data) /\ Tail(data)[k] = data[k + 1]
    BY <1>1
  <2>3. n + (k + 1) = (n + 1) + k
    BY <1>1
  <2>4. QED
    BY <2>2, <2>3 DEF From
<1>4. Len(data) > 1 => Tail(data) # <<>>
  <2>1. Len(<<>>) = 0
    OBVIOUS
  <2>2. Tail(data) = <<>> => Len(Tail(data)) = 0
    BY <2>1, Zenon
  <2>3. QED
    BY <1>1, <2>2
<1>5. QED
  BY <1>1, <1>2, <1>3, <1>4

\* The first token becomes the caller's; a second one is closed, and it is not
\* the one the caller has.
LEMMA TokenKeeps ==
  ASSUME IInv, DeliverToken
  PROVE  IInv'
<1> DEFINE c == Head(control)
           d == Head(c.data)
<1>1. /\ pc = "walk" /\ pc' = "walk" /\ control # <<>> /\ c.kind = "token" /\ TakeFd
      /\ UNCHANGED <<queue, sent, ctrunc, fd_cap, fds, message>>
      /\ IF token_fd = NoFd THEN token_fd' = d /\ UNCHANGED <<open, flagged>>
         ELSE open' = open \ {d} /\ flagged' = TRUE /\ UNCHANGED token_fd
  BY DEF DeliverToken, Walking, Close
<1>2. control' \in Seq(Cmsgs) /\ OnePerKind' /\ TakenFrom(control, control', c)
  BY <1>1, TakeFdKeeps
<1>3. control[1] = c /\ c.data \in Seq(Descriptors) /\ c.data # <<>>
  BY <1>1, HeadLists
<1>4. 1 \in 1..Len(control) /\ message.tokens \in Nat /\ message.fds \in Nat /\ message.id \in Nat
  BY <1>1 DEF IInv, Types, Messages
<1>5. TokensIn(c.data, message, token_fd)
  BY <1>1, <1>3, <1>4 DEF IInv, TokensWait
<1>6. PICK n \in 0..message.tokens :
        /\ From(c.data, message, "token", n)
        /\ n = 0 <=> token_fd = NoFd
        /\ n + Len(c.data) <= message.tokens
  BY <1>5 DEF TokensIn
<1>7. /\ d = Fd(message.id, "token", n + 1)
      /\ From(Tail(c.data), message, "token", n + 1)
      /\ Len(c.data) > 1 => Tail(c.data) # <<>>
      /\ Len(c.data) \in Nat /\ Len(c.data) > 0 /\ Len(Tail(c.data)) = Len(c.data) - 1
  <2>1. n \in Nat
    BY <1>4
  <2>2. QED
    BY <1>3, <1>6, <2>1, FromTail
<1>8. HandedOut
  BY <1>1 DEF IInv
<1> HIDE DEF c, d
<1>9. d # NoFd /\ d \in Descriptors
  BY <1>4, <1>7 DEF Fd, NoFd, Descriptors, Kinds
<1>10. token_fd' # NoFd /\ token_fd' = Fd(message.id, "token", 1)
  BY <1>1, <1>4, <1>6, <1>7, <1>8, <1>9 DEF HandedOut
<1>11. flagged' \in BOOLEAN /\ (flagged => flagged')
  BY <1>1 DEF IInv, Types
<1>12. Types'
  BY <1>1, <1>2, <1>9, <1>11 DEF IInv, Types
<1>13. RightsWait'
  <2>1. SUFFICES ASSUME NEW i \in 1..Len(control'), control'[i].kind = "rights"
                 PROVE  RightsIn(control'[i].data, message, Len(fds), fd_cap, flagged', ctrunc)
    BY <1>1 DEF RightsWait
  <2>2. RightsIn(control'[i].data, message, Len(fds), fd_cap, flagged, ctrunc)
    BY <1>1, <1>2, <2>1 DEF IInv, RightsWait, TakenFrom
  <2>3. QED
    BY <1>1, <2>2, ToldRights
<1>14. TokensWait'
  <2>1. SUFFICES ASSUME NEW i \in 1..Len(control'), control'[i].kind = "token"
                 PROVE  TokensIn(control'[i].data, message, token_fd')
    BY <1>1 DEF TokensWait
  <2>2. Len(c.data) > 1 /\ control'[i].data = Tail(c.data)
    BY <1>1, <1>2, <2>1 DEF TakenFrom
  <2>3. n + 1 \in 0..message.tokens /\ (n + 1) + Len(Tail(c.data)) <= message.tokens /\ n + 1 # 0
    <3> DEFINE l == Len(c.data)
               m == Len(Tail(c.data))
    <3>1. n + l <= message.tokens /\ l \in Nat /\ l > 1 /\ m = l - 1
      BY <1>6, <1>7, <2>2
    <3> HIDE DEF l, m
    <3>2. n + 1 \in 0..message.tokens /\ (n + 1) + m <= message.tokens /\ n + 1 # 0
      BY <1>4, <3>1
    <3>3. QED
      BY <3>2 DEF m
  <2>4. QED
    BY <1>7, <1>10, <2>2, <2>3 DEF TokensIn
<1>15. Owned'
  <2>1. SUFFICES ASSUME "pidfd" \notin Extras PROVE Owned'
    BY DEF Owned
  <2>2. Installed(control) = Installed(control') \cup {d} /\ d \notin Installed(control')
    BY <1>1, <2>1, TakeFdInstalled DEF c, d
  <2>3. /\ \A i \in 1..Len(control) : control[i].kind # "pidfd"
        /\ open = Range(fds) \cup ({token_fd} \ {NoFd}) \cup Installed(control)
    BY <2>1 DEF IInv, Owned
  <2>4. \A i \in 1..Len(control') : control'[i].kind # "pidfd"
    BY <1>1, <1>2, <2>3 DEF TakenFrom
  <2>5. d \notin Range(fds)
    <3>1. fds = [i \in 1..Len(fds) |-> Fd(message.id, "rights", i)]
      BY <1>8 DEF HandedOut, Fds
    <3>2. \A x \in Range(fds) : \E i \in 1..Len(fds) : x = Fd(message.id, "rights", i)
      BY <3>1 DEF Range
    <3>3. QED
      BY <1>7, <3>2 DEF Fd
  <2>6. CASE token_fd = NoFd
    BY <1>1, <1>9, <2>2, <2>3, <2>4, <2>6 DEF Owned
  <2>7. CASE token_fd # NoFd
    <3>1. d # token_fd
      <4>1. n + 1 # 1
        BY <1>4, <1>6, <2>7
      <4>2. token_fd = Fd(message.id, "token", 1)
        BY <1>1, <1>10, <2>7
      <4>3. QED
        BY <1>7, <4>1, <4>2 DEF Fd
    <3>2. QED
      BY <1>1, <2>2, <2>3, <2>4, <2>5, <2>7, <3>1 DEF Owned
  <2>8. QED
    BY <2>6, <2>7
<1>16. RightsDone'
  BY <1>1, <1>2, <1>11 DEF IInv, RightsDone, TakenFrom
<1>17. TokensDone'
  <2>1. message.tokens # 0
    BY <1>4, <1>6, <1>7
  <2>2. QED
    BY <1>1, <1>10, <2>1 DEF TokensDone
<1>18. HandedOut'
  BY <1>1, <1>8, <1>10 DEF HandedOut
<1>19. QED
  BY <1>1, <1>2, <1>12, <1>13, <1>14, <1>15, <1>16, <1>17, <1>18 DEF IInv

\* A descriptor is stored behind the ones before it while there is room, and
\* closed and flagged after that.
LEMMA RightsKeeps ==
  ASSUME IInv, DeliverRights
  PROVE  IInv'
<1> DEFINE c == Head(control)
           d == Head(c.data)
           l == Len(c.data)
           held == Len(fds)
<1>1. /\ pc = "walk" /\ pc' = "walk" /\ control # <<>> /\ c.kind = "rights" /\ TakeFd
      /\ UNCHANGED <<queue, sent, ctrunc, fd_cap, token_fd, message>>
      /\ IF held < fd_cap THEN fds' = Append(fds, d) /\ UNCHANGED <<open, flagged>>
         ELSE open' = open \ {d} /\ flagged' = TRUE /\ UNCHANGED fds
  BY DEF DeliverRights, Walking, Close
<1>2. control' \in Seq(Cmsgs) /\ OnePerKind' /\ TakenFrom(control, control', c)
  BY <1>1, TakeFdKeeps
<1>3. control[1] = c /\ c.data \in Seq(Descriptors) /\ c.data # <<>>
  BY <1>1, HeadLists
<1>4. /\ 1 \in 1..Len(control) /\ message.tokens \in Nat /\ message.fds \in Nat /\ message.id \in Nat
      /\ fds \in Seq(Descriptors) /\ held \in Nat /\ fd_cap \in Nat
  BY <1>1 DEF IInv, Types, Messages
<1>5. RightsIn(c.data, message, held, fd_cap, flagged, ctrunc)
  BY <1>1, <1>3, <1>4 DEF IInv, RightsWait
<1>6. PICK n \in 0..message.fds :
        /\ From(c.data, message, "rights", n)
        /\ held <= n
        /\ held < fd_cap \/ ~flagged => n = held
        /\ n + l <= message.fds
        /\ ctrunc \/ n + l = message.fds
  BY <1>5 DEF RightsIn
<1>7. /\ d = Fd(message.id, "rights", n + 1)
      /\ From(Tail(c.data), message, "rights", n + 1)
      /\ l > 1 => Tail(c.data) # <<>>
      /\ l \in Nat /\ l > 0 /\ Len(Tail(c.data)) = l - 1
  <2>1. n \in Nat
    BY <1>4
  <2>2. QED
    BY <1>3, <1>6, <2>1, FromTail
<1>8. HandedOut
  BY <1>1 DEF IInv
<1> HIDE DEF c, d, l
<1>9. d # NoFd /\ d \in Descriptors
  BY <1>4, <1>7 DEF Fd, NoFd, Descriptors, Kinds
<1>10. /\ fds' \in Seq(Descriptors)
       /\ held < fd_cap => Len(fds') = held + 1
       /\ ~(held < fd_cap) => Len(fds') = held
  <2>1. Append(fds, d) \in Seq(Descriptors) /\ Len(Append(fds, d)) = held + 1
    BY <1>4, <1>9
  <2>2. QED
    BY <1>1, <1>4, <2>1
<1>11. flagged' \in BOOLEAN /\ (flagged => flagged')
  BY <1>1 DEF IInv, Types
<1>12. Types'
  BY <1>1, <1>2, <1>10, <1>11 DEF IInv, Types
<1>13. RightsWait'
  <2>1. SUFFICES ASSUME NEW i \in 1..Len(control'), control'[i].kind = "rights"
                 PROVE  RightsIn(control'[i].data, message, Len(fds'), fd_cap, flagged', ctrunc)
    BY <1>1 DEF RightsWait
  <2>2. l > 1 /\ control'[i].data = Tail(c.data)
    BY <1>1, <1>2, <2>1 DEF TakenFrom, l
  <2>3. /\ n + 1 \in 0..message.fds
        /\ (n + 1) + (l - 1) <= message.fds
        /\ ctrunc \/ (n + 1) + (l - 1) = message.fds
    BY <1>4, <1>6, <1>7, <2>2
  <2>4. Len(fds') <= n + 1 /\ (Len(fds') < fd_cap \/ ~flagged' => n + 1 = Len(fds'))
    BY <1>1, <1>4, <1>6, <1>10
  <2>5. QED
    BY <1>7, <2>2, <2>3, <2>4 DEF RightsIn
<1>14. TokensWait'
  BY <1>1, <1>2 DEF IInv, TokensWait, TakenFrom
<1>15. HandedOut'
  <2>1. CASE held < fd_cap
    <3>1. n = held /\ held + 1 <= fd_cap /\ held + 1 <= message.fds
      BY <1>4, <1>6, <1>7, <2>1
    <3>2. fds = [i \in 1..held |-> Fd(message.id, "rights", i)]
      BY <1>8 DEF HandedOut, Fds
    <3>3. fds' = [i \in 1..(held + 1) |-> Fd(message.id, "rights", i)]
      <4>1. /\ Append(fds, d) = [i \in 1..(held + 1) |-> IF i = held + 1 THEN d ELSE fds[i]]
        BY <1>4, <1>9, AppendIs
      <4>2. \A i \in 1..(held + 1) :
              (IF i = held + 1 THEN d ELSE fds[i]) = Fd(message.id, "rights", i)
        BY <1>4, <1>7, <3>1, <3>2
      <4> HIDE DEF held
      <4>3. QED
        BY <1>1, <2>1, <4>1, <4>2
    <3>4. QED
      BY <1>1, <1>8, <1>10, <2>1, <3>1, <3>3 DEF HandedOut, Fds
  <2>2. CASE ~(held < fd_cap)
    BY <1>1, <1>8, <2>2 DEF HandedOut
  <2>3. QED
    BY <2>1, <2>2
<1>16. Owned'
  <2>1. SUFFICES ASSUME "pidfd" \notin Extras PROVE Owned'
    BY DEF Owned
  <2>2. Installed(control) = Installed(control') \cup {d} /\ d \notin Installed(control')
    BY <1>1, <2>1, TakeFdInstalled DEF c, d
  <2>3. /\ \A i \in 1..Len(control) : control[i].kind # "pidfd"
        /\ open = Range(fds) \cup ({token_fd} \ {NoFd}) \cup Installed(control)
    BY <2>1 DEF IInv, Owned
  <2>4. \A i \in 1..Len(control') : control'[i].kind # "pidfd"
    BY <1>1, <1>2, <2>3 DEF TakenFrom
  <2>5. d # token_fd
    BY <1>7, <1>8, <1>9 DEF HandedOut, Fd
  <2>6. CASE held < fd_cap
    <3>1. Range(fds') = Range(fds) \cup {d}
      <4>1. Append(fds, d) = [i \in 1..(held + 1) |-> IF i = held + 1 THEN d ELSE fds[i]]
        BY <1>4, <1>9, AppendIs
      <4>2. DOMAIN fds = 1..held /\ 1..held \subseteq 1..(held + 1) /\ held + 1 \in 1..(held + 1)
        BY <1>4
      <4>3. \A i \in 1..(held + 1) : i = held + 1 \/ i \in 1..held
        BY <1>4
      <4>4. \A i \in 1..held : i # held + 1
        BY <1>4
      <4> HIDE DEF held
      <4>5. QED
        BY <1>1, <2>6, <4>1, <4>2, <4>3, <4>4 DEF Range
    <3>2. QED
      BY <1>1, <2>2, <2>3, <2>4, <2>6, <3>1 DEF Owned
  <2>7. CASE ~(held < fd_cap)
    <3>1. d \notin Range(fds)
      <4>1. fds = [i \in 1..held |-> Fd(message.id, "rights", i)]
        BY <1>8 DEF HandedOut, Fds
      <4>2. \A i \in 1..held : i # n + 1
        BY <1>4, <1>6
      <4> HIDE DEF held
      <4>3. \A x \in Range(fds) : \E i \in 1..held : x = Fd(message.id, "rights", i)
        BY <4>1 DEF Range
      <4>4. QED
        BY <1>7, <4>2, <4>3 DEF Fd
    <3>2. QED
      BY <1>1, <2>2, <2>3, <2>4, <2>5, <2>7, <3>1 DEF Owned
  <2>8. QED
    BY <2>6, <2>7
<1>17. RightsDone'
  <2>1. SUFFICES ASSUME \A i \in 1..Len(control') : control'[i].kind # "rights", ~flagged', ~ctrunc
                 PROVE  Len(fds') = message.fds
    BY <1>1 DEF RightsDone
  <2>2. ~(l > 1)
    BY <1>1, <1>2, <2>1 DEF TakenFrom, l
  <2>3. held < fd_cap
    BY <1>1, <2>1
  <2>4. QED
    BY <1>4, <1>6, <1>7, <1>10, <2>1, <2>2, <2>3
<1>18. TokensDone'
  BY <1>1, <1>2 DEF IInv, TokensDone, TakenFrom
<1>19. QED
  BY <1>1, <1>2, <1>12, <1>13, <1>14, <1>15, <1>16, <1>17, <1>18 DEF IInv

-----------------------------------------------------------------------------
(* What recvmsg leaves in the control buffer. *)

Buffers == [room : Int, msgs : Seq(Cmsgs), cut : BOOLEAN]
Count(m, kind) == IF kind = "token" THEN m.tokens ELSE m.fds

\* What Put does to the buffer: nothing, cut, or one more message that lists a
\* prefix of the data, cut unless it is all of them.
LEMMA PutGives ==
  ASSUME NEW b \in Buffers, NEW kind \in Kinds, NEW data \in Seq(Descriptors), NEW n \in Nat
  PROVE  /\ Put(b, kind, data, n) \in Buffers
         /\ \/ n = 0 /\ Put(b, kind, data, n) = b
            \/ /\ Put(b, kind, data, n).msgs = b.msgs
               /\ Put(b, kind, data, n).cut
            \/ \E f \in 1..n, c \in Cmsgs :
                 /\ c = [kind |-> kind, data |-> SubSeq(data, 1, Least(f, Len(data)))]
                 /\ Put(b, kind, data, n).msgs = Append(b.msgs, c)
                 /\ Put(b, kind, data, n).cut <=> (b.cut \/ f < n)
<1> DEFINE fits == Fitting(b, n)
           room == IF fits = 0 THEN b.room ELSE b.room - Least(b.room, Space(fits))
           c == [kind |-> kind, data |-> SubSeq(data, 1, Least(fits, Len(data)))]
           msgs == IF fits = 0 THEN b.msgs ELSE Append(b.msgs, c)
           cut == b.cut \/ fits < n
<1>1. b.room \in Int /\ b.msgs \in Seq(Cmsgs) /\ b.cut \in BOOLEAN
  BY DEF Buffers
<1>2. fits \in 0..n
  BY <1>1 DEF Fitting, CmsgHeader, Least
<1>3. Put(b, kind, data, n) = IF n = 0 THEN b ELSE [room |-> room, msgs |-> msgs, cut |-> cut]
  BY Zenon DEF Put
<1> HIDE DEF fits
<1>4. room \in Int
  BY <1>1, <1>2 DEF Least, Space, Align, CmsgHeader
<1>5. Least(fits, Len(data)) \in 0..Len(data)
  BY <1>2 DEF Least
<1>6. SubSeq(data, 1, Least(fits, Len(data))) \in Seq(Descriptors)
  BY <1>5
<1>7. c \in Cmsgs
  BY <1>6 DEF Cmsgs
<1>8. cut \in BOOLEAN
  OBVIOUS
<1> HIDE DEF room, c, cut
<1>9. msgs \in Seq(Cmsgs)
  BY <1>1, <1>7
<1>10. Put(b, kind, data, n) \in Buffers
  BY <1>3, <1>4, <1>8, <1>9 DEF Buffers
<1>11. CASE n = 0
  BY <1>3, <1>10, <1>11
<1>12. CASE n # 0 /\ fits = 0
  <2>1. cut
    BY <1>2, <1>12 DEF cut
  <2>2. QED
    BY <1>3, <1>10, <1>12, <2>1
<1>13. CASE n # 0 /\ fits # 0
  <2>1. fits \in 1..n
    BY <1>2, <1>13
  <2>2. Put(b, kind, data, n).cut <=> (b.cut \/ fits < n)
    <3>1. Put(b, kind, data, n).cut = cut
      BY <1>3, <1>13
    <3>2. QED
      BY <3>1 DEF cut
  <2>3. Put(b, kind, data, n).msgs = Append(b.msgs, c)
    BY <1>3, <1>13
  <2>4. QED
    BY <1>7, <1>10, <2>1, <2>2, <2>3 DEF c
<1>14. QED
  BY <1>11, <1>12, <1>13

\* A buffer into which the kinds in done were put: one message per kind, which
\* lists the first descriptors of its kind, all of them unless the buffer is
\* cut; and none is missing unless the buffer is cut.
Lists(c, m, cut) ==
  /\ c.kind \in {"token", "rights"} =>
       /\ c.data # <<>>
       /\ From(c.data, m, c.kind, 0)
       /\ Len(c.data) <= Count(m, c.kind)
       /\ cut \/ Len(c.data) = Count(m, c.kind)
  /\ c.kind = "creds" => c.data = <<>>

Filled(b, m, done) ==
  /\ b \in Buffers
  /\ \A i \in 1..Len(b.msgs) : b.msgs[i].kind \in done /\ Lists(b.msgs[i], m, b.cut)
  /\ \A i, j \in 1..Len(b.msgs) : b.msgs[i].kind = b.msgs[j].kind => i = j
  /\ \A kind \in done \cap {"token", "rights"} :
       b.cut \/ Count(m, kind) = 0 \/ \E i \in 1..Len(b.msgs) : b.msgs[i].kind = kind

LEMMA ListsCut ==
  ASSUME NEW c, NEW m, NEW cut, Lists(c, m, cut)
  PROVE  Lists(c, m, TRUE)
BY DEF Lists

\* A message of one kind that lists the first f of its data.
LEMMA PrefixLists ==
  ASSUME NEW m \in Messages, NEW kind \in {"token", "rights"}, NEW f \in 1..Count(m, kind), NEW cut,
         cut <=> f < Count(m, kind),
         NEW c, c = [kind |-> kind, data |-> SubSeq(Fds(m.id, kind, Count(m, kind)), 1, f)]
  PROVE  Lists(c, m, cut)
<1> DEFINE n == Count(m, kind)
           q == Fds(m.id, kind, n)
<1>1. n \in Nat
  BY DEF Count, Messages
<1> HIDE DEF n
<1>2. \A i \in 1..f : q[i] = Fd(m.id, kind, i)
  BY <1>1 DEF Fds, n
<1> HIDE DEF q
<1>3. /\ Len(SubSeq(q, 1, f)) = f
      /\ \A i \in 1..f : SubSeq(q, 1, f)[i] = q[i]
  <2> DEFINE S == {q[i] : i \in 1..f}
  <2>1. f \in Int /\ 1 \in Int /\ 1 <= f
    BY <1>1 DEF n
  <2>2. \A i \in 1..f : q[i] \in S
    OBVIOUS
  <2> HIDE DEF S
  <2>3. /\ Len(SubSeq(q, 1, f)) = IF 1 <= f THEN f - 1 + 1 ELSE 0
        /\ \A i \in 1..f - 1 + 1 : SubSeq(q, 1, f)[i] = q[1 + i - 1]
    BY <2>1, <2>2, SubSeqProperties
  <2>4. QED
    BY <2>1, <2>3
<1>4. c.data = SubSeq(q, 1, f) /\ c.kind = kind
  BY DEF q, n
<1>5. c.data # <<>>
  <2>1. Len(<<>>) = 0
    OBVIOUS
  <2>2. c.data = <<>> => Len(c.data) = 0
    BY <2>1, Zenon
  <2>3. QED
    BY <1>1, <1>3, <1>4, <2>2 DEF n
<1>6. From(c.data, m, kind, 0)
  BY <1>1, <1>2, <1>3, <1>4 DEF From, n
<1>7. Len(c.data) <= n /\ (cut \/ Len(c.data) = n)
  BY <1>1, <1>3, <1>4 DEF n
<1>8. QED
  BY <1>4, <1>5, <1>6, <1>7 DEF Lists, n

LEMMA PutFills ==
  ASSUME NEW m \in Messages, NEW done \in SUBSET Kinds, NEW b, Filled(b, m, done),
         NEW kind \in Kinds \ done, NEW data \in Seq(Descriptors), NEW n \in Nat,
         kind \in {"token", "rights"} => /\ n = Count(m, kind)
                                         /\ data = Fds(m.id, kind, n),
         kind = "creds" => data = <<>>
  PROVE  Filled(Put(b, kind, data, n), m, done \cup {kind})
<1> DEFINE p == Put(b, kind, data, n)
<1>1. b \in Buffers
  BY DEF Filled
<1>2. /\ p \in Buffers
      /\ \/ n = 0 /\ p = b
         \/ p.msgs = b.msgs /\ p.cut
         \/ \E f \in 1..n, c \in Cmsgs :
              /\ c = [kind |-> kind, data |-> SubSeq(data, 1, Least(f, Len(data)))]
              /\ p.msgs = Append(b.msgs, c)
              /\ p.cut <=> (b.cut \/ f < n)
  BY <1>1, PutGives
<1> HIDE DEF p
<1>3. CASE n = 0 /\ p = b
  <2>1. kind \in {"token", "rights"} => Count(m, kind) = 0
    BY <1>3
  <2>2. QED
    BY <1>3, <2>1 DEF Filled, p
<1>4. CASE p.msgs = b.msgs /\ p.cut
  <2>1. \A i \in 1..Len(b.msgs) : b.msgs[i].kind \in done /\ Lists(b.msgs[i], m, TRUE)
    BY ListsCut DEF Filled
  <2>2. p.cut = TRUE
    BY <1>2, <1>4 DEF Buffers
  <2>3. QED
    BY <1>2, <1>4, <2>1, <2>2 DEF Filled, p
<1>5. CASE \E f \in 1..n, c \in Cmsgs :
             /\ c = [kind |-> kind, data |-> SubSeq(data, 1, Least(f, Len(data)))]
             /\ p.msgs = Append(b.msgs, c)
             /\ p.cut <=> (b.cut \/ f < n)
  <2>1. PICK f \in 1..n, c \in Cmsgs :
          /\ c = [kind |-> kind, data |-> SubSeq(data, 1, Least(f, Len(data)))]
          /\ p.msgs = Append(b.msgs, c)
          /\ p.cut <=> (b.cut \/ f < n)
    BY <1>5
  <2>2. Lists(c, m, p.cut)
    <3>1. CASE kind \in {"token", "rights"}
      <4>1. Len(data) = n
        BY <3>1 DEF Fds
      <4>2. Least(f, Len(data)) = f
        BY <4>1 DEF Least
      <4>3. Lists(c, m, f < n)
        BY <2>1, <3>1, <4>2, PrefixLists
      <4>4. QED
        BY <2>1, <4>3, ListsCut DEF Lists
    <3>2. CASE kind = "creds"
      <4>1. c.kind = "creds" /\ c.data = SubSeq(<<>>, 1, Least(f, Len(<<>>)))
        BY <2>1, <3>2
      <4>2. Least(f, Len(<<>>)) = 0
        BY DEF Least
      <4>3. SubSeq(<<>>, 1, 0) = <<>>
        BY SubSeqEmpty
      <4>4. QED
        BY <4>1, <4>2, <4>3 DEF Lists
    <3>3. CASE kind = "pidfd"
      BY <2>1, <3>3 DEF Lists
    <3>4. QED
      BY <3>1, <3>2, <3>3 DEF Kinds
  <2>3. \A i \in 1..Len(b.msgs) : b.msgs[i].kind \in done /\ Lists(b.msgs[i], m, p.cut)
    <3>1. SUFFICES ASSUME NEW i \in 1..Len(b.msgs) PROVE Lists(b.msgs[i], m, p.cut)
      BY DEF Filled
    <3>2. Lists(b.msgs[i], m, b.cut)
      BY DEF Filled
    <3>3. QED
      BY <2>1, <3>2 DEF Lists
  <2>4. /\ Len(b.msgs) \in Nat /\ b.msgs \in Seq(Cmsgs)
        /\ Len(p.msgs) = Len(b.msgs) + 1
        /\ p.msgs[Len(b.msgs) + 1] = c
        /\ \A i \in 1..Len(b.msgs) : p.msgs[i] = b.msgs[i]
    <3>1. b.msgs \in Seq(Cmsgs)
      BY <1>1 DEF Buffers
    <3>2. QED
      BY <2>1, <3>1
  <2>5. \A i \in 1..Len(p.msgs) : i = Len(b.msgs) + 1 \/ i \in 1..Len(b.msgs)
    BY <2>4
  <2>6. c.kind = kind
    BY <2>1
  <2>7. \A i \in 1..Len(p.msgs) : p.msgs[i].kind \in done \cup {kind} /\ Lists(p.msgs[i], m, p.cut)
    BY <2>2, <2>3, <2>4, <2>5, <2>6
  <2>8. \A i, j \in 1..Len(p.msgs) : p.msgs[i].kind = p.msgs[j].kind => i = j
    BY <2>3, <2>4, <2>5, <2>6 DEF Filled
  <2>9. \A k \in (done \cup {kind}) \cap {"token", "rights"} :
          p.cut \/ Count(m, k) = 0 \/ \E i \in 1..Len(p.msgs) : p.msgs[i].kind = k
    <3>1. Len(b.msgs) + 1 \in 1..Len(p.msgs) /\ p.msgs[Len(b.msgs) + 1].kind = kind
      BY <2>4, <2>6
    <3>2. \A i \in 1..Len(b.msgs) : i \in 1..Len(p.msgs)
      BY <2>4
    <3>3. QED
      BY <2>1, <2>4, <3>1, <3>2 DEF Filled
  <2>10. QED
    BY <1>2, <2>7, <2>8, <2>9 DEF Filled, p
<1>6. QED
  BY <1>2, <1>3, <1>4, <1>5

\* Whatever the capacity and the order, the buffer recvmsg leaves lists tokens
\* and descriptors from the first on, and a pidfd only where one was asked for.
LEMMA ControlFilled ==
  ASSUME NEW m \in Messages, NEW cap \in Nat, NEW extra \in {"none", "creds", "pidfd"},
         NEW tokenFirst \in BOOLEAN
  PROVE  \E done \in SUBSET Kinds :
           /\ Filled(ControlMessages(m, cap, extra, tokenFirst), m, done)
           /\ {"token", "rights"} \subseteq done
           /\ "pidfd" \in done => extra = "pidfd"
<1> DEFINE tokens == Fds(m.id, "token", m.tokens)
           rights == Fds(m.id, "rights", m.fds)
           empty == [room |-> ControlLen(cap), msgs |-> <<>>, cut |-> FALSE]
           creds == IF extra = "creds" THEN Put(empty, "creds", <<>>, 3) ELSE empty
           both == IF tokenFirst
                   THEN Put(Put(creds, "token", tokens, m.tokens), "rights", rights, m.fds)
                   ELSE Put(Put(creds, "rights", rights, m.fds), "token", tokens, m.tokens)
           pidfd == Fds(m.id, "pidfd", 1)
           first == IF extra = "creds" THEN {"creds"} ELSE {}
<1>1. m.id \in Nat /\ m.tokens \in Nat /\ m.fds \in Nat
  BY DEF Messages
<1>2. /\ tokens \in Seq(Descriptors)
      /\ rights \in Seq(Descriptors)
      /\ pidfd \in Seq(Descriptors)
  <2>1. ASSUME NEW kind \in Kinds, NEW n \in Nat PROVE Fds(m.id, kind, n) \in Seq(Descriptors)
    BY <1>1 DEF Fds, Fd, Descriptors
  <2>2. QED
    BY <1>1, <2>1 DEF Kinds
<1>3. Count(m, "token") = m.tokens /\ Count(m, "rights") = m.fds
  BY DEF Count
<1>4. Filled(empty, m, {})
  <2>1. ControlLen(cap) \in Int
    BY MessageAssumption DEF ControlLen, Space, Align, Least, CmsgHeader
  <2>2. empty \in Buffers
    <3>1. FALSE \in BOOLEAN
      OBVIOUS
    <3>2. QED
      BY <2>1, <3>1 DEF Buffers
  <2>3. Len(empty.msgs) = 0
    OBVIOUS
  <2>4. QED
    BY <2>2, <2>3 DEF Filled
<1> HIDE DEF empty
<1>5. Filled(creds, m, first)
  <2>1. Filled(Put(empty, "creds", <<>>, 3), m, {} \cup {"creds"})
    <3>1. <<>> \in Seq(Descriptors) /\ 3 \in Nat /\ {} \in SUBSET Kinds /\ "creds" \in Kinds \ {}
      BY DEF Kinds
    <3>2. QED
      BY <1>4, <3>1, PutFills
  <2>2. QED
    BY <1>4, <2>1
<1>6. first \in SUBSET Kinds /\ "token" \notin first /\ "rights" \notin first /\ "pidfd" \notin first
  BY DEF Kinds
<1> HIDE DEF creds, first, tokens, rights, pidfd
<1>7. \E done \in SUBSET Kinds :
        Filled(both, m, done) /\ {"token", "rights"} \subseteq done /\ "pidfd" \notin done
  <2>1. CASE tokenFirst
    <3>1. Filled(Put(creds, "token", tokens, m.tokens), m, first \cup {"token"})
      BY <1>1, <1>2, <1>3, <1>5, <1>6, PutFills DEF Kinds, tokens
    <3>2. /\ first \cup {"token"} \in SUBSET Kinds
          /\ "rights" \in Kinds \ (first \cup {"token"})
      BY <1>6 DEF Kinds
    <3>3. Filled(Put(Put(creds, "token", tokens, m.tokens), "rights", rights, m.fds), m,
                 (first \cup {"token"}) \cup {"rights"})
      BY <1>1, <1>2, <1>3, <3>1, <3>2, PutFills DEF rights
    <3>4. both = Put(Put(creds, "token", tokens, m.tokens), "rights", rights, m.fds)
      BY <2>1
    <3> HIDE DEF both
    <3>5. QED
      BY <1>6, <3>2, <3>3, <3>4 DEF Kinds
  <2>2. CASE ~tokenFirst
    <3>1. Filled(Put(creds, "rights", rights, m.fds), m, first \cup {"rights"})
      BY <1>1, <1>2, <1>3, <1>5, <1>6, PutFills DEF Kinds, rights
    <3>2. /\ first \cup {"rights"} \in SUBSET Kinds
          /\ "token" \in Kinds \ (first \cup {"rights"})
      BY <1>6 DEF Kinds
    <3>3. Filled(Put(Put(creds, "rights", rights, m.fds), "token", tokens, m.tokens), m,
                 (first \cup {"rights"}) \cup {"token"})
      BY <1>1, <1>2, <1>3, <3>1, <3>2, PutFills DEF tokens
    <3>4. both = Put(Put(creds, "rights", rights, m.fds), "token", tokens, m.tokens)
      BY <2>2
    <3> HIDE DEF both
    <3>5. QED
      BY <1>6, <3>2, <3>3, <3>4 DEF Kinds
  <2>3. QED
    BY <2>1, <2>2
<1>8. PICK done \in SUBSET Kinds :
        Filled(both, m, done) /\ {"token", "rights"} \subseteq done /\ "pidfd" \notin done
  BY <1>7
<1>9. ControlMessages(m, cap, extra, tokenFirst)
        = IF extra = "pidfd" THEN Put(both, "pidfd", pidfd, 1) ELSE both
  BY Zenon DEF ControlMessages, tokens, rights, empty, creds, pidfd
<1> HIDE DEF both
<1>10. Filled(Put(both, "pidfd", pidfd, 1), m, done \cup {"pidfd"})
  BY <1>2, <1>8, PutFills DEF Kinds
<1>11. QED
  BY <1>8, <1>9, <1>10 DEF Kinds

\* recvmsg starts the walk with nothing handed out and everything waiting.
LEMMA RecvKeeps ==
  ASSUME IInv, NEW cap \in Nat, NEW extra \in Extras, NEW tokenFirst \in BOOLEAN,
         RecvMessage(cap, extra, tokenFirst)
  PROVE  IInv'
<1> DEFINE m == Head(queue)
           b == ControlMessages(m, cap, extra, tokenFirst)
<1>1. /\ pc = "idle" /\ queue # <<>> /\ pc' = "walk"
      /\ control' = b.msgs /\ ctrunc' = b.cut /\ open' = open \cup Installed(b.msgs)
      /\ queue' = Tail(queue) /\ message' = m /\ fd_cap' = cap
      /\ token_fd' = NoFd /\ fds' = <<>> /\ flagged' = FALSE /\ sent' = sent
  BY DEF RecvMessage
<1>2. m \in Messages /\ Tail(queue) \in Seq(Messages)
  BY <1>1 DEF IInv, Types
<1>3. extra \in {"none", "creds", "pidfd"}
  BY MessageAssumption
<1>4. PICK done \in SUBSET Kinds :
        /\ Filled(b, m, done)
        /\ {"token", "rights"} \subseteq done
        /\ "pidfd" \in done => extra = "pidfd"
  BY <1>2, <1>3, ControlFilled
<1> HIDE DEF b, m
<1>5. b.msgs \in Seq(Cmsgs) /\ b.cut \in BOOLEAN
  BY <1>4 DEF Filled, Buffers
<1>6. /\ \A i \in 1..Len(b.msgs) : b.msgs[i].kind \in done /\ Lists(b.msgs[i], m, b.cut)
      /\ \A i, j \in 1..Len(b.msgs) : b.msgs[i].kind = b.msgs[j].kind => i = j
      /\ \A kind \in {"token", "rights"} :
           b.cut \/ Count(m, kind) = 0 \/ \E i \in 1..Len(b.msgs) : b.msgs[i].kind = kind
  BY <1>4 DEF Filled
<1>7. m.id \in Nat /\ m.tokens \in Nat /\ m.fds \in Nat
  BY <1>2 DEF Messages
<1>8. Count(m, "token") = m.tokens /\ Count(m, "rights") = m.fds
  BY DEF Count
<1>9. Len(<<>>) = 0 /\ <<>> \in Seq(Descriptors)
  OBVIOUS
<1>10. Types'
  <2>1. flagged' \in BOOLEAN /\ ctrunc' \in BOOLEAN
    BY <1>1, <1>5
  <2>2. QED
    BY <1>1, <1>2, <1>5, <1>9, <2>1 DEF IInv, Types
<1>11. OnePerKind'
  BY <1>1, <1>6 DEF OnePerKind, Lists
<1>12. RightsWait'
  <2>1. SUFFICES ASSUME NEW i \in 1..Len(b.msgs), b.msgs[i].kind = "rights"
                 PROVE  RightsIn(b.msgs[i].data, m, 0, cap, FALSE, b.cut)
    BY <1>1, <1>9 DEF RightsWait
  <2>2. Lists(b.msgs[i], m, b.cut)
    BY <1>6
  <2>3. b.msgs[i].data \in Seq(Descriptors)
    <3>1. b.msgs[i] \in Cmsgs
      BY <1>5
    <3>2. QED
      BY <3>1 DEF Cmsgs
  <2>4. QED
    BY <1>7, <1>8, <2>1, <2>2, <2>3 DEF Lists, RightsIn
<1>13. TokensWait'
  <2>1. SUFFICES ASSUME NEW i \in 1..Len(b.msgs), b.msgs[i].kind = "token"
                 PROVE  TokensIn(b.msgs[i].data, m, NoFd)
    BY <1>1 DEF TokensWait
  <2>2. Lists(b.msgs[i], m, b.cut)
    BY <1>6
  <2>3. b.msgs[i].data \in Seq(Descriptors)
    <3>1. b.msgs[i] \in Cmsgs
      BY <1>5
    <3>2. QED
      BY <3>1 DEF Cmsgs
  <2>4. QED
    BY <1>7, <1>8, <2>1, <2>2, <2>3 DEF Lists, TokensIn
<1>14. Owned'
  <2>1. SUFFICES ASSUME "pidfd" \notin Extras PROVE Owned'
    BY DEF Owned
  <2>2. open = Range(fds) \cup ({token_fd} \ {NoFd}) \cup Installed(control)
    BY <2>1 DEF IInv, Owned
  <2>3. fds = <<>> /\ token_fd = NoFd /\ control = <<>>
    BY <1>1 DEF IInv
  <2>4. Range(<<>>) = {} /\ Installed(<<>>) = {}
    BY DEF Range, Installed
  <2>5. open = {}
    BY <2>2, <2>3, <2>4
  <2>6. "pidfd" \notin done
    BY <1>4, <2>1
  <2>7. QED
    BY <1>1, <1>6, <2>4, <2>5, <2>6 DEF Owned
<1>15. RightsDone' /\ TokensDone'
  BY <1>1, <1>6, <1>8, <1>9 DEF RightsDone, TokensDone
<1>16. HandedOut'
  <2>1. Fds(m.id, "rights", 0) = <<>>
    BY DEF Fds
  <2>2. QED
    BY <1>1, <1>7, <1>9, <2>1 DEF HandedOut
<1>17. QED
  BY <1>1, <1>10, <1>11, <1>12, <1>13, <1>14, <1>15, <1>16 DEF IInv

-----------------------------------------------------------------------------
(* The inductive invariant and what it gives. *)

LEMMA IInvStep == IInv /\ [MessageNext]_messageVars => IInv'
<1> SUFFICES ASSUME IInv, [MessageNext]_messageVars PROVE IInv'
  OBVIOUS
<1>1. ASSUME NEW hasToken \in BOOLEAN, NEW n \in 0..MaxFds, SendMessage(hasToken, n)
      PROVE  IInv'
  <2>1. (IF hasToken THEN 1 ELSE 0) \in Nat
    OBVIOUS
  <2>2. n \in Nat
    BY MessageAssumption
  <2>3. QED
    BY <1>1, <2>1, <2>2, QueueKeeps DEF SendMessage
<1>2. ASSUME NEW tokens \in 0..2, NEW n \in 0..MaxFds, ForeignMessage(tokens, n)
      PROVE  IInv'
  <2>1. tokens \in Nat /\ n \in Nat
    BY MessageAssumption
  <2>2. QED
    BY <1>2, <2>1, QueueKeeps DEF ForeignMessage
<1>3. ASSUME NEW cap \in 0..MaxCap, NEW extra \in Extras, NEW tokenFirst \in BOOLEAN,
             RecvMessage(cap, extra, tokenFirst)
      PROVE  IInv'
  <2>1. cap \in Nat
    BY MessageAssumption
  <2>2. QED
    BY <1>3, <2>1, RecvKeeps
<1>4. CASE DeliverToken
  BY <1>4, TokenKeeps
<1>5. CASE DeliverRights
  BY <1>5, RightsKeeps
<1>6. CASE DeliverOther
  BY <1>6, OtherKeeps
<1>7. CASE Delivered
  BY <1>7, DeliveredKeeps
<1>8. CASE Release
  BY <1>8, ReleaseKeeps
<1>9. CASE UNCHANGED messageVars
  BY <1>9 DEF messageVars, out, IInv, Types, OnePerKind, RightsWait, TokensWait, Owned,
              RightsDone, TokensDone, HandedOut
<1>10. QED
  BY <1>1, <1>2, <1>3, <1>4, <1>5, <1>6, <1>7, <1>8, <1>9 DEF MessageNext

LEMMA Inductive == MessageSpec => []IInv
BY IInvInit, IInvStep, PTL DEF MessageSpec

\* On a socket that asked for no SCM_PIDFD, deliver_control leaks nothing: when
\* peios_socket_recv_message has returned exactly the caller's descriptors are
\* open, and none once the caller has closed them. The hypothesis is needed: a
\* pidfd is passed over and stays open.
THEOREM NoDescriptorLeaks ==
  ASSUME "pidfd" \notin Extras
  PROVE  MessageSpec => []NothingLeaks
<1>1. IInv => NothingLeaks
  <2>1. Range(<<>>) = {} /\ Installed(<<>>) = {}
    BY DEF Range, Installed
  <2>2. QED
    BY <2>1 DEF IInv, Owned, NothingLeaks
<1>2. QED
  BY <1>1, Inductive, PTL

\* Whatever else the socket asked for: when peios_socket_recv_message returns
\* without the truncation flag, the caller has the token and every descriptor
\* that was sent, whoever closed the others, the kernel or the walk.
THEOREM MissingIsFlagged == MessageSpec => []CompleteUnlessFlagged
<1>1. IInv => CompleteUnlessFlagged
  <2>1. SUFFICES ASSUME IInv, pc = "returned", ~flagged
                 PROVE  /\ fds = Fds(message.id, "rights", message.fds)
                        /\ token_fd = IF message.tokens = 0 THEN NoFd
                                      ELSE Fd(message.id, "token", 1)
    BY DEF CompleteUnlessFlagged
  <2>2. control = <<>> /\ RightsDone /\ TokensDone /\ HandedOut /\ ~ctrunc
    BY <2>1 DEF IInv
  <2>3. Len(control) = 0
    BY <2>2
  <2>4. Len(fds) = message.fds /\ (token_fd = NoFd <=> message.tokens = 0)
    BY <2>1, <2>2, <2>3 DEF RightsDone, TokensDone
  <2>5. QED
    BY <2>2, <2>4 DEF HandedOut
<1>2. QED
  BY <1>1, Inductive, PTL

\* At every step of deliver_control the caller's array holds a prefix of what
\* was sent, and never more than its capacity, although the padding of the
\* control buffer lets the kernel deliver more.
THEOREM DeliveredInOrder == MessageSpec => []InOrder
<1>1. IInv => InOrder
  BY DEF IInv, HandedOut, InOrder
<1>2. QED
  BY <1>1, Inductive, PTL

=============================================================================
