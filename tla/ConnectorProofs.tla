-------------------------- MODULE ConnectorProofs ---------------------------
(***************************************************************************)
(* What holds of a connection for every size of the buffers, of the        *)
(* kernel's and of the commands, and every number of commands sent ahead.  *)
(***************************************************************************)
EXTENDS Connector, SequenceTheorems, FiniteSetTheorems, TLAPS

(* The bytes of s are those of the stream after the k-th. *)
From(s, k) == \A i \in 1 .. Len(s) : s[i] = k + i

(* What is still to be read and parsed starts with a whole command, and    *)
(* nothing is missing in it.                                               *)
InStream ==
  pc \notin {"closed", "freed"} =>
    \E c \in 0 .. NCmds :
      /\ From(recv_buf, EndOf[c])
      /\ From(wire_in, EndOf[c] + Len(recv_buf))
      /\ nsent = EndOf[c] + Len(recv_buf) + Len(wire_in)

(* The mask and the buffers agree, wherever the code stands. *)
MaskAgrees ==
  /\ pc = "new" => recv_buf = <<>> /\ send_buf = <<>>
  /\ pc \in {"idle", "fired", "do", "send"} =>
       (watch = "write" <=> send_buf # <<>>) /\ watch \in {"read", "write"}
  /\ pc = "remain" => watch = "write"
  /\ pc # "send" => out = <<>>

RoomKept ==
  pc \in {"idle", "fired", "remain"} => Len(recv_buf) < BuffSize

ConnInv == TypeOK /\ InStream /\ MaskAgrees /\ RepliesFit /\ RoomKept

-----------------------------------------------------------------------------
(* Sequences and commands *)

(* The two parts of a sequence cut after n. *)
LEMMA CutFacts ==
  ASSUME NEW s \in Seq(Nat), NEW n \in 0 .. Len(s)
  PROVE  /\ SubSeq(s, 1, n) \in Seq(Nat)
         /\ Len(SubSeq(s, 1, n)) = n
         /\ \A i \in 1 .. n : SubSeq(s, 1, n)[i] = s[i]
         /\ SubSeq(s, n + 1, Len(s)) \in Seq(Nat)
         /\ Len(SubSeq(s, n + 1, Len(s))) = Len(s) - n
         /\ \A i \in 1 .. Len(s) - n : SubSeq(s, n + 1, Len(s))[i] = s[n + i]
  <1>1. Len(s) \in Nat /\ \A i \in 1 .. Len(s) : s[i] \in Nat
    OBVIOUS
  <1>2. /\ SubSeq(s, 1, n) \in Seq(Nat)
        /\ Len(SubSeq(s, 1, n)) = IF 1 <= n THEN n - 1 + 1 ELSE 0
        /\ \A i \in 1 .. n - 1 + 1 : SubSeq(s, 1, n)[i] = s[1 + i - 1]
    BY <1>1, SubSeqProperties
  <1>3. /\ SubSeq(s, n + 1, Len(s)) \in Seq(Nat)
        /\ Len(SubSeq(s, n + 1, Len(s))) =
             IF n + 1 <= Len(s) THEN Len(s) - (n + 1) + 1 ELSE 0
        /\ \A i \in 1 .. Len(s) - (n + 1) + 1 :
             SubSeq(s, n + 1, Len(s))[i] = s[n + 1 + i - 1]
    <2>1. n + 1 \in Int /\ Len(s) \in Int /\ \A i \in n + 1 .. Len(s) : s[i] \in Nat
      BY <1>1
    <2> QED BY <2>1, SubSeqProperties
  <1>4. \A i \in 1 .. Len(s) - n : i \in 1 .. Len(s) - (n + 1) + 1 /\ n + 1 + i - 1 = n + i
    BY <1>1
  <1>5. \A i \in 1 .. n : i \in 1 .. n - 1 + 1 /\ 1 + i - 1 = i
    BY <1>1
  <1>6. Len(SubSeq(s, 1, n)) = n /\ Len(SubSeq(s, n + 1, Len(s))) = Len(s) - n
    BY <1>1, <1>2, <1>3
  <1> QED BY <1>2, <1>3, <1>4, <1>5, <1>6

(* Cutting a piece of the stream leaves two pieces of it. *)
LEMMA CutStream ==
  ASSUME NEW s \in Seq(Nat), NEW n \in 0 .. Len(s), NEW k \in Nat, From(s, k)
  PROVE  From(SubSeq(s, 1, n), k) /\ From(SubSeq(s, n + 1, Len(s)), k + n)
  BY CutFacts DEF From

(* Two adjacent pieces of the stream make one. *)
LEMMA JoinStream ==
  ASSUME NEW s \in Seq(Nat), NEW t \in Seq(Nat), NEW k \in Nat,
         From(s, k), From(t, k + Len(s))
  PROVE  From(s \o t, k)
  <1>1. /\ Len(s \o t) = Len(s) + Len(t)
        /\ \A i \in 1 .. Len(s) + Len(t) :
             (s \o t)[i] = IF i <= Len(s) THEN s[i] ELSE t[i - Len(s)]
    BY ConcatProperties
  <1>2. ASSUME NEW i \in 1 .. Len(s) + Len(t) PROVE (s \o t)[i] = k + i
    <2>1. CASE i <= Len(s)
      BY <1>1, <2>1 DEF From
    <2>2. CASE i > Len(s)
      <3>1. i - Len(s) \in 1 .. Len(t)
        BY <2>2
      <3>2. t[i - Len(s)] = k + Len(s) + (i - Len(s))
        BY <3>1 DEF From
      <3> QED BY <1>1, <2>2, <3>2
    <2> QED BY <2>1, <2>2
  <1> QED BY <1>1, <1>2 DEF From

(* The header is the one of the command that starts there. *)
LEMMA HeaderOfNext ==
  ASSUME NEW c \in 0 .. NCmds - 1
  PROVE  /\ LenOfCmdAt(EndOf[c] + 1) = EndOf[c + 1] - EndOf[c]
         /\ EndOf[c] \in Nat /\ EndOf[c + 1] \in Nat /\ EndOf[c] < EndOf[c + 1]
  <1>1. /\ NCmds \in Nat
        /\ \A d \in 0 .. NCmds : EndOf[d] \in Nat
        /\ \A d, e \in 0 .. NCmds : d < e => EndOf[d] < EndOf[e]
    BY ConnectorAssumption
  <1>2. c + 1 \in Cmds /\ EndOf[(c + 1) - 1] + 1 = EndOf[c] + 1
    BY <1>1 DEF Cmds
  <1>3. ASSUME NEW d \in Cmds, EndOf[d - 1] + 1 = EndOf[c] + 1 PROVE d = c + 1
    <2>1. d - 1 \in 0 .. NCmds /\ c \in 0 .. NCmds
      BY <1>1 DEF Cmds
    <2>2. EndOf[d - 1] = EndOf[c]
      BY <1>1, <1>3, <2>1
    <2>3. ~ (d - 1 < c) /\ ~ (c < d - 1)
      <3>1. EndOf[c] \in Nat /\ EndOf[d - 1] \in Nat
        BY <1>1, <2>1
      <3> QED BY <1>1, <2>1, <2>2, <3>1
    <2> QED BY <2>1, <2>3 DEF Cmds
  <1>4. (CHOOSE d \in Cmds : EndOf[d - 1] + 1 = EndOf[c] + 1) = c + 1
    BY <1>2, <1>3
  <1>5. LenOfCmdAt(EndOf[c] + 1) = EndOf[c + 1] - EndOf[(c + 1) - 1]
    BY <1>4 DEF LenOfCmdAt
  <1>6. (c + 1) - 1 = c /\ c \in 0 .. NCmds /\ c + 1 \in 0 .. NCmds /\ c < c + 1
    BY <1>1
  <1> QED BY <1>1, <1>5, <1>6

(* Cmd::Parse takes a whole command or nothing; it asks for more only      *)
(* while the command is not there and the buffer is not full.              *)
LEMMA ParseFacts ==
  ASSUME NEW c \in 0 .. NCmds - 1, NEW buf \in Seq(Nat), buf # <<>>,
         Head(buf) = EndOf[c] + 1
  PROVE  /\ Parse(buf) \in Int
         /\ Parse(buf) > 0 => /\ Parse(buf) = EndOf[c + 1] - EndOf[c]
                              /\ Parse(buf) <= Len(buf)
         /\ Parse(buf) = 0 => Len(buf) < BuffSize
  <1> DEFINE l == EndOf[c + 1] - EndOf[c]
  <1>1. LenOfCmdAt(Head(buf)) = l /\ l \in Nat /\ l > 0
    BY HeaderOfNext
  <1>2. {HeadLen, MaxCmdLen, BuffSize} \subseteq Nat /\ HeadLen > 0
        /\ HeadLen <= MaxCmdLen /\ MaxCmdLen <= BuffSize /\ Len(buf) \in Nat
    BY ConnectorAssumption
  <1> HIDE DEF l
  <1>3. Parse(buf) =
          CASE Len(buf) < HeadLen -> 0
            [] Len(buf) >= HeadLen /\ (l > MaxCmdLen \/ l < HeadLen) -> -1
            [] Len(buf) >= HeadLen /\ l \in HeadLen .. MaxCmdLen ->
                 IF l > Len(buf) THEN 0 ELSE l
    BY <1>1 DEF Parse
  <1>4. CASE Len(buf) < HeadLen
    BY <1>2, <1>3, <1>4
  <1>5. CASE Len(buf) >= HeadLen /\ (l > MaxCmdLen \/ l < HeadLen)
    BY <1>1, <1>2, <1>3, <1>5
  <1>6. CASE Len(buf) >= HeadLen /\ l \in HeadLen .. MaxCmdLen
    <2>1. Parse(buf) = IF l > Len(buf) THEN 0 ELSE l
      BY <1>1, <1>2, <1>3, <1>6
    <2> QED BY <1>1, <1>2, <1>6, <2>1 DEF l
  <1> QED BY <1>1, <1>2, <1>4, <1>5, <1>6

-----------------------------------------------------------------------------
(* The inductive invariant *)

(* The constants, as the steps below use them. *)
LEMMA Sizes ==
  /\ {NCmds, BuffSize, SockRecv, SockSend} \subseteq Nat
  /\ BuffSize > 0 /\ SockRecv > 0 /\ SockSend > 0
  /\ \A c \in 0 .. NCmds : EndOf[c] \in Nat
  /\ \A c \in 0 .. NCmds : EndOf[c] <= EndOf[NCmds]
  <1>1. /\ {NCmds, BuffSize, SockRecv, SockSend} \subseteq Nat \ {0}
        /\ \A c \in 0 .. NCmds : EndOf[c] \in Nat
        /\ \A c, d \in 0 .. NCmds : c < d => EndOf[c] < EndOf[d]
    BY ConnectorAssumption
  <1>2. ASSUME NEW c \in 0 .. NCmds PROVE EndOf[c] <= EndOf[NCmds]
    <2>1. NCmds \in 0 .. NCmds /\ EndOf[c] \in Nat /\ EndOf[NCmds] \in Nat
      BY <1>1
    <2>2. CASE c = NCmds
      BY <2>1, <2>2
    <2>3. CASE c < NCmds
      <3>1. EndOf[c] < EndOf[NCmds]
        BY <1>1, <2>1, <2>3
      <3> QED BY <2>1, <3>1
    <2> QED BY <1>1, <2>2, <2>3
  <1> QED BY <1>1, <1>2

(* The first state satisfies it. *)
LEMMA ConnInitially == Init => ConnInv
  <1> SUFFICES ASSUME Init PROVE ConnInv
    OBVIOUS
  <1>1. /\ {NCmds, BuffSize, SockRecv, SockSend} \subseteq Nat \ {0}
        /\ EndOf \in [0 .. NCmds -> Nat] /\ EndOf[0] = 0
    BY ConnectorAssumption
  <1>2. TypeOK
    <2>1. 0 \in 0 .. EndOf[NCmds]
      BY <1>1, Sizes
    <2>2. /\ <<>> \in Seq(Nat)
          /\ Len(<<>>) <= SockRecv /\ Len(<<>>) <= SockSend /\ Len(<<>>) <= BuffSize
      BY Sizes
    <2> QED BY <2>1, <2>2 DEF Init, TypeOK
  <1>3. InStream
    <2>1. 0 \in 0 .. NCmds /\ Len(<<>>) = 0
      BY <1>1
    <2>2. From(recv_buf, EndOf[0]) /\ From(wire_in, EndOf[0] + Len(recv_buf))
      BY <2>1 DEF From, Init
    <2>3. nsent = EndOf[0] + Len(recv_buf) + Len(wire_in)
      BY <1>1, <2>1 DEF Init
    <2> QED BY <2>1, <2>2, <2>3 DEF InStream
  <1>4. MaskAgrees /\ RepliesFit /\ RoomKept
    BY DEF Init, MaskAgrees, RepliesFit, RoomKept
  <1> QED BY <1>2, <1>3, <1>4 DEF ConnInv

(* The peer: bytes are added at the end of the stream. *)
LEMMA PeerSendKeeps == ConnInv /\ PeerSend => ConnInv'
  <1> SUFFICES ASSUME ConnInv, PeerSend PROVE ConnInv'
    OBVIOUS
  <1> USE DEF ConnInv
  <1>1. wire_in \in Seq(Nat) /\ recv_buf \in Seq(Nat) /\ nsent \in Nat
    BY Sizes DEF TypeOK
  <1>2. /\ wire_in' \in Seq(Nat)
        /\ Len(wire_in') = Len(wire_in) + 1
        /\ \A i \in 1 .. Len(wire_in) : wire_in'[i] = wire_in[i]
        /\ wire_in'[Len(wire_in) + 1] = nsent + 1
    BY <1>1, AppendProperties DEF PeerSend
  <1>0. nsent' = nsent + 1 /\ recv_buf' = recv_buf /\ pc' = pc
    BY DEF PeerSend, bufs
  <1>3. TypeOK'
    <2>1. nsent' \in 0 .. EndOf[NCmds]
      <3>1. PICK c \in Cmds : nsent < EndOf[c]
        BY DEF PeerSend
      <3>2. c \in 0 .. NCmds /\ NCmds \in 0 .. NCmds
        BY Sizes DEF Cmds
      <3>3. EndOf[c] \in Nat /\ EndOf[NCmds] \in Nat /\ EndOf[c] <= EndOf[NCmds]
        BY Sizes, <3>2
      <3> QED BY <1>1, <3>1, <3>3 DEF PeerSend
    <2>2. Len(wire_in') <= SockRecv
      BY <1>1, <1>2, Sizes DEF PeerSend
    <2>3. armed' \in BOOLEAN
      BY DEF PeerSend, TypeOK
    <2> QED BY <1>2, <2>1, <2>2, <2>3 DEF PeerSend, TypeOK, bufs
  <1>4. InStream'
    <2>1. PICK c \in 0 .. NCmds :
            /\ From(recv_buf, EndOf[c])
            /\ From(wire_in, EndOf[c] + Len(recv_buf))
            /\ nsent = EndOf[c] + Len(recv_buf) + Len(wire_in)
      BY DEF PeerSend, InStream
    <2>2. EndOf[c] \in Nat /\ Len(recv_buf) \in Nat /\ Len(wire_in) \in Nat
      BY <1>1, Sizes
    <2> DEFINE k == EndOf[c] + Len(recv_buf)
    <2>3. ASSUME NEW i \in 1 .. Len(wire_in') PROVE wire_in'[i] = k + i
      <3>1. CASE i \in 1 .. Len(wire_in)
        BY <1>2, <2>1, <3>1 DEF From
      <3>2. CASE i = Len(wire_in) + 1
        <4>1. wire_in'[i] = nsent + 1
          BY <1>2, <3>2
        <4>2. nsent + 1 = k + (Len(wire_in) + 1)
          BY <2>1, <2>2
        <4> QED BY <3>2, <4>1, <4>2
      <3> QED BY <1>2, <2>2, <2>3, <3>1, <3>2
    <2>4. nsent' = k + Len(wire_in')
      BY <1>0, <1>2, <2>1, <2>2
    <2>5. From(wire_in', EndOf[c] + Len(recv_buf'))
      BY <1>0, <2>3 DEF From
    <2>6. From(recv_buf', EndOf[c])
      BY <1>0, <2>1
    <2> QED BY <1>0, <2>4, <2>5, <2>6 DEF InStream, From
  <1>5. MaskAgrees' /\ RepliesFit' /\ RoomKept'
    BY DEF PeerSend, MaskAgrees, RepliesFit, RoomKept, bufs
  <1> QED BY <1>3, <1>4, <1>5

(* What happens to the bytes on their way back, to the readiness and to    *)
(* the peer's end does not touch the rest.                                 *)
LEMMA RestOfPeerKeeps ==
  ConnInv /\ (PeerRecv \/ PeerShut \/ PeerReset \/ AtRest) => ConnInv'
  <1> SUFFICES ASSUME ConnInv, PeerRecv \/ PeerShut \/ PeerReset \/ AtRest
               PROVE  ConnInv'
    OBVIOUS
  <1> USE DEF ConnInv
  <1>1. UNCHANGED <<nsent, wire_in, watch, fired, bufs, pc>>
    BY DEF PeerRecv, PeerShut, PeerReset, AtRest, vars, wires, peervars, epoll
  <1>2. TypeOK'
    <2>1. CASE PeerRecv
      <3>1. Head(wire_out) \in Nat /\ Tail(wire_out) \in Seq(Nat)
            /\ Len(Tail(wire_out)) = Len(wire_out) - 1
        BY <2>1, HeadTailProperties DEF PeerRecv, TypeOK
      <3>2. got' \in Seq(Nat)
        BY <2>1, <3>1, AppendProperties DEF PeerRecv, TypeOK
      <3>3. wire_out' \in Seq(Nat) /\ Len(wire_out') <= SockSend
        BY <2>1, <3>1, Sizes DEF PeerRecv, TypeOK
      <3>4. armed' \in BOOLEAN
        BY <2>1 DEF PeerRecv, TypeOK
      <3> QED BY <1>1, <2>1, <3>2, <3>3, <3>4 DEF PeerRecv, TypeOK, bufs
    <2>2. CASE PeerShut
      BY <2>2 DEF PeerShut, TypeOK, bufs, wires
    <2>3. CASE PeerReset
      <3>1. <<>> \in Seq(Nat) /\ Len(<<>>) <= SockSend
        BY Sizes
      <3> QED BY <2>3, <3>1 DEF PeerReset, TypeOK, bufs
    <2>4. CASE AtRest
      BY <2>4 DEF AtRest, vars, peervars, wires, epoll, bufs, TypeOK
    <2> QED BY <2>1, <2>2, <2>3, <2>4
  <1>3. InStream' /\ MaskAgrees' /\ RepliesFit' /\ RoomKept'
    BY <1>1 DEF InStream, MaskAgrees, RepliesFit, RoomKept, bufs, From
  <1> QED BY <1>2, <1>3

(* A connection that is closed keeps nothing. *)
LEMMA CloseKeeps ==
  ASSUME ConnInv, NEW to \in {"closed", "freed"}, CloseConn(to)
  PROVE  ConnInv'
  <1>1. <<>> \in Seq(Nat) /\ Len(<<>>) = 0
    OBVIOUS
  <1>2. /\ UNCHANGED <<nsent, got, peer, wire_in, wire_out>>
        /\ watch' = "none" /\ armed' = FALSE /\ fired' = {}
        /\ recv_buf' = <<>> /\ send_buf' = <<>> /\ out' = <<>>
        /\ pc' = to
    BY DEF CloseConn, peervars, wires
  <1>3. TypeOK'
    <2>1. /\ recv_buf' \in Seq(Nat) /\ Len(recv_buf') <= BuffSize
          /\ send_buf' \in Seq(Nat) /\ Len(send_buf') <= BuffSize
          /\ out' \in Seq(Nat)
      BY <1>1, <1>2, Sizes
    <2> QED BY <1>2, <2>1 DEF ConnInv, TypeOK
  <1>4. InStream' /\ MaskAgrees' /\ RepliesFit' /\ RoomKept'
    BY <1>2 DEF InStream, MaskAgrees, RepliesFit, RoomKept
  <1> QED BY <1>3, <1>4 DEF ConnInv

-----------------------------------------------------------------------------
(* The connector's steps *)

(* Waiting changes only what is known of the socket. *)
LEMMA WaitKeeps == ConnInv /\ (BeginRecv \/ WaitEvent \/ OnWriteRemain) => ConnInv'
  <1> SUFFICES ASSUME ConnInv, BeginRecv \/ WaitEvent \/ OnWriteRemain PROVE ConnInv'
    OBVIOUS
  <1> USE DEF ConnInv
  <1>1. CASE BeginRecv
    <2>1. /\ UNCHANGED <<nsent, got, peer, wire_in, wire_out, fired, recv_buf, send_buf, out>>
          /\ pc = "new" /\ pc' = "idle" /\ watch' = "read" /\ armed' \in BOOLEAN
      BY <1>1 DEF BeginRecv, Watch, peervars, wires, bufs, TypeOK
    <2>2. Len(recv_buf) = 0 /\ send_buf = <<>>
      BY <2>1 DEF MaskAgrees
    <2>3. TypeOK'
      BY <2>1 DEF TypeOK
    <2>4. InStream' /\ MaskAgrees' /\ RepliesFit' /\ RoomKept'
      BY <2>1, <2>2, Sizes DEF InStream, MaskAgrees, RepliesFit, RoomKept, From
    <2> QED BY <2>3, <2>4
  <1>2. CASE WaitEvent
    <2>1. /\ UNCHANGED <<nsent, got, peer, wire_in, wire_out, watch, recv_buf, send_buf, out>>
          /\ pc = "idle" /\ pc' \in {"idle", "fired"}
          /\ armed' = FALSE /\ fired' = Readiness(watch)
      BY <1>2 DEF WaitEvent, peervars, wires, bufs
    <2>2. Readiness(watch) \subseteq {"in", "out", "rdhup", "hup", "err"}
      BY DEF Readiness
    <2>3. TypeOK'
      BY <2>1, <2>2 DEF TypeOK
    <2>4. InStream' /\ MaskAgrees' /\ RepliesFit' /\ RoomKept'
      BY <2>1 DEF InStream, MaskAgrees, RepliesFit, RoomKept, From
    <2> QED BY <2>3, <2>4
  <1>3. CASE OnWriteRemain
    <2>1. CASE MaskIsBad /\ CloseConn("closed")
      BY <2>1, CloseKeeps
    <2>2. CASE ~ (MaskIsBad /\ CloseConn("closed"))
      <3>1. /\ UNCHANGED <<nsent, got, peer, wire_in, wire_out, armed, watch,
                            recv_buf, send_buf, out>>
            /\ pc = "fired" /\ watch = "write" /\ pc' = "remain" /\ fired' = {}
        BY <1>3, <2>2 DEF OnWriteRemain, peervars, wires, bufs
      <3>2. TypeOK'
        BY <3>1 DEF TypeOK
      <3>3. InStream' /\ MaskAgrees' /\ RepliesFit' /\ RoomKept'
        BY <3>1 DEF InStream, MaskAgrees, RepliesFit, RoomKept, From
      <3> QED BY <3>2, <3>3
    <2> QED BY <2>1, <2>2
  <1> QED BY <1>1, <1>2, <1>3

(* OnRead takes the next piece of the stream, and only when there is       *)
(* nothing left to send: that is why every reply will fit.                 *)
LEMMA OnReadKeeps == ConnInv /\ OnRead => ConnInv'
  <1> SUFFICES ASSUME ConnInv, OnRead PROVE ConnInv'
    OBVIOUS
  <1> USE DEF ConnInv
  <1> DEFINE room == BuffSize - Len(recv_buf)
             n    == IF Len(wire_in) < room THEN Len(wire_in) ELSE room
             took == SubSeq(wire_in, 1, n)
             left == SubSeq(wire_in, n + 1, Len(wire_in))
  <1>1. CASE CloseConn("closed")
    BY <1>1, CloseKeeps
  <1>2. CASE ~ CloseConn("closed")
    <2>1. /\ UNCHANGED <<nsent, got, peer, wire_out, armed, watch, send_buf, out>>
          /\ pc = "fired" /\ watch = "read" /\ pc' = "do" /\ fired' = {}
          /\ recv_buf' = recv_buf \o took /\ wire_in' = left
      BY <1>2 DEF OnRead, NRead, Room, peervars
    <2>2. /\ recv_buf \in Seq(Nat) /\ wire_in \in Seq(Nat)
          /\ Len(recv_buf) \in Nat /\ Len(wire_in) \in Nat /\ BuffSize \in Nat
          /\ Len(recv_buf) < BuffSize /\ Len(wire_in) <= SockRecv /\ SockRecv \in Nat
      <3>1. recv_buf \in Seq(Nat) /\ wire_in \in Seq(Nat) /\ Len(wire_in) <= SockRecv
        BY DEF TypeOK
      <3>2. Len(recv_buf) < BuffSize
        BY <2>1 DEF RoomKept
      <3> QED BY <3>1, <3>2, Sizes
    <2>3. n \in 0 .. Len(wire_in) /\ n <= room /\ room \in Nat
      BY <2>2
    <2> HIDE DEF n, room
    <2>4. /\ took \in Seq(Nat) /\ Len(took) = n
          /\ left \in Seq(Nat) /\ Len(left) = Len(wire_in) - n
      BY <2>2, <2>3, CutFacts
    <2>5. recv_buf' \in Seq(Nat) /\ Len(recv_buf') = Len(recv_buf) + n
      BY <2>1, <2>2, <2>4, ConcatProperties
    <2>6. Len(recv_buf') <= BuffSize /\ Len(wire_in') <= SockRecv
      BY <2>1, <2>2, <2>3, <2>4, <2>5 DEF room
    <2>7. TypeOK'
      BY <2>1, <2>4, <2>5, <2>6 DEF TypeOK
    <2>8. InStream'
      <3>1. PICK c \in 0 .. NCmds :
              /\ From(recv_buf, EndOf[c])
              /\ From(wire_in, EndOf[c] + Len(recv_buf))
              /\ nsent = EndOf[c] + Len(recv_buf) + Len(wire_in)
        BY <2>1 DEF InStream
      <3>2. EndOf[c] \in Nat
        BY Sizes
      <3>3. /\ From(took, EndOf[c] + Len(recv_buf))
            /\ From(left, EndOf[c] + Len(recv_buf) + n)
        BY <2>2, <2>3, <3>1, <3>2, CutStream
      <3>4. From(recv_buf', EndOf[c])
        BY <2>1, <2>2, <2>4, <3>1, <3>2, <3>3, JoinStream
      <3>5. From(wire_in', EndOf[c] + Len(recv_buf'))
        <4>1. EndOf[c] + Len(recv_buf) + n = EndOf[c] + Len(recv_buf')
          BY <2>2, <2>3, <2>5, <3>2
        <4> QED BY <2>1, <3>3, <4>1
      <3>6. nsent' = EndOf[c] + Len(recv_buf') + Len(wire_in')
        <4>1. Len(wire_in') = Len(wire_in) - n /\ nsent' = nsent
          BY <2>1, <2>4
        <4>2. EndOf[c] + Len(recv_buf) + Len(wire_in)
                = EndOf[c] + (Len(recv_buf) + n) + (Len(wire_in) - n)
          BY <2>2, <2>3, <3>2
        <4> QED BY <2>5, <3>1, <4>1, <4>2
      <3> QED BY <3>4, <3>5, <3>6 DEF InStream, From
    <2>9. MaskAgrees' /\ RoomKept'
      BY <2>1 DEF MaskAgrees, RoomKept
    <2>10. RepliesFit'
      <3>1. send_buf' = <<>> /\ out' = <<>>
        BY <2>1 DEF MaskAgrees
      <3> QED BY <2>2, <2>5, <2>6, <3>1 DEF RepliesFit
    <2> QED BY <2>7, <2>8, <2>9, <2>10
  <1> QED BY <1>1, <1>2

(* Do takes one command, which starts where the stream was cut before.     *)
LEMMA DoKeeps == ConnInv /\ Do => ConnInv'
  <1> SUFFICES ASSUME ConnInv, Do PROVE ConnInv'
    OBVIOUS
  <1> USE DEF ConnInv
  <1> DEFINE nr == IF recv_buf = <<>> THEN 0 ELSE Parse(recv_buf)
  <1>1. pc = "do" /\ recv_buf \in Seq(Nat) /\ wire_in \in Seq(Nat)
        /\ Len(recv_buf) \in Nat /\ Len(wire_in) \in Nat /\ nsent \in 0 .. EndOf[NCmds]
    BY DEF Do, TypeOK
  <1>2. PICK c \in 0 .. NCmds :
          /\ From(recv_buf, EndOf[c])
          /\ From(wire_in, EndOf[c] + Len(recv_buf))
          /\ nsent = EndOf[c] + Len(recv_buf) + Len(wire_in)
    BY <1>1 DEF InStream
  <1>3. EndOf[c] \in Nat /\ EndOf[NCmds] \in Nat /\ NCmds \in Nat /\ BuffSize \in Nat
        /\ BuffSize > 0
    BY Sizes
  <1>4. ASSUME recv_buf # <<>>
        PROVE  /\ c \in 0 .. NCmds - 1 /\ nr \in Int
               /\ nr > 0 => nr = EndOf[c + 1] - EndOf[c] /\ nr <= Len(recv_buf)
               /\ nr = 0 => Len(recv_buf) < BuffSize
    <2>1. Len(recv_buf) > 0 /\ Head(recv_buf) = recv_buf[1]
      BY <1>1, <1>4
    <2>2. Head(recv_buf) = EndOf[c] + 1
      BY <1>1, <1>2, <2>1 DEF From
    <2>3. c # NCmds
      BY <1>1, <1>2, <1>3, <2>1
    <2>4. c \in 0 .. NCmds - 1
      BY <1>3, <2>3
    <2> QED BY <1>1, <1>4, <2>2, <2>4, ParseFacts
  <1>5. CASE CloseConn("closed")
    BY <1>5, CloseKeeps
  <1>6. CASE nr = 0 /\ ~ CloseConn("closed")
    <2>1. pc' = "idle" /\ UNCHANGED <<nsent, got, peer, wire_in, wire_out, armed, fired,
                                      watch, recv_buf, send_buf, out>>
      BY <1>6 DEF Do, peervars, wires, epoll, bufs
    <2>2. Len(recv_buf) < BuffSize
      <3>1. CASE recv_buf = <<>>
        BY <1>3, <3>1
      <3>2. CASE recv_buf # <<>>
        BY <1>4, <1>6, <3>2
      <3> QED BY <3>1, <3>2
    <2>3. TypeOK'
      BY <2>1 DEF TypeOK
    <2>4. InStream' /\ MaskAgrees' /\ RepliesFit' /\ RoomKept'
      BY <1>1, <2>1, <2>2 DEF InStream, MaskAgrees, RepliesFit, RoomKept, From
    <2> QED BY <2>3, <2>4
  <1>7. CASE nr # 0 /\ ~ CloseConn("closed")
    <2>1. /\ UNCHANGED <<nsent, got, peer, wire_in, wire_out, armed, fired, watch, send_buf>>
          /\ pc' = "send" /\ nr > 0
          /\ out' = SubSeq(recv_buf, 1, nr)
          /\ recv_buf' = SubSeq(recv_buf, nr + 1, Len(recv_buf))
      BY <1>7 DEF Do, peervars, wires, epoll
    <2>2. /\ c \in 0 .. NCmds - 1 /\ nr \in 0 .. Len(recv_buf)
          /\ nr = EndOf[c + 1] - EndOf[c]
      BY <1>1, <1>4, <2>1
    <2> HIDE DEF nr
    <2>3. /\ out' \in Seq(Nat) /\ Len(out') = nr
          /\ recv_buf' \in Seq(Nat) /\ Len(recv_buf') = Len(recv_buf) - nr
      BY <1>1, <2>1, <2>2, CutFacts
    <2>4. TypeOK'
      <3>1. Len(recv_buf') <= BuffSize
        BY <1>1, <1>3, <2>2, <2>3 DEF TypeOK
      <3> QED BY <2>1, <2>3, <3>1 DEF TypeOK
    <2>5. InStream'
      <3>1. c + 1 \in 0 .. NCmds /\ EndOf[c + 1] \in Nat
        BY <1>3, <2>2, Sizes
      <3>2. EndOf[c] + nr = EndOf[c + 1]
        BY <1>3, <2>2, <3>1
      <3>3. From(recv_buf', EndOf[c + 1])
        BY <1>1, <1>2, <1>3, <2>1, <2>2, <3>2, CutStream
      <3>4. EndOf[c] + Len(recv_buf) = EndOf[c + 1] + Len(recv_buf')
        <4>1. /\ EndOf[c] \in Nat /\ nr \in Nat /\ Len(recv_buf) \in Nat
              /\ Len(recv_buf') = Len(recv_buf) - nr
          BY <1>1, <1>3, <2>2, <2>3
        <4> QED BY <3>1, <3>2, <4>1
      <3>5. From(wire_in', EndOf[c + 1] + Len(recv_buf'))
        BY <1>2, <2>1, <3>4
      <3>6. nsent' = EndOf[c + 1] + Len(recv_buf') + Len(wire_in')
        BY <1>2, <2>1, <3>4
      <3> QED BY <3>1, <3>3, <3>5, <3>6 DEF InStream, From
    <2>6. MaskAgrees' /\ RoomKept'
      BY <1>1, <2>1 DEF MaskAgrees, RoomKept
    <2>7. RepliesFit'
      <3>1. out = <<>> /\ Len(send_buf) \in Nat
        BY <1>1 DEF MaskAgrees, TypeOK
      <3>2. Len(send_buf) + Len(recv_buf) <= BuffSize
        BY <1>1, <1>3, <3>1 DEF RepliesFit
      <3>3. Len(send_buf) + nr + (Len(recv_buf) - nr) = Len(send_buf) + Len(recv_buf)
        BY <1>1, <2>2, <3>1
      <3> QED BY <2>1, <2>3, <3>2, <3>3 DEF RepliesFit
    <2> QED BY <2>4, <2>5, <2>6, <2>7
  <1> QED BY <1>5, <1>6, <1>7

(* write() takes a beginning of what it is given, as much as the kernel    *)
(* has room for.                                                           *)
LEMMA WriteFacts ==
  ASSUME NEW s \in Seq(Nat), wire_out \in Seq(Nat), Len(wire_out) <= SockSend
  PROVE  LET n    == NWrite(s)
             sent == wire_out \o SubSeq(s, 1, n)
             left == SubSeq(s, n + 1, Len(s))
         IN  /\ n \in 0 .. Len(s)
             /\ sent \in Seq(Nat) /\ Len(sent) <= SockSend
             /\ left \in Seq(Nat) /\ Len(left) = Len(s) - n
  <1> DEFINE n == NWrite(s)
  <1>1. Len(s) \in Nat /\ Len(wire_out) \in Nat /\ SockSend \in Nat
    BY Sizes
  <1>2. n \in 0 .. Len(s) /\ n <= SockSend - Len(wire_out)
    BY <1>1 DEF NWrite
  <1> HIDE DEF n
  <1>3. /\ SubSeq(s, 1, n) \in Seq(Nat) /\ Len(SubSeq(s, 1, n)) = n
        /\ SubSeq(s, n + 1, Len(s)) \in Seq(Nat)
        /\ Len(SubSeq(s, n + 1, Len(s))) = Len(s) - n
    BY <1>2, CutFacts
  <1>4. /\ wire_out \o SubSeq(s, 1, n) \in Seq(Nat)
        /\ Len(wire_out \o SubSeq(s, 1, n)) = Len(wire_out) + n
    BY <1>3, ConcatProperties
  <1>5. Len(wire_out \o SubSeq(s, 1, n)) <= SockSend
    BY <1>1, <1>2, <1>4
  <1> QED BY <1>2, <1>3, <1>4, <1>5 DEF n

(* A partial write leaves less of the reply. *)
LEMMA WriteReplyKeeps == ConnInv /\ WriteReply => ConnInv'
  <1> SUFFICES ASSUME ConnInv, WriteReply PROVE ConnInv'
    OBVIOUS
  <1> USE DEF ConnInv
  <1> DEFINE n == NWrite(out)
  <1>1. /\ UNCHANGED <<nsent, got, peer, wire_in, armed, fired, watch, recv_buf, send_buf, pc>>
        /\ pc = "send"
        /\ wire_out' = wire_out \o SubSeq(out, 1, n)
        /\ out' = SubSeq(out, n + 1, Len(out))
    BY DEF WriteReply, peervars, epoll
  <1>2. out \in Seq(Nat) /\ wire_out \in Seq(Nat) /\ Len(wire_out) <= SockSend
        /\ Len(out) \in Nat /\ Len(send_buf) \in Nat /\ Len(recv_buf) \in Nat
    BY DEF TypeOK
  <1>3. /\ n \in 0 .. Len(out)
        /\ wire_out' \in Seq(Nat) /\ Len(wire_out') <= SockSend
        /\ out' \in Seq(Nat) /\ Len(out') = Len(out) - n
    BY <1>1, <1>2, WriteFacts
  <1> HIDE DEF n
  <1>4. TypeOK'
    BY <1>1, <1>3 DEF TypeOK
  <1>5. InStream' /\ MaskAgrees' /\ RoomKept'
    BY <1>1 DEF InStream, MaskAgrees, RoomKept, From
  <1>6. RepliesFit'
    BY <1>1, <1>2, <1>3, Sizes DEF RepliesFit
  <1> QED BY <1>4, <1>5, <1>6

(* A partial write leaves less in send_buf_. *)
LEMMA WriteRemainKeeps == ConnInv /\ WriteRemain => ConnInv'
  <1> SUFFICES ASSUME ConnInv, WriteRemain PROVE ConnInv'
    OBVIOUS
  <1> USE DEF ConnInv
  <1> DEFINE n == NWrite(send_buf)
  <1>1. /\ UNCHANGED <<nsent, got, peer, wire_in, armed, fired, watch, recv_buf, out, pc>>
        /\ pc = "remain"
        /\ wire_out' = wire_out \o SubSeq(send_buf, 1, n)
        /\ send_buf' = SubSeq(send_buf, n + 1, Len(send_buf))
    BY DEF WriteRemain, peervars, epoll
  <1>2. send_buf \in Seq(Nat) /\ wire_out \in Seq(Nat) /\ Len(wire_out) <= SockSend
        /\ Len(send_buf) \in Nat /\ Len(send_buf) <= BuffSize
    BY DEF TypeOK
  <1>3. /\ n \in 0 .. Len(send_buf)
        /\ wire_out' \in Seq(Nat) /\ Len(wire_out') <= SockSend
        /\ send_buf' \in Seq(Nat) /\ Len(send_buf') = Len(send_buf) - n
    BY <1>1, <1>2, WriteFacts
  <1> HIDE DEF n
  <1>4. TypeOK'
    <2>1. Len(send_buf') <= BuffSize
      BY <1>2, <1>3, Sizes
    <2> QED BY <1>1, <1>3, <2>1 DEF TypeOK
  <1>5. InStream' /\ MaskAgrees' /\ RepliesFit' /\ RoomKept'
    BY <1>1 DEF InStream, MaskAgrees, RepliesFit, RoomKept, From
  <1> QED BY <1>4, <1>5

(* Send puts aside what is left and asks for the socket to drain; there is *)
(* always room for it.                                                     *)
LEMMA SendReturnsKeeps == ConnInv /\ SendReturns => ConnInv'
  <1> SUFFICES ASSUME ConnInv, SendReturns PROVE ConnInv'
    OBVIOUS
  <1> USE DEF ConnInv
  <1>1. /\ pc = "send" /\ out \in Seq(Nat) /\ send_buf \in Seq(Nat) /\ recv_buf \in Seq(Nat)
        /\ Len(out) \in Nat /\ Len(send_buf) \in Nat /\ Len(recv_buf) \in Nat
        /\ BuffSize \in Nat
        /\ Len(send_buf) + Len(out) + Len(recv_buf) <= BuffSize
    BY Sizes DEF SendReturns, TypeOK, RepliesFit
  <1>2. CASE CloseConn("freed")
    BY <1>2, CloseKeeps
  <1>3. CASE out = <<>> /\ ~ CloseConn("freed")
    <2>1. pc' = "do" /\ UNCHANGED <<nsent, got, peer, wire_in, wire_out, armed, fired,
                                    watch, recv_buf, send_buf, out>>
      BY <1>3 DEF SendReturns, peervars, wires, epoll, bufs
    <2>2. TypeOK'
      BY <2>1 DEF TypeOK
    <2>3. InStream' /\ MaskAgrees' /\ RepliesFit' /\ RoomKept'
      BY <1>1, <1>3, <2>1 DEF InStream, MaskAgrees, RepliesFit, RoomKept, From
    <2> QED BY <2>2, <2>3
  <1>4. CASE out # <<>> /\ ~ CloseConn("freed")
    <2>1. /\ UNCHANGED <<nsent, got, peer, wire_in, wire_out, fired, recv_buf>>
          /\ send_buf' = send_buf \o out /\ out' = <<>>
          /\ watch' = "write" /\ armed' \in BOOLEAN /\ pc' = "do"
      BY <1>1, <1>4 DEF SendReturns, StillFits, Watch, peervars, wires, TypeOK
    <2>2. send_buf' \in Seq(Nat) /\ Len(send_buf') = Len(send_buf) + Len(out)
      BY <1>1, <2>1, ConcatProperties
    <2>3. Len(out) > 0 /\ send_buf' # <<>> /\ Len(send_buf') <= BuffSize
      BY <1>1, <1>4, <2>2
    <2>4. TypeOK'
      BY <2>1, <2>2, <2>3 DEF TypeOK
    <2>5. InStream' /\ MaskAgrees' /\ RoomKept'
      BY <1>1, <2>1, <2>3 DEF InStream, MaskAgrees, RoomKept, From
    <2>6. RepliesFit'
      <3>1. Len(out') = 0
        BY <2>1
      <3> QED BY <1>1, <2>1, <2>2, <3>1 DEF RepliesFit
    <2> QED BY <2>4, <2>5, <2>6
  <1> QED BY <1>2, <1>3, <1>4

(* The mask goes back to reading exactly when send_buf_ is empty. *)
LEMMA RemainReturnsKeeps == ConnInv /\ RemainReturns => ConnInv'
  <1> SUFFICES ASSUME ConnInv, RemainReturns PROVE ConnInv'
    OBVIOUS
  <1> USE DEF ConnInv
  <1>1. pc = "remain" /\ watch = "write" /\ out = <<>>
    BY DEF RemainReturns, MaskAgrees
  <1>2. CASE CloseConn("closed")
    BY <1>2, CloseKeeps
  <1>3. CASE ~ CloseConn("closed")
    <2>1. /\ UNCHANGED <<nsent, got, peer, wire_in, wire_out, fired, recv_buf, send_buf, out>>
          /\ pc' = "idle" /\ armed' \in BOOLEAN
          /\ watch' = IF send_buf = <<>> THEN "read" ELSE "write"
      BY <1>1, <1>3 DEF RemainReturns, Watch, peervars, wires, epoll, bufs, TypeOK
    <2>2. TypeOK'
      BY <2>1 DEF TypeOK
    <2>3. InStream' /\ MaskAgrees' /\ RepliesFit' /\ RoomKept'
      BY <1>1, <2>1 DEF InStream, MaskAgrees, RepliesFit, RoomKept, From
    <2> QED BY <2>2, <2>3
  <1> QED BY <1>2, <1>3

-----------------------------------------------------------------------------
(* Theorems *)

(* The invariant holds in every state of every behaviour. *)
THEOREM ConnInvariance == Spec => []ConnInv
  <1>1. ConnInv /\ [Next]_vars => ConnInv'
    <2> SUFFICES ASSUME ConnInv, [Next]_vars PROVE ConnInv'
      OBVIOUS
    <2>1. CASE PeerSend
      BY <2>1, PeerSendKeeps
    <2>2. CASE PeerRecv \/ PeerShut \/ PeerReset \/ AtRest
      BY <2>2, RestOfPeerKeeps
    <2>3. CASE BeginRecv \/ WaitEvent \/ OnWriteRemain
      BY <2>3, WaitKeeps
    <2>4. CASE OnRead
      BY <2>4, OnReadKeeps
    <2>5. CASE Do
      BY <2>5, DoKeeps
    <2>6. CASE WriteReply
      BY <2>6, WriteReplyKeeps
    <2>7. CASE SendReturns
      BY <2>7, SendReturnsKeeps
    <2>8. CASE WriteRemain
      BY <2>8, WriteRemainKeeps
    <2>9. CASE RemainReturns
      BY <2>9, RemainReturnsKeeps
    <2>10. CASE UNCHANGED vars
      BY <2>10 DEF ConnInv, TypeOK, InStream, MaskAgrees, RepliesFit, RoomKept, From,
                   vars, peervars, wires, epoll, bufs
    <2> QED BY <2>1, <2>2, <2>3, <2>4, <2>5, <2>6, <2>7, <2>8, <2>9, <2>10
            DEF Next, Step
  <1> QED BY <1>1, ConnInitially, PTL DEF Spec

(* The connection's state keeps its type; neither buffer is ever overrun.  *)
THEOREM ConnTypeCorrect == Spec => []TypeOK
  <1>1. ConnInv => TypeOK
    BY DEF ConnInv
  <1> QED BY <1>1, ConnInvariance, PTL

(* Send never finds too little room in send_buf_ for what is left of a     *)
(* reply, whatever the peer and the kernel do.                             *)
THEOREM SendBufNeverFull == Spec => []RepliesFit
  <1>1. ConnInv => RepliesFit
    BY DEF ConnInv
  <1> QED BY <1>1, ConnInvariance, PTL

(* The event a waiting connection asks for is the one it needs.            *)
THEOREM WaitsForTheRightEvent == Spec => []PendingIsWatched
  <1>1. ConnInv => PendingIsWatched
    BY DEF ConnInv, MaskAgrees, PendingIsWatched
  <1> QED BY <1>1, ConnInvariance, PTL

(* A connection that waits has room for more of the command it waits for.  *)
THEOREM AlwaysRoomToRead == Spec => []RoomForTheRest
  <1>1. ConnInv => RoomForTheRest
    BY DEF ConnInv, RoomKept, RoomForTheRest
  <1> QED BY <1>1, ConnInvariance, PTL

(* Do never goes on with a deleted connector but after a reset: the other  *)
(* way to it, a rest that does not fit into send_buf_, is never taken, and *)
(* a peer that has reset the connection does not come back.                *)
THEOREM FreedAfterResetOnly == Spec => []FreedOnlyByReset
  <1>1. Init => FreedOnlyByReset
    BY DEF Init, FreedOnlyByReset
  <1>2. ConnInv /\ FreedOnlyByReset /\ [Next]_vars => FreedOnlyByReset'
    <2> SUFFICES ASSUME ConnInv, FreedOnlyByReset, [Next]_vars, pc' = "freed"
                 PROVE  peer' = "reset"
      BY DEF FreedOnlyByReset
    <2>1. CASE SendReturns
      <3>1. pc = "send" /\ peer' = peer
        BY <2>1 DEF SendReturns, CloseConn, peervars
      <3>2. StillFits
        BY <3>1, Sizes DEF ConnInv, TypeOK, RepliesFit, StillFits
      <3> QED BY <2>1, <3>1, <3>2 DEF SendReturns
    <2>2. CASE PeerSend \/ PeerRecv \/ PeerShut \/ PeerReset \/ AtRest \/ UNCHANGED vars
      BY <2>2 DEF PeerSend, PeerRecv, PeerShut, PeerReset, AtRest, vars, peervars, bufs,
                  FreedOnlyByReset
    <2>3. CASE BeginRecv \/ WaitEvent \/ OnRead \/ Do \/ WriteReply
               \/ OnWriteRemain \/ WriteRemain \/ RemainReturns
      <3>1. pc' # "freed"
        BY <2>3 DEF BeginRecv, WaitEvent, OnRead, Do, WriteReply, OnWriteRemain,
                    WriteRemain, RemainReturns, CloseConn
      <3> QED BY <3>1
    <2> QED BY <2>1, <2>2, <2>3 DEF Next, Step
  <1> QED BY <1>1, <1>2, ConnInvariance, PTL DEF Spec

-----------------------------------------------------------------------------
(* The bytes of a connection *)

BytesOf(s) == {s[i] : i \in 1 .. Len(s)}

Lasts == pc \notin {"closed", "freed"} /\ peer # "reset"

HowMany == Len(got) + Len(wire_out) + Len(send_buf) + Len(out) + Len(recv_buf) + Len(wire_in)

Held == BytesOf(got) \cup BytesOf(wire_out) \cup BytesOf(send_buf) \cup BytesOf(out)
          \cup BytesOf(recv_buf) \cup BytesOf(wire_in)

(* As many bytes as were sent, and all of them: so each is there once.     *)
NoneLost == Lasts => HowMany = nsent /\ 1 .. nsent \subseteq Held

LEMMA JoinedBytes ==
  ASSUME NEW s \in Seq(Nat), NEW t \in Seq(Nat)
  PROVE  /\ s \o t \in Seq(Nat)
         /\ Len(s \o t) = Len(s) + Len(t)
         /\ BytesOf(s \o t) = BytesOf(s) \cup BytesOf(t)
  <1>1. /\ s \o t \in Seq(Nat) /\ Len(s \o t) = Len(s) + Len(t)
        /\ \A i \in 1 .. Len(s) + Len(t) :
             (s \o t)[i] = IF i <= Len(s) THEN s[i] ELSE t[i - Len(s)]
    BY ConcatProperties
  <1>2. Len(s) \in Nat /\ Len(t) \in Nat
    OBVIOUS
  <1>3. \A i \in 1 .. Len(s) : i \in 1 .. Len(s) + Len(t) /\ (s \o t)[i] = s[i]
    BY <1>1, <1>2
  <1>4. \A i \in 1 .. Len(t) :
          Len(s) + i \in 1 .. Len(s) + Len(t) /\ (s \o t)[Len(s) + i] = t[i]
    <2> TAKE i \in 1 .. Len(t)
    <2>1. /\ Len(s) + i \in 1 .. Len(s) + Len(t) /\ ~ (Len(s) + i <= Len(s))
          /\ (Len(s) + i) - Len(s) = i
      BY <1>2
    <2> QED BY <1>1, <2>1
  <1>5. \A i \in 1 .. Len(s) + Len(t) :
          i \in 1 .. Len(s) \/ (i - Len(s) \in 1 .. Len(t) /\ Len(s) + (i - Len(s)) = i)
    BY <1>2
  <1>6. BytesOf(s \o t) \subseteq BytesOf(s) \cup BytesOf(t)
    BY <1>1, <1>3, <1>4, <1>5 DEF BytesOf
  <1>7. BytesOf(s) \cup BytesOf(t) \subseteq BytesOf(s \o t)
    BY <1>1, <1>3, <1>4 DEF BytesOf
  <1> QED BY <1>1, <1>6, <1>7

LEMMA CutBytes ==
  ASSUME NEW s \in Seq(Nat), NEW n \in 0 .. Len(s)
  PROVE  /\ Len(SubSeq(s, 1, n)) + Len(SubSeq(s, n + 1, Len(s))) = Len(s)
         /\ BytesOf(SubSeq(s, 1, n)) \cup BytesOf(SubSeq(s, n + 1, Len(s))) = BytesOf(s)
  <1> DEFINE a == SubSeq(s, 1, n)
             b == SubSeq(s, n + 1, Len(s))
  <1>1. /\ Len(a) = n /\ Len(b) = Len(s) - n
        /\ \A i \in 1 .. n : a[i] = s[i]
        /\ \A i \in 1 .. Len(s) - n : b[i] = s[n + i]
    BY CutFacts
  <1> HIDE DEF a, b
  <1>2. n \in Nat /\ Len(s) \in Nat /\ n <= Len(s)
    OBVIOUS
  <1>3. \A i \in 1 .. Len(s) :
          i \in 1 .. n \/ (i - n \in 1 .. Len(s) - n /\ n + (i - n) = i)
    BY <1>2
  <1>4. \A i \in 1 .. n : i \in 1 .. Len(s)
    BY <1>2
  <1>5. \A i \in 1 .. Len(s) - n : n + i \in 1 .. Len(s)
    BY <1>2
  <1>6. BytesOf(a) \cup BytesOf(b) \subseteq BytesOf(s)
    BY <1>1, <1>4, <1>5 DEF BytesOf
  <1>7. ASSUME NEW i \in 1 .. Len(s) PROVE s[i] \in BytesOf(a) \cup BytesOf(b)
    <2>1. CASE i \in 1 .. n
      <3>1. i \in 1 .. Len(a) /\ s[i] = a[i]
        BY <1>1, <2>1
      <3> QED BY <3>1 DEF BytesOf
    <2>2. CASE i \notin 1 .. n
      <3>1. i - n \in 1 .. Len(b) /\ s[i] = b[i - n]
        BY <1>1, <1>3, <2>2
      <3> QED BY <3>1 DEF BytesOf
    <2> QED BY <2>1, <2>2
  <1>8. BytesOf(s) \subseteq BytesOf(a) \cup BytesOf(b)
    BY <1>7 DEF BytesOf
  <1>9. BytesOf(a) \cup BytesOf(b) = BytesOf(s) /\ Len(a) + Len(b) = Len(s)
    BY <1>1, <1>2, <1>6, <1>8
  <1> QED BY <1>9 DEF a, b

LEMMA EndBytes ==
  ASSUME NEW s \in Seq(Nat)
  PROVE  /\ \A e \in Nat : /\ Len(Append(s, e)) = Len(s) + 1
                           /\ BytesOf(Append(s, e)) = BytesOf(s) \cup {e}
         /\ s # <<>> => /\ Head(s) \in Nat /\ Tail(s) \in Seq(Nat)
                        /\ Len(Tail(s)) + 1 = Len(s)
                        /\ BytesOf(Tail(s)) \cup {Head(s)} = BytesOf(s)
  <1>1. Len(s) \in Nat
    OBVIOUS
  <1>2. ASSUME NEW e \in Nat
        PROVE  /\ Len(Append(s, e)) = Len(s) + 1
               /\ BytesOf(Append(s, e)) = BytesOf(s) \cup {e}
    <2>1. /\ Len(Append(s, e)) = Len(s) + 1
          /\ \A i \in 1 .. Len(s) : Append(s, e)[i] = s[i]
          /\ Append(s, e)[Len(s) + 1] = e
      BY AppendProperties
    <2>2. \A i : i \in 1 .. Len(s) + 1 <=> i \in 1 .. Len(s) \/ i = Len(s) + 1
      BY <1>1
    <2> QED BY <2>1, <2>2 DEF BytesOf
  <1>3. ASSUME s # <<>>
        PROVE  /\ Head(s) \in Nat /\ Tail(s) \in Seq(Nat)
               /\ Len(Tail(s)) + 1 = Len(s)
               /\ BytesOf(Tail(s)) \cup {Head(s)} = BytesOf(s)
    <2>1. /\ Head(s) = s[1] /\ Tail(s) \in Seq(Nat) /\ Len(Tail(s)) = Len(s) - 1
          /\ \A i \in 1 .. Len(Tail(s)) : Tail(s)[i] = s[i + 1]
      BY <1>3, HeadTailProperties
    <2>2. Len(s) > 0 /\ s[1] \in Nat /\ 1 \in 1 .. Len(s)
      BY <1>3
    <2>3. \A i \in 1 .. Len(Tail(s)) : i + 1 \in 1 .. Len(s)
      BY <1>1, <2>1
    <2>4. \A i \in 1 .. Len(s) : i = 1 \/ (i - 1 \in 1 .. Len(Tail(s)) /\ (i - 1) + 1 = i)
      BY <1>1, <2>1
    <2>5. BytesOf(Tail(s)) \cup {Head(s)} \subseteq BytesOf(s)
      BY <2>1, <2>2, <2>3 DEF BytesOf
    <2>6. BytesOf(s) \subseteq BytesOf(Tail(s)) \cup {Head(s)}
      <3> SUFFICES ASSUME NEW i \in 1 .. Len(s), i # 1 PROVE s[i] \in BytesOf(Tail(s))
        BY <2>1 DEF BytesOf
      <3>1. i - 1 \in 1 .. Len(Tail(s)) /\ Tail(s)[i - 1] = s[i]
        BY <2>1, <2>4
      <3> QED BY <3>1 DEF BytesOf
    <2> QED BY <1>1, <2>1, <2>2, <2>5, <2>6
  <1> QED BY <1>2, <1>3

LEMMA NoBytes == Len(<<>>) = 0 /\ BytesOf(<<>>) = {}
  BY DEF BytesOf

(* What Do takes from recv_buf_ is there. *)
LEMMA TakesWhatIsThere ==
  ASSUME ConnInv, pc = "do", recv_buf # <<>>
  PROVE  Parse(recv_buf) \in Int /\ (Parse(recv_buf) > 0 => Parse(recv_buf) <= Len(recv_buf))
  <1>1. /\ recv_buf \in Seq(Nat) /\ wire_in \in Seq(Nat) /\ nsent \in 0 .. EndOf[NCmds]
        /\ Len(recv_buf) \in Nat /\ Len(wire_in) \in Nat
    BY DEF ConnInv, TypeOK
  <1>2. PICK c \in 0 .. NCmds :
          /\ From(recv_buf, EndOf[c])
          /\ nsent = EndOf[c] + Len(recv_buf) + Len(wire_in)
    BY DEF ConnInv, InStream
  <1>3. EndOf[c] \in Nat /\ EndOf[NCmds] \in Nat /\ NCmds \in Nat
    BY Sizes
  <1>4. Len(recv_buf) > 0 /\ Head(recv_buf) = recv_buf[1]
    BY <1>1
  <1>5. Head(recv_buf) = EndOf[c] + 1
    BY <1>1, <1>2, <1>4 DEF From
  <1>6. c # NCmds
    BY <1>1, <1>2, <1>3, <1>4
  <1>7. c \in 0 .. NCmds - 1
    BY <1>3, <1>6
  <1> QED BY <1>1, <1>5, <1>7, ParseFacts

LEMMA NoneLostAtFirst == Init => NoneLost
  <1> SUFFICES ASSUME Init PROVE HowMany = nsent /\ 1 .. nsent \subseteq Held
    BY DEF NoneLost
  <1> QED BY NoBytes DEF Init, HowMany, Held

(* A connection that has ended does not start again. *)
LEMMA StillLasts ==
  ASSUME [Next]_vars, Lasts'
  PROVE  Lasts
  BY DEF Lasts, Next, Step, vars, peervars, wires, epoll, bufs, PeerSend, PeerRecv,
         PeerShut, PeerReset, BeginRecv, WaitEvent, OnRead, Do, WriteReply, SendReturns,
         OnWriteRemain, WriteRemain, RemainReturns, AtRest, CloseConn

(* No step loses a byte or makes two of one: what leaves a buffer enters   *)
(* another.                                                                *)
LEMMA BytesMove == ConnInv /\ NoneLost /\ [Next]_vars => NoneLost'
  <1> SUFFICES ASSUME ConnInv, NoneLost, [Next]_vars, Lasts'
               PROVE  HowMany' = nsent' /\ 1 .. nsent' \subseteq Held'
    BY DEF NoneLost
  <1>1. /\ {got, wire_in, wire_out, recv_buf, send_buf, out} \subseteq Seq(Nat)
        /\ nsent \in Nat
    BY Sizes DEF ConnInv, TypeOK
  <1>2. /\ Len(got) \in Nat /\ Len(wire_in) \in Nat /\ Len(wire_out) \in Nat
        /\ Len(recv_buf) \in Nat /\ Len(send_buf) \in Nat /\ Len(out) \in Nat
    BY <1>1
  <1>3. Lasts
    BY StillLasts
  <1>4. HowMany = nsent /\ 1 .. nsent \subseteq Held
    BY <1>3 DEF NoneLost
  <1>5. ASSUME nsent' = nsent, HowMany' = HowMany, Held' = Held
        PROVE  HowMany' = nsent' /\ 1 .. nsent' \subseteq Held'
    BY <1>4, <1>5
  <1>6. ASSUME UNCHANGED <<nsent, got, wire_out, send_buf, out, recv_buf, wire_in>>
        PROVE  HowMany' = nsent' /\ 1 .. nsent' \subseteq Held'
    BY <1>5, <1>6 DEF HowMany, Held
  <1>7. CASE PeerSend
    <2>1. /\ UNCHANGED <<got, wire_out, send_buf, out, recv_buf>>
          /\ nsent' = nsent + 1 /\ wire_in' = Append(wire_in, nsent + 1)
      BY <1>7 DEF PeerSend, bufs
    <2>2. /\ Len(wire_in') = Len(wire_in) + 1
          /\ BytesOf(wire_in') = BytesOf(wire_in) \cup {nsent + 1}
      BY <1>1, <2>1, EndBytes
    <2>3. HowMany' = HowMany + 1
      BY <1>2, <2>1, <2>2 DEF HowMany
    <2>4. Held' = Held \cup {nsent + 1}
      BY <2>1, <2>2 DEF Held
    <2>5. 1 .. nsent + 1 \subseteq (1 .. nsent) \cup {nsent + 1}
      BY <1>1
    <2> QED BY <1>4, <2>1, <2>3, <2>4, <2>5
  <1>8. CASE PeerRecv
    <2>1. /\ UNCHANGED <<nsent, send_buf, out, recv_buf, wire_in>>
          /\ wire_out # <<>> /\ got' = Append(got, Head(wire_out)) /\ wire_out' = Tail(wire_out)
      BY <1>8 DEF PeerRecv, bufs
    <2>2. /\ Head(wire_out) \in Nat /\ Len(wire_out') + 1 = Len(wire_out)
          /\ wire_out' \in Seq(Nat)
          /\ BytesOf(wire_out') \cup {Head(wire_out)} = BytesOf(wire_out)
      BY <1>1, <2>1, EndBytes
    <2>3. /\ Len(got') = Len(got) + 1 /\ BytesOf(got') = BytesOf(got) \cup {Head(wire_out)}
      BY <1>1, <2>1, <2>2, EndBytes
    <2>4. HowMany' = HowMany
      BY <1>2, <2>1, <2>2, <2>3 DEF HowMany
    <2>5. Held' = Held
      BY <2>1, <2>2, <2>3 DEF Held
    <2> QED BY <1>5, <2>1, <2>4, <2>5
  <1>9. CASE OnRead
    <2> DEFINE n == NRead
    <2>1. /\ UNCHANGED <<nsent, got, wire_out, send_buf, out>>
          /\ recv_buf' = recv_buf \o SubSeq(wire_in, 1, n)
          /\ wire_in' = SubSeq(wire_in, n + 1, Len(wire_in))
      BY <1>9 DEF OnRead, CloseConn, Lasts, peervars
    <2>2. n \in 0 .. Len(wire_in)
      BY <1>1, <1>2, Sizes DEF NRead, Room, ConnInv, TypeOK
    <2> HIDE DEF n
    <2>3. /\ SubSeq(wire_in, 1, n) \in Seq(Nat) /\ wire_in' \in Seq(Nat)
          /\ Len(SubSeq(wire_in, 1, n)) + Len(wire_in') = Len(wire_in)
          /\ BytesOf(SubSeq(wire_in, 1, n)) \cup BytesOf(wire_in') = BytesOf(wire_in)
      BY <1>1, <2>1, <2>2, CutFacts, CutBytes
    <2>4. /\ Len(recv_buf') = Len(recv_buf) + Len(SubSeq(wire_in, 1, n))
          /\ BytesOf(recv_buf') = BytesOf(recv_buf) \cup BytesOf(SubSeq(wire_in, 1, n))
      BY <1>1, <2>1, <2>3, JoinedBytes
    <2>5. /\ Len(recv_buf') \in Nat /\ Len(wire_in') \in Nat
          /\ Len(recv_buf') + Len(wire_in') = Len(recv_buf) + Len(wire_in)
      <3> DEFINE k == Len(SubSeq(wire_in, 1, n))
      <3>1. /\ k \in Nat /\ Len(wire_in') \in Nat
            /\ k + Len(wire_in') = Len(wire_in)
            /\ Len(recv_buf') = Len(recv_buf) + k
        BY <2>3, <2>4
      <3> HIDE DEF k
      <3> QED BY <1>2, <3>1
    <2>6. HowMany' = HowMany
      <3>1. /\ Len(got') = Len(got) /\ Len(wire_out') = Len(wire_out) /\ Len(send_buf') = Len(send_buf)
            /\ Len(out') = Len(out)
        BY <2>1
      <3> QED BY <1>2, <2>5, <3>1 DEF HowMany
    <2>7. Held' = Held
      BY <2>1, <2>3, <2>4 DEF Held
    <2> QED BY <1>5, <2>1, <2>6, <2>7
  <1>10. CASE Do
    <2> DEFINE nr == IF recv_buf = <<>> THEN 0 ELSE Parse(recv_buf)
    <2>1. CASE nr = 0
      BY <1>6, <1>10, <2>1 DEF Do, CloseConn, Lasts, peervars, wires, bufs
    <2>2. CASE nr # 0
      <3>1. /\ UNCHANGED <<nsent, got, wire_out, send_buf, wire_in>>
            /\ pc = "do" /\ nr > 0 /\ recv_buf # <<>>
            /\ out' = SubSeq(recv_buf, 1, nr)
            /\ recv_buf' = SubSeq(recv_buf, nr + 1, Len(recv_buf))
        BY <1>10, <2>2 DEF Do, CloseConn, Lasts, peervars, wires
      <3>2. nr \in 0 .. Len(recv_buf)
        BY <1>1, <3>1, TakesWhatIsThere
      <3> HIDE DEF nr
      <3>3. /\ out' \in Seq(Nat) /\ recv_buf' \in Seq(Nat)
            /\ Len(out') + Len(recv_buf') = Len(recv_buf)
            /\ BytesOf(out') \cup BytesOf(recv_buf') = BytesOf(recv_buf)
        BY <1>1, <3>1, <3>2, CutFacts, CutBytes
      <3>4. out = <<>> /\ Len(out) = 0 /\ BytesOf(out) = {}
        BY <3>1, NoBytes DEF ConnInv, MaskAgrees
      <3>5. /\ Len(out') \in Nat /\ Len(recv_buf') \in Nat
            /\ Len(out') + Len(recv_buf') = Len(out) + Len(recv_buf)
        BY <1>2, <3>3, <3>4
      <3>6. HowMany' = HowMany
        <4>1. /\ Len(got') = Len(got) /\ Len(wire_out') = Len(wire_out) /\ Len(send_buf') = Len(send_buf)
              /\ Len(wire_in') = Len(wire_in)
          BY <3>1
        <4> DEFINE before == Len(got) + Len(wire_out) + Len(send_buf)
        <4>2. /\ before \in Nat /\ Len(wire_in) \in Nat
              /\ Len(out) \in Nat /\ Len(recv_buf) \in Nat
          BY <1>2
        <4>3. /\ HowMany = before + Len(out) + Len(recv_buf) + Len(wire_in)
              /\ HowMany' = before + Len(out') + Len(recv_buf') + Len(wire_in)
          BY <4>1 DEF HowMany
        <4> HIDE DEF before
        <4> QED BY <3>5, <4>2, <4>3
      <3>7. Held' = Held
        BY <3>1, <3>3, <3>4 DEF Held
      <3> QED BY <1>5, <3>1, <3>6, <3>7
    <2> QED BY <2>1, <2>2
  <1>11. CASE WriteReply
    <2> DEFINE n == NWrite(out)
               sent == SubSeq(out, 1, n)
    <2>1. /\ UNCHANGED <<nsent, got, send_buf, recv_buf, wire_in>>
          /\ wire_out' = wire_out \o sent
          /\ out' = SubSeq(out, n + 1, Len(out))
      BY <1>11 DEF WriteReply, peervars
    <2>2. n \in 0 .. Len(out)
      BY <1>1, WriteFacts DEF ConnInv, TypeOK
    <2>3. /\ sent \in Seq(Nat) /\ out' \in Seq(Nat)
          /\ Len(sent) + Len(out') = Len(out)
          /\ BytesOf(sent) \cup BytesOf(out') = BytesOf(out)
      BY <1>1, <2>1, <2>2, CutFacts, CutBytes
    <2> HIDE DEF n, sent
    <2>4. /\ Len(wire_out') = Len(wire_out) + Len(sent)
          /\ BytesOf(wire_out') = BytesOf(wire_out) \cup BytesOf(sent)
      BY <1>1, <2>1, <2>3, JoinedBytes
    <2>5. /\ Len(wire_out') \in Nat /\ Len(out') \in Nat
          /\ Len(wire_out') + Len(out') = Len(wire_out) + Len(out)
      <3> DEFINE k == Len(sent)
      <3>1. /\ k \in Nat /\ Len(out') \in Nat
            /\ k + Len(out') = Len(out)
            /\ Len(wire_out') = Len(wire_out) + k
        BY <2>3, <2>4
      <3> HIDE DEF k
      <3> QED BY <1>2, <3>1
    <2>6. HowMany' = HowMany
      <3>1. /\ Len(got') = Len(got) /\ Len(send_buf') = Len(send_buf) /\ Len(recv_buf') = Len(recv_buf)
            /\ Len(wire_in') = Len(wire_in)
        BY <2>1
      <3> QED BY <1>2, <2>5, <3>1 DEF HowMany
    <2>7. Held' = Held
      BY <2>1, <2>3, <2>4 DEF Held
    <2> QED BY <1>5, <2>1, <2>6, <2>7
  <1>12. CASE WriteRemain
    <2> DEFINE n == NWrite(send_buf)
               sent == SubSeq(send_buf, 1, n)
    <2>1. /\ UNCHANGED <<nsent, got, out, recv_buf, wire_in>>
          /\ wire_out' = wire_out \o sent
          /\ send_buf' = SubSeq(send_buf, n + 1, Len(send_buf))
      BY <1>12 DEF WriteRemain, peervars
    <2>2. n \in 0 .. Len(send_buf)
      BY <1>1, WriteFacts DEF ConnInv, TypeOK
    <2>3. /\ sent \in Seq(Nat) /\ send_buf' \in Seq(Nat)
          /\ Len(sent) + Len(send_buf') = Len(send_buf)
          /\ BytesOf(sent) \cup BytesOf(send_buf') = BytesOf(send_buf)
      BY <1>1, <2>1, <2>2, CutFacts, CutBytes
    <2> HIDE DEF n, sent
    <2>4. /\ Len(wire_out') = Len(wire_out) + Len(sent)
          /\ BytesOf(wire_out') = BytesOf(wire_out) \cup BytesOf(sent)
      BY <1>1, <2>1, <2>3, JoinedBytes
    <2>5. /\ Len(wire_out') \in Nat /\ Len(send_buf') \in Nat
          /\ Len(wire_out') + Len(send_buf') = Len(wire_out) + Len(send_buf)
      <3> DEFINE k == Len(sent)
      <3>1. /\ k \in Nat /\ Len(send_buf') \in Nat
            /\ k + Len(send_buf') = Len(send_buf)
            /\ Len(wire_out') = Len(wire_out) + k
        BY <2>3, <2>4
      <3> HIDE DEF k
      <3> QED BY <1>2, <3>1
    <2>6. HowMany' = HowMany
      <3>1. /\ Len(got') = Len(got) /\ Len(out') = Len(out) /\ Len(recv_buf') = Len(recv_buf)
            /\ Len(wire_in') = Len(wire_in)
        BY <2>1
      <3> QED BY <1>2, <2>5, <3>1 DEF HowMany
    <2>7. Held' = Held
      BY <2>1, <2>3, <2>4 DEF Held
    <2> QED BY <1>5, <2>1, <2>6, <2>7
  <1>13. CASE SendReturns
    <2>1. CASE out = <<>>
      BY <1>6, <1>13, <2>1 DEF SendReturns, CloseConn, Lasts, peervars, wires, bufs
    <2>2. CASE out # <<>>
      <3>1. /\ UNCHANGED <<nsent, got, wire_out, recv_buf, wire_in>>
            /\ send_buf' = send_buf \o out
            /\ out' = <<>>
        BY <1>13, <2>2 DEF SendReturns, CloseConn, Lasts, peervars, wires
      <3>2. /\ Len(send_buf') = Len(send_buf) + Len(out)
            /\ BytesOf(send_buf') = BytesOf(send_buf) \cup BytesOf(out)
            /\ Len(out') = 0 /\ BytesOf(out') = {}
        BY <1>1, <3>1, JoinedBytes, NoBytes
      <3>3. HowMany' = HowMany
        BY <1>2, <3>1, <3>2 DEF HowMany
      <3>4. Held' = Held
        BY <3>1, <3>2 DEF Held
      <3> QED BY <1>5, <3>1, <3>3, <3>4
    <2> QED BY <2>1, <2>2
  <1>14. CASE \/ PeerShut \/ PeerReset \/ AtRest \/ UNCHANGED vars
              \/ BeginRecv \/ WaitEvent \/ OnWriteRemain \/ RemainReturns
    BY <1>6, <1>14 DEF PeerShut, PeerReset, AtRest, BeginRecv, WaitEvent, OnWriteRemain,
                       RemainReturns, CloseConn, Lasts, vars, peervars, wires, bufs
  <1> QED BY <1>7, <1>8, <1>9, <1>10, <1>11, <1>12, <1>13, <1>14 DEF Next, Step

(* All the buffers in a row. *)
LEMMA BytesInARow == ConnInv /\ NoneLost => BytesConserved
  <1> SUFFICES ASSUME ConnInv, NoneLost, Lasts
               PROVE  LET all == got \o wire_out \o send_buf \o out \o recv_buf \o wire_in
                      IN  /\ Len(all) = nsent
                          /\ \A b \in 1 .. nsent : \E i \in DOMAIN all : all[i] = b
    BY DEF BytesConserved, Lasts
  <1> DEFINE a == got \o wire_out
             b == a \o send_buf
             c == b \o out
             d == c \o recv_buf
             all == d \o wire_in
  <1>1. {got, wire_in, wire_out, recv_buf, send_buf, out} \subseteq Seq(Nat)
    BY DEF ConnInv, TypeOK
  <1>2. a \in Seq(Nat) /\ Len(a) = Len(got) + Len(wire_out)
        /\ BytesOf(a) = BytesOf(got) \cup BytesOf(wire_out)
    BY <1>1, JoinedBytes
  <1> HIDE DEF a
  <1>3. b \in Seq(Nat) /\ Len(b) = Len(a) + Len(send_buf)
        /\ BytesOf(b) = BytesOf(a) \cup BytesOf(send_buf)
    BY <1>1, <1>2, JoinedBytes
  <1> HIDE DEF b
  <1>4. c \in Seq(Nat) /\ Len(c) = Len(b) + Len(out)
        /\ BytesOf(c) = BytesOf(b) \cup BytesOf(out)
    BY <1>1, <1>3, JoinedBytes
  <1> HIDE DEF c
  <1>5. d \in Seq(Nat) /\ Len(d) = Len(c) + Len(recv_buf)
        /\ BytesOf(d) = BytesOf(c) \cup BytesOf(recv_buf)
    BY <1>1, <1>4, JoinedBytes
  <1> HIDE DEF d
  <1>6. all \in Seq(Nat) /\ Len(all) = Len(d) + Len(wire_in)
        /\ BytesOf(all) = BytesOf(d) \cup BytesOf(wire_in)
    BY <1>1, <1>5, JoinedBytes
  <1> HIDE DEF all
  <1>7. Len(all) = nsent /\ 1 .. nsent \subseteq BytesOf(all)
    BY <1>2, <1>3, <1>4, <1>5, <1>6 DEF NoneLost, HowMany, Held
  <1>8. DOMAIN all = 1 .. Len(all)
    BY <1>6
  <1>9. \A x \in 1 .. nsent : \E i \in DOMAIN all : all[i] = x
    BY <1>7, <1>8 DEF BytesOf
  <1> QED BY <1>7, <1>9 DEF all, d, c, b, a

(* However commands are cut by the socket, by full buffers and by partial  *)
(* writes, no byte of a connection that lasts is lost, and none is sent    *)
(* twice.                                                                  *)
THEOREM NoByteLost == Spec => []BytesConserved
  <1>1. Init => NoneLost
    BY NoneLostAtFirst
  <1>2. ConnInv /\ NoneLost /\ [Next]_vars => NoneLost'
    BY BytesMove
  <1>3. ConnInv /\ NoneLost => BytesConserved
    BY BytesInARow
  <1> QED BY <1>1, <1>2, <1>3, ConnInvariance, PTL DEF Spec

-----------------------------------------------------------------------------
(* Their order, for a peer that waits for each reply *)

(* Nothing of a command is sent before the one before it was answered.     *)
OneAtATime == \A c \in 0 .. NCmds : nsent > EndOf[c] => Len(got) >= EndOf[c]

(* What is on its way back follows what has been read.  When a reply is    *)
(* written no rest of an earlier one waits in send_buf_.                   *)
OnItsWay ==
  /\ From(wire_out, Len(got))
  /\ Lasts => /\ From(send_buf, Len(got) + Len(wire_out))
              /\ From(out, Len(got) + Len(wire_out) + Len(send_buf))
              /\ pc = "send" => send_buf = <<>>

OrderInv == OneAtATime /\ From(got, 0) /\ OnItsWay

(* The commands that are answered are the first ones. *)
LEMMA AnsweredAreFirst ==
  ASSUME NEW c \in Cmds, c <= Answered, Len(got) \in Nat
  PROVE  EndOf[c] <= Len(got)
  <1> DEFINE S == {d \in Cmds : EndOf[d] <= Len(got)}
  <1>1. /\ NCmds \in Nat /\ c \in 1 .. NCmds
        /\ \A d \in 0 .. NCmds : EndOf[d] \in Nat
        /\ \A d, e \in 0 .. NCmds : d < e => EndOf[d] < EndOf[e]
    BY ConnectorAssumption DEF Cmds
  <1> SUFFICES ASSUME EndOf[c] > Len(got) PROVE FALSE
    BY <1>1
  <1>2. S \in SUBSET (1 .. c - 1)
    <2> SUFFICES ASSUME NEW d \in S PROVE d \in 1 .. c - 1
      OBVIOUS
    <2>1. d \in 1 .. NCmds /\ EndOf[d] <= Len(got)
      BY DEF Cmds
    <2>2. EndOf[d] < EndOf[c]
      BY <1>1, <2>1
    <2>3. ~ (c < d) /\ c # d
      BY <1>1, <2>1, <2>2
    <2> QED BY <1>1, <2>1, <2>3
  <1>3. IsFiniteSet(1 .. c - 1) /\ Cardinality(1 .. c - 1) = c - 1
    <2>1. 1 \in Int /\ c - 1 \in Int
      BY <1>1
    <2>2. /\ IsFiniteSet(1 .. c - 1)
          /\ Cardinality(1 .. c - 1) = IF 1 > c - 1 THEN 0 ELSE c - 1 - 1 + 1
      BY <2>1, FS_Interval
    <2> QED BY <1>1, <2>2
  <1>4. Cardinality(S) <= c - 1 /\ Cardinality(S) \in Nat
    <2>1. IsFiniteSet(S) /\ Cardinality(S) <= Cardinality(1 .. c - 1)
      BY <1>2, <1>3, FS_Subset
    <2> QED BY <1>3, <2>1, FS_CardinalityType
  <1>5. Answered = Cardinality(S)
    BY DEF Answered
  <1> HIDE DEF S
  <1> QED BY <1>1, <1>4, <1>5

LEMMA SendsOneAtATime ==
  ASSUME Window = 1, ConnInv, OneAtATime, [Next]_vars
  PROVE  OneAtATime'
  <1>1. got \in Seq(Nat) /\ Len(got) \in Nat /\ nsent \in Nat /\ NCmds \in Nat
        /\ \A c \in 0 .. NCmds : EndOf[c] \in Nat
    BY Sizes DEF ConnInv, TypeOK
  <1>2. CASE PeerSend
    <2>1. got' = got /\ nsent' = nsent + 1
      BY <1>2 DEF PeerSend
    <2>2. PICK d \in Cmds : d <= Answered + 1 /\ nsent < EndOf[d]
      BY <1>2 DEF PeerSend
    <2>3. ASSUME NEW c \in 0 .. NCmds, nsent + 1 > EndOf[c] PROVE Len(got) >= EndOf[c]
      <3>1. CASE c = 0
        BY <1>1, <3>1, ConnectorAssumption
      <3>2. CASE c # 0
        <4>1. c \in Cmds /\ c \in Nat /\ d \in 0 .. NCmds /\ d \in Nat
          BY <1>1, <3>2 DEF Cmds
        <4>2. EndOf[c] < EndOf[d]
          BY <1>1, <2>2, <2>3, <4>1
        <4>3. c < d
          <5>1. d < c => EndOf[d] < EndOf[c]
            BY <4>1, ConnectorAssumption
          <5>2. EndOf[c] \in Nat /\ EndOf[d] \in Nat
            BY <1>1, <4>1
          <5> QED BY <4>1, <4>2, <5>1, <5>2
        <4>4. Answered \in Nat
          <5>1. IsFiniteSet(Cmds)
            BY <1>1, FS_Interval DEF Cmds
          <5>2. {e \in Cmds : EndOf[e] <= Len(got)} \in SUBSET Cmds
            OBVIOUS
          <5> QED BY <5>1, <5>2, FS_Subset, FS_CardinalityType DEF Answered
        <4>5. c <= Answered
          BY <2>2, <4>1, <4>3, <4>4
        <4> QED BY <1>1, <4>1, <4>5, AnsweredAreFirst
      <3> QED BY <3>1, <3>2
    <2> QED BY <2>1, <2>3 DEF OneAtATime
  <1>3. CASE PeerRecv
    <2>1. nsent' = nsent /\ wire_out # <<>> /\ got' = Append(got, Head(wire_out))
      BY <1>3 DEF PeerRecv
    <2>2. Head(wire_out) \in Nat
      BY <2>1, EndBytes DEF ConnInv, TypeOK
    <2>3. Len(got') = Len(got) + 1
      BY <1>1, <2>1, <2>2, EndBytes
    <2> QED BY <1>1, <2>1, <2>3 DEF OneAtATime
  <1>4. CASE ~ PeerSend /\ ~ PeerRecv
    <2>1. UNCHANGED <<nsent, got>>
      BY <1>4 DEF Next, Step, PeerShut, PeerReset, BeginRecv, WaitEvent, OnRead, Do,
                  WriteReply, SendReturns, OnWriteRemain, WriteRemain, RemainReturns,
                  AtRest, CloseConn, vars, peervars
    <2> QED BY <2>1 DEF OneAtATime
  <1> QED BY <1>2, <1>3, <1>4

LEMMA OrderKept ==
  ASSUME Window = 1, ConnInv, NoneLost, OrderInv, [Next]_vars
  PROVE  OrderInv'
  <1>1. OneAtATime'
    BY SendsOneAtATime DEF OrderInv
  <1>2. /\ {got, wire_in, wire_out, recv_buf, send_buf, out} \subseteq Seq(Nat)
        /\ Len(got) \in Nat /\ Len(wire_in) \in Nat /\ Len(wire_out) \in Nat
        /\ Len(recv_buf) \in Nat /\ Len(send_buf) \in Nat /\ Len(out) \in Nat
        /\ nsent \in Nat
    BY Sizes DEF ConnInv, TypeOK
  <1>3. Lasts' => Lasts
    BY StillLasts
  <1>4. From(got, 0) /\ From(wire_out, Len(got))
    BY DEF OrderInv, OnItsWay
  <1>5. Lasts => /\ From(send_buf, Len(got) + Len(wire_out))
                 /\ From(out, Len(got) + Len(wire_out) + Len(send_buf))
                 /\ pc = "send" => send_buf = <<>>
    BY DEF OrderInv, OnItsWay
  <1>6. CASE PeerRecv
    <2>1. /\ UNCHANGED <<send_buf, out, pc, peer>>
          /\ wire_out # <<>> /\ got' = Append(got, Head(wire_out)) /\ wire_out' = Tail(wire_out)
      BY <1>6 DEF PeerRecv, bufs
    <2>2. /\ Head(wire_out) = wire_out[1] /\ Head(wire_out) \in Nat
          /\ wire_out' \in Seq(Nat) /\ Len(wire_out') = Len(wire_out) - 1
          /\ \A i \in 1 .. Len(wire_out') : wire_out'[i] = wire_out[i + 1]
      BY <1>2, <2>1, HeadTailProperties
    <2>3. Len(wire_out) > 0
      BY <1>2, <2>1
    <2>4. Head(wire_out) = Len(got) + 1
      BY <1>2, <1>4, <2>2, <2>3 DEF From
    <2>5. /\ Len(got') = Len(got) + 1
          /\ \A i \in 1 .. Len(got) : got'[i] = got[i]
          /\ got'[Len(got) + 1] = Len(got) + 1
      BY <1>2, <2>1, <2>2, <2>4, AppendProperties
    <2>6. From(got', 0)
      <3>1. \A i \in 1 .. Len(got) + 1 : i \in 1 .. Len(got) \/ i = Len(got) + 1
        BY <1>2
      <3>2. \A i \in 1 .. Len(got) : got[i] = 0 + i /\ i \in Nat
        BY <1>2, <1>4 DEF From
      <3>3. \A i \in 1 .. Len(got) + 1 : got'[i] = 0 + i
        <4> TAKE i \in 1 .. Len(got) + 1
        <4>1. CASE i \in 1 .. Len(got)
          BY <2>5, <3>2, <4>1
        <4>2. CASE i = Len(got) + 1
          BY <1>2, <2>5, <4>2
        <4> QED BY <3>1, <4>1, <4>2
      <3> QED BY <2>5, <3>3 DEF From
    <2>7. From(wire_out', Len(got'))
      <3>1. \A i \in 1 .. Len(wire_out') : i + 1 \in 1 .. Len(wire_out)
        BY <1>2, <2>2
      <3>2. \A i \in 1 .. Len(wire_out') : wire_out[i + 1] = Len(got) + (i + 1)
        BY <1>4, <3>1 DEF From
      <3>3. \A i \in 1 .. Len(wire_out') : Len(got) + (i + 1) = Len(got') + i
        BY <1>2, <2>5
      <3> QED BY <2>2, <3>2, <3>3 DEF From
    <2>8. Len(got') + Len(wire_out') = Len(got) + Len(wire_out)
      BY <1>2, <2>2, <2>5
    <2>9. Lasts' <=> Lasts
      BY <2>1 DEF Lasts
    <2>10. OnItsWay'
      BY <1>5, <2>1, <2>7, <2>8, <2>9 DEF OnItsWay, From
    <2> QED BY <1>1, <2>6, <2>10 DEF OrderInv
  <1>7. CASE PeerReset
    <2>1. got' = got /\ wire_out' = <<>> /\ peer' = "reset"
      BY <1>7 DEF PeerReset
    <2> QED BY <1>1, <1>4, <2>1 DEF OrderInv, OnItsWay, Lasts, From
  <1>8. CASE Do
    <2>1. UNCHANGED <<got, wire_out>>
      BY <1>8 DEF Do, CloseConn, peervars, wires
    <2>2. ASSUME Lasts'
          PROVE  /\ From(send_buf', Len(got) + Len(wire_out))
                 /\ From(out', Len(got) + Len(wire_out) + Len(send_buf'))
                 /\ pc' = "send" => send_buf' = <<>>
      <3> DEFINE nr == IF recv_buf = <<>> THEN 0 ELSE Parse(recv_buf)
      <3>1. CASE nr = 0
        <4>1. UNCHANGED <<send_buf, out>> /\ pc' = "idle"
          BY <1>8, <2>2, <3>1 DEF Do, CloseConn, Lasts, bufs
        <4> QED BY <1>3, <1>5, <2>2, <4>1
      <3>2. CASE nr # 0
        <4>1. /\ pc = "do" /\ nr > 0 /\ recv_buf # <<>>
              /\ send_buf' = send_buf /\ out' = SubSeq(recv_buf, 1, nr)
          BY <1>8, <2>2, <3>2 DEF Do, CloseConn, Lasts
        <4>2. PICK c \in 0 .. NCmds :
                /\ From(recv_buf, EndOf[c])
                /\ nsent = EndOf[c] + Len(recv_buf) + Len(wire_in)
          BY <4>1 DEF ConnInv, InStream
        <4>3. EndOf[c] \in Nat /\ Len(recv_buf) > 0
          BY <1>2, <4>1, Sizes
        <4>4. Len(got) >= EndOf[c]
          BY <1>2, <4>2, <4>3 DEF OrderInv, OneAtATime
        <4>5. Len(got) + Len(wire_out) + Len(send_buf) + Len(out) = EndOf[c]
          <5>1. HowMany = nsent
            BY <1>3, <2>2 DEF NoneLost
          <5>2. nsent = EndOf[c] + Len(recv_buf) + Len(wire_in) /\ EndOf[c] \in Nat
            BY <4>2, <4>3
          <5> DEFINE before == Len(got) + Len(wire_out) + Len(send_buf) + Len(out)
          <5>3. before \in Nat /\ Len(recv_buf) \in Nat /\ Len(wire_in) \in Nat
            BY <1>2
          <5>4. HowMany = before + Len(recv_buf) + Len(wire_in)
            BY DEF HowMany
          <5> HIDE DEF before
          <5>5. before = EndOf[c]
            BY <5>1, <5>2, <5>3, <5>4
          <5> QED BY <5>5 DEF before
        <4>6. Len(send_buf) = 0 /\ Len(wire_out) = 0 /\ Len(got) = EndOf[c]
          BY <1>2, <4>3, <4>4, <4>5
        <4>7. send_buf = <<>>
          BY <1>2, <4>6
        <4>8. nr \in 0 .. Len(recv_buf)
          BY <1>2, <4>1, TakesWhatIsThere
        <4> HIDE DEF nr
        <4>9. From(out', EndOf[c])
          BY <1>2, <4>1, <4>2, <4>3, <4>8, CutStream
        <4>10. Len(got) + Len(wire_out) + Len(send_buf') = EndOf[c]
          BY <1>2, <4>1, <4>3, <4>6
        <4> QED BY <1>3, <1>5, <2>2, <4>1, <4>7, <4>9, <4>10
      <3> QED BY <3>1, <3>2
    <2> QED BY <1>1, <1>4, <2>1, <2>2 DEF OrderInv, OnItsWay
  <1>9. CASE WriteReply
    <2> DEFINE n == NWrite(out)
               sent == SubSeq(out, 1, n)
    <2>1. /\ UNCHANGED <<got, send_buf, pc, peer>> /\ pc = "send" /\ peer # "reset"
          /\ wire_out' = wire_out \o sent /\ out' = SubSeq(out, n + 1, Len(out))
      BY <1>9 DEF WriteReply, peervars
    <2>2. n \in 0 .. Len(out)
      BY <1>2, WriteFacts DEF ConnInv, TypeOK
    <2>3. /\ sent \in Seq(Nat) /\ Len(sent) = n
      BY <1>2, <2>2, CutFacts
    <2> HIDE DEF n
    <2>4. send_buf = <<>> /\ Len(send_buf) = 0 /\ Lasts
      BY <1>5, <2>1 DEF Lasts
    <2>5. From(out, Len(got) + Len(wire_out))
      BY <1>2, <1>5, <2>4
    <2>6. From(sent, Len(got) + Len(wire_out)) /\ From(out', Len(got) + Len(wire_out) + n)
      BY <1>2, <2>1, <2>2, <2>5, CutStream
    <2> HIDE DEF sent
    <2>7. From(wire_out', Len(got)) /\ Len(wire_out') = Len(wire_out) + n
      <3>1. wire_out \in Seq(Nat) /\ Len(got) \in Nat
        BY <1>2
      <3>2. From(wire_out \o sent, Len(got))
        BY <1>4, <2>3, <2>6, <3>1, JoinStream
      <3>3. Len(wire_out \o sent) = Len(wire_out) + Len(sent)
        BY <2>3, <3>1, ConcatProperties
      <3> QED BY <2>1, <2>3, <3>2, <3>3
    <2>8. Len(got) + Len(wire_out') + Len(send_buf) = Len(got) + Len(wire_out) + n
      BY <1>2, <2>2, <2>4, <2>7
    <2>9. From(send_buf', Len(got') + Len(wire_out'))
      BY <2>1, <2>4 DEF From
    <2> QED BY <1>1, <1>4, <2>1, <2>4, <2>6, <2>7, <2>8, <2>9 DEF OrderInv, OnItsWay
  <1>10. CASE WriteRemain
    <2> DEFINE n == NWrite(send_buf)
               sent == SubSeq(send_buf, 1, n)
    <2>1. /\ UNCHANGED <<got, out, pc, peer>> /\ pc = "remain" /\ peer # "reset"
          /\ wire_out' = wire_out \o sent /\ send_buf' = SubSeq(send_buf, n + 1, Len(send_buf))
      BY <1>10 DEF WriteRemain, peervars
    <2>2. n \in 0 .. Len(send_buf)
      BY <1>2, WriteFacts DEF ConnInv, TypeOK
    <2>3. /\ sent \in Seq(Nat) /\ Len(sent) = n /\ Len(send_buf') = Len(send_buf) - n
      BY <1>2, <2>1, <2>2, CutFacts
    <2> HIDE DEF n
    <2>4. From(send_buf, Len(got) + Len(wire_out))
      BY <1>5, <2>1 DEF Lasts
    <2>5. From(sent, Len(got) + Len(wire_out)) /\ From(send_buf', Len(got) + Len(wire_out) + n)
      BY <1>2, <2>1, <2>2, <2>4, CutStream
    <2> HIDE DEF sent
    <2>6. From(wire_out', Len(got)) /\ Len(wire_out') = Len(wire_out) + n
      <3>1. wire_out \in Seq(Nat) /\ Len(got) \in Nat
        BY <1>2
      <3>2. From(wire_out \o sent, Len(got))
        BY <1>4, <2>3, <2>5, <3>1, JoinStream
      <3>3. Len(wire_out \o sent) = Len(wire_out) + Len(sent)
        BY <2>3, <3>1, ConcatProperties
      <3> QED BY <2>1, <2>3, <3>2, <3>3
    <2>7. Len(got) + Len(wire_out') = Len(got) + Len(wire_out) + n
      BY <1>2, <2>2, <2>6
    <2>8. out = <<>>
      BY <2>1 DEF ConnInv, MaskAgrees
    <2>9. From(out', Len(got') + Len(wire_out') + Len(send_buf'))
      BY <2>1, <2>8 DEF From
    <2> QED BY <1>1, <1>4, <2>1, <2>5, <2>6, <2>7, <2>9 DEF OrderInv, OnItsWay
  <1>11. CASE SendReturns
    <2>1. UNCHANGED <<got, wire_out>>
      BY <1>11 DEF SendReturns, CloseConn, peervars, wires
    <2>2. ASSUME Lasts'
          PROVE  /\ From(send_buf', Len(got) + Len(wire_out))
                 /\ From(out', Len(got) + Len(wire_out) + Len(send_buf'))
                 /\ pc' # "send"
      <3>1. pc = "send" /\ pc' = "do"
        BY <1>11, <2>2 DEF SendReturns, CloseConn, Lasts
      <3>2. send_buf = <<>> /\ Len(send_buf) = 0
        BY <1>3, <1>5, <2>2, <3>1
      <3>3. From(out, Len(got) + Len(wire_out))
        BY <1>2, <1>3, <1>5, <2>2, <3>2
      <3>4. out' = <<>> /\ send_buf' = out
        <4>1. <<>> \o out = out
          BY <1>2, ConcatEmptySeq
        <4> QED BY <1>11, <2>2, <3>2, <4>1 DEF SendReturns, CloseConn, Lasts, bufs
      <3> QED BY <3>1, <3>3, <3>4 DEF From
    <2> QED BY <1>1, <1>4, <2>1, <2>2 DEF OrderInv, OnItsWay
  <1>12. CASE \/ PeerSend \/ PeerShut \/ AtRest \/ UNCHANGED vars
              \/ BeginRecv \/ WaitEvent \/ OnRead \/ OnWriteRemain \/ RemainReturns
    <2>1. UNCHANGED <<got, wire_out>>
      BY <1>12 DEF PeerSend, PeerShut, AtRest, BeginRecv, WaitEvent, OnRead, OnWriteRemain,
                   RemainReturns, CloseConn, vars, peervars, wires
    <2>2. ASSUME Lasts' PROVE UNCHANGED <<send_buf, out>> /\ (pc' = "send" => pc = "send")
      BY <1>12, <2>2 DEF PeerSend, PeerShut, AtRest, BeginRecv, WaitEvent, OnRead,
                         OnWriteRemain, RemainReturns, CloseConn, Lasts, vars, bufs
    <2> QED BY <1>1, <1>3, <1>4, <1>5, <2>1, <2>2 DEF OrderInv, OnItsWay
  <1> QED BY <1>6, <1>7, <1>8, <1>9, <1>10, <1>11, <1>12 DEF Next, Step

(* A peer that waits for each reply before it sends the next command reads *)
(* back what it sent, in order: a reply is never written while the rest of *)
(* an earlier one waits in send_buf_, which is where Send would go wrong.  *)
THEOREM OneAtATimeInOrder ==
  ASSUME Window = 1
  PROVE  Spec => []EchoesInOrder
  <1>1. Init => OrderInv
    <2> SUFFICES ASSUME Init PROVE OrderInv
      OBVIOUS
    <2>1. \A c \in 0 .. NCmds : EndOf[c] \in Nat
      BY Sizes
    <2> QED BY <2>1 DEF Init, OrderInv, OneAtATime, OnItsWay, From
  <1>2. Init => NoneLost
    BY NoneLostAtFirst
  <1>3. ConnInv /\ NoneLost /\ [Next]_vars => NoneLost'
    BY BytesMove
  <1>4. ConnInv /\ NoneLost /\ OrderInv /\ [Next]_vars => OrderInv'
    BY OrderKept
  <1>5. ConnInv /\ OrderInv => EchoesInOrder
    <2> SUFFICES ASSUME ConnInv, OrderInv PROVE EchoesInOrder
      OBVIOUS
    <2>1. got \in Seq(Nat)
      BY DEF ConnInv, TypeOK
    <2> QED BY <2>1 DEF OrderInv, From, EchoesInOrder
  <1> QED BY <1>1, <1>2, <1>3, <1>4, <1>5, ConnInvariance, PTL DEF Spec

=============================================================================
