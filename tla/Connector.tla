----------------------------- MODULE Connector ------------------------------
(***************************************************************************)
(* One connection of the echo server: Connector of                         *)
(* src/echo_svr/connector.cpp, the command framing of src/echo_svr/proto.h *)
(* and what TServer::Do makes of them, against a peer that sends commands  *)
(* and reads the replies at its own pace, and a kernel with bounded socket *)
(* buffers and edge-triggered epoll.                                       *)
(*                                                                         *)
(* The bytes of the peer's stream are numbered; a reply has the bytes of   *)
(* its command.  The connection's buffers are sequences of such numbers.   *)
(* The callbacks are spelled out step by step, as the peer and the kernel  *)
(* go on meanwhile.                                                        *)
(***************************************************************************)
EXTENDS Integers, Sequences, FiniteSets

CONSTANTS
  NCmds,        (* how many commands the peer sends                        *)
  EndOf,        (* the number of the last byte of each of them             *)
  HeadLen,      (* sizeof(MsgHeader)                                       *)
  MaxCmdLen,    (* MAX_CMD_LEN                                             *)
  BuffSize,     (* DEFAULT_BUFF_SIZE                                       *)
  SockRecv,     (* bytes the kernel holds for the server to read           *)
  SockSend,     (* bytes the kernel takes from it before EAGAIN            *)
  Window,       (* commands the peer sends before it waits for a reply     *)
  PeerLeaves    (* the ways the peer may end the connection                *)

ASSUME ConnectorAssumption ==
  /\ {NCmds, HeadLen, MaxCmdLen, BuffSize, SockRecv, SockSend, Window} \subseteq Nat \ {0}
  /\ EndOf \in [0 .. NCmds -> Nat]
  /\ EndOf[0] = 0
  /\ \A c, d \in 0 .. NCmds : c < d => EndOf[c] < EndOf[d]
  /\ HeadLen <= MaxCmdLen /\ MaxCmdLen <= BuffSize
  /\ PeerLeaves \subseteq {"shut", "reset"}

VARIABLES
  nsent,      (* how many bytes the peer has sent                          *)
  got,        (* the bytes it has read                                     *)
  peer,       (* "open", "shut" after a FIN, "reset" after a RST           *)
  wire_in,    (* kernel: bytes to be read                                  *)
  wire_out,   (* kernel: bytes written and not yet delivered               *)
  armed,      (* kernel: is the descriptor on epoll's ready list           *)
  fired,      (* the mask of the event being handled                       *)
  watch,      (* the task's mask and the callback bound with it            *)
  recv_buf,   (* recv_buf_                                                 *)
  send_buf,   (* send_buf_                                                 *)
  out,        (* what is left of the reply Send is writing                 *)
  pc          (* where the connection's code stands                        *)

peervars == <<nsent, got, peer>>
wires    == <<wire_in, wire_out>>
epoll    == <<armed, fired, watch>>
bufs     == <<recv_buf, send_buf, out>>
vars     == <<peervars, wires, epoll, bufs, pc>>

-----------------------------------------------------------------------------
(* Commands *)

Cmds == 1 .. NCmds

(* The length in the header of the command whose first byte this is. *)
LenOfCmdAt(byte) == LET c == CHOOSE d \in Cmds : EndOf[d - 1] + 1 = byte
                    IN  EndOf[c] - EndOf[c - 1]

(* Fault: the length in the header is trusted. *)
ParseTrusting(buf) ==
  LET msg_len == LenOfCmdAt(Head(buf))
  IN  IF Len(buf) < HeadLen \/ msg_len > Len(buf) THEN 0 ELSE msg_len

(* Cmd::Parse: the bytes of the command at the front, 0 if there are not   *)
(* enough of them yet, -1 for a length that cannot be.                     *)
Parse(buf) ==
  LET msg_len == LenOfCmdAt(Head(buf))
  IN  CASE Len(buf) < HeadLen -> 0
        [] Len(buf) >= HeadLen /\ (msg_len > MaxCmdLen \/ msg_len < HeadLen) -> -1
        [] Len(buf) >= HeadLen /\ msg_len \in HeadLen .. MaxCmdLen ->
             IF msg_len > Len(buf) THEN 0 ELSE msg_len

-----------------------------------------------------------------------------
(* The kernel *)

Gone == peer \in {"shut", "reset"}

(* What epoll reports for the mask w: EPOLLRDHUP, EPOLLHUP and EPOLLERR    *)
(* whatever it is.                                                         *)
Readiness(w) ==
  (IF w = "read" /\ (wire_in # <<>> \/ Gone) THEN {"in"} ELSE {}) \cup
  (IF w = "write" /\ (Len(wire_out) < SockSend \/ peer = "reset") THEN {"out"} ELSE {}) \cup
  (IF Gone THEN {"rdhup"} ELSE {}) \cup
  (IF peer = "reset" THEN {"hup", "err"} ELSE {})

(* EPOLL_CTL_ADD and EPOLL_CTL_MOD look at the state of the socket. *)
Watch(w) ==
  /\ watch' = w
  /\ armed' = (armed \/ Readiness(w) # {})

NWrite(s) == LET free == SockSend - Len(wire_out)
             IN  IF free < Len(s) THEN free ELSE Len(s)

-----------------------------------------------------------------------------
(* The peer *)

Answered == Cardinality({c \in Cmds : EndOf[c] <= Len(got)})

Init ==
  /\ nsent = 0 /\ got = <<>> /\ peer = "open"
  /\ wire_in = <<>> /\ wire_out = <<>>
  /\ armed = FALSE /\ fired = {} /\ watch = "none"
  /\ recv_buf = <<>> /\ send_buf = <<>> /\ out = <<>>
  /\ pc = "new"

(* Bytes arrive one by one; each arrival is an edge for a reader.  The     *)
(* peer starts a command only while fewer than Window wait for a reply.    *)
PeerSend ==
  /\ peer = "open" /\ pc \notin {"closed", "freed"}
  /\ \E c \in Cmds : c <= Answered + Window /\ nsent < EndOf[c]
  /\ Len(wire_in) < SockRecv
  /\ nsent' = nsent + 1
  /\ wire_in' = Append(wire_in, nsent + 1)
  /\ armed' = (armed \/ watch = "read")
  /\ UNCHANGED <<got, peer, wire_out, fired, watch, bufs, pc>>

(* The peer reads.  The kernel wakes a writer some time before the socket  *)
(* has drained.                                                            *)
PeerRecv ==
  /\ peer # "reset"
  /\ wire_out # <<>>
  /\ got' = Append(got, Head(wire_out))
  /\ wire_out' = Tail(wire_out)
  /\ armed' \in IF watch = "write"
                THEN {TRUE} \cup (IF wire_out' # <<>> THEN {armed} ELSE {})
                ELSE {armed}
  /\ UNCHANGED <<nsent, peer, wire_in, fired, watch, bufs, pc>>

PeerShut ==
  /\ "shut" \in PeerLeaves
  /\ peer = "open"
  /\ peer' = "shut"
  /\ armed' = (armed \/ watch # "none")
  /\ UNCHANGED <<nsent, got, wires, fired, watch, bufs, pc>>

(* What has come stays to be read, what was to go is dropped. *)
PeerReset ==
  /\ "reset" \in PeerLeaves
  /\ peer # "reset"
  /\ peer' = "reset"
  /\ wire_out' = <<>>
  /\ armed' = (armed \/ watch # "none")
  /\ UNCHANGED <<nsent, got, wire_in, fired, watch, bufs, pc>>

-----------------------------------------------------------------------------
(* The connector *)

(* epoll takes the task.  A connection whose task it refuses does nothing   *)
(* at all until its timer closes it: that one is TServer's.                *)
BeginRecv ==
  /\ pc = "new"
  /\ Watch("read")
  /\ pc' = "idle"
  /\ UNCHANGED <<peervars, wires, fired, bufs>>

(* TServer::CloseConn: the task is stopped and the connector deleted; into *)
(* "freed" when the code goes on with the connector after that.            *)
CloseConn(to) ==
  /\ watch' = "none" /\ armed' = FALSE /\ fired' = {}
  /\ recv_buf' = <<>> /\ send_buf' = <<>> /\ out' = <<>>
  /\ pc' = to
  /\ UNCHANGED <<peervars, wires>>

(* epoll_wait: an edge is reported once, with the state of the moment. *)
WaitEvent ==
  /\ pc = "idle"
  /\ armed
  /\ armed' = FALSE
  /\ fired' = Readiness(watch)
  /\ pc' = IF fired' = {} THEN "idle" ELSE "fired"
  /\ UNCHANGED <<peervars, wires, watch, bufs>>

(* Fault: a peer that has shut its side is not noticed. *)
MaskIsBadIgnoresRdhup == fired \cap {"hup", "err"} # {}

(* CheckMask *)
MaskIsBad == fired \cap {"rdhup", "hup", "err"} # {}

(* Fault: the room in recv_buf_ is not looked at. *)
OnReadIgnoresRoom ==
  /\ pc = "fired" /\ watch = "read"
  /\ \/ MaskIsBad /\ CloseConn("closed")
     \/ /\ ~ MaskIsBad
        /\ recv_buf' = recv_buf \o wire_in
        /\ wire_in' = <<>>
        /\ pc' = "do"
        /\ fired' = {}
        /\ UNCHANGED <<peervars, wire_out, armed, watch, send_buf, out>>

(* RemainSize of recv_buf_, and what InnerRead takes. *)
Room == BuffSize - Len(recv_buf)

NRead == IF Len(wire_in) < Room THEN Len(wire_in) ELSE Room

(* OnRead takes what the socket holds as far as recv_buf_ has room; when   *)
(* it has room for more, read() comes to the error of a reset connection.  *)
(* Do is called with what there is.                                        *)
OnRead ==
  LET n     == NRead
      fails == peer = "reset" /\ n < Room
  IN  /\ pc = "fired" /\ watch = "read"
      /\ \/ /\ MaskIsBad \/ fails
            /\ CloseConn("closed")
         \/ /\ ~ MaskIsBad /\ ~ fails
            /\ recv_buf' = recv_buf \o SubSeq(wire_in, 1, n)
            /\ wire_in' = SubSeq(wire_in, n + 1, Len(wire_in))
            /\ pc' = "do"
            /\ fired' = {}
            /\ UNCHANGED <<peervars, wire_out, armed, watch, send_buf, out>>

(* One turn of the loop in TServer::Do: the next command, if it is there,  *)
(* is taken from the buffer and sent back.                                 *)
Do ==
  LET nr == IF recv_buf = <<>> THEN 0 ELSE Parse(recv_buf)
  IN  /\ pc = "do"
      /\ \/ nr < 0 /\ CloseConn("closed")
         \/ /\ nr = 0
            /\ pc' = "idle"
            /\ UNCHANGED <<peervars, wires, epoll, bufs>>
         \/ /\ nr > 0
            /\ out' = SubSeq(recv_buf, 1, nr)
            /\ recv_buf' = SubSeq(recv_buf, nr + 1, Len(recv_buf))
            /\ pc' = "send"
            /\ UNCHANGED <<peervars, wires, epoll, send_buf>>

(* InnerWrite, one write() each: from the reply, or from send_buf_. *)
WriteReply ==
  /\ pc = "send"
  /\ peer # "reset"
  /\ NWrite(out) > 0
  /\ wire_out' = wire_out \o SubSeq(out, 1, NWrite(out))
  /\ out' = SubSeq(out, NWrite(out) + 1, Len(out))
  /\ UNCHANGED <<peervars, wire_in, epoll, recv_buf, send_buf, pc>>

(* Fault: send_buf_ is not moved on by what was written. *)
WriteRemainAgain ==
  /\ pc = "remain"
  /\ peer # "reset"
  /\ NWrite(send_buf) > 0
  /\ wire_out' = wire_out \o SubSeq(send_buf, 1, NWrite(send_buf))
  /\ UNCHANGED <<peervars, wire_in, epoll, bufs, pc>>

WriteRemain ==
  /\ pc = "remain"
  /\ peer # "reset"
  /\ NWrite(send_buf) > 0
  /\ wire_out' = wire_out \o SubSeq(send_buf, 1, NWrite(send_buf))
  /\ send_buf' = SubSeq(send_buf, NWrite(send_buf) + 1, Len(send_buf))
  /\ UNCHANGED <<peervars, wire_in, epoll, recv_buf, out, pc>>

(* Fault: a rest that just fits is refused. *)
StillFitsOffByOne == Len(out) < BuffSize - Len(send_buf)

(* The room send_buf_ has is enough for what is left. *)
StillFits == Len(out) <= BuffSize - Len(send_buf)

(* Send is over: all is written, or what is left goes to send_buf_ for     *)
(* OnWriteRemain; if it does not fit, or write fails, the connection is    *)
(* closed by the callback OnWriteErr, and Do goes on with it all the same. *)
SendReturns ==
  /\ pc = "send"
  /\ \/ /\ peer = "reset" /\ out # <<>>
        /\ CloseConn("freed")
     \/ /\ out = <<>>
        /\ pc' = "do"
        /\ UNCHANGED <<peervars, wires, epoll, bufs>>
     \/ /\ peer # "reset" /\ out # <<>> /\ NWrite(out) = 0
        /\ IF StillFits
           THEN /\ send_buf' = send_buf \o out
                /\ out' = <<>>
                /\ Watch("write")
                /\ pc' = "do"
                /\ UNCHANGED <<peervars, wires, fired, recv_buf>>
           ELSE CloseConn("freed")

OnWriteRemain ==
  /\ pc = "fired" /\ watch = "write"
  /\ \/ /\ MaskIsBad
        /\ CloseConn("closed")
     \/ /\ ~ MaskIsBad
        /\ pc' = "remain"
        /\ fired' = {}
        /\ UNCHANGED <<peervars, wires, armed, watch, bufs>>

(* Fault: the mask is not set back to EV_READABLE. *)
RemainForgetsToRead ==
  /\ pc = "remain"
  /\ send_buf = <<>> \/ NWrite(send_buf) = 0
  /\ watch' = IF send_buf = <<>> THEN "none" ELSE "write"
  /\ pc' = "idle"
  /\ UNCHANGED <<peervars, wires, armed, fired, bufs>>

(* Fault: the connection reads again after the first event. *)
RemainReadsTooSoon ==
  /\ pc = "remain"
  /\ send_buf = <<>> \/ NWrite(send_buf) = 0 \/ peer = "reset"
  /\ Watch("read")
  /\ pc' = "idle"
  /\ UNCHANGED <<peervars, wires, fired, bufs>>

(* When all is sent the connection reads again. *)
RemainReturns ==
  /\ pc = "remain"
  /\ \/ /\ peer = "reset" /\ send_buf # <<>>
        /\ CloseConn("closed")
     \/ /\ send_buf = <<>>
        /\ Watch("read")
        /\ pc' = "idle"
        /\ UNCHANGED <<peervars, wires, fired, bufs>>
     \/ /\ peer # "reset" /\ send_buf # <<>> /\ NWrite(send_buf) = 0
        /\ pc' = "idle"
        /\ UNCHANGED <<peervars, wires, epoll, bufs>>

Step ==
  \/ BeginRecv
  \/ WaitEvent
  \/ OnRead \/ Do
  \/ WriteReply \/ SendReturns
  \/ OnWriteRemain \/ WriteRemain \/ RemainReturns

(* The connection is at rest: nothing is left to send or to be told. *)
AtRest ==
  /\ \/ pc \in {"closed", "freed"}
     \/ pc = "idle" /\ ~ armed
  /\ UNCHANGED vars

Next == PeerSend \/ PeerRecv \/ PeerShut \/ PeerReset \/ Step \/ AtRest

Spec == Init /\ [][Next]_vars

(* The loop serves the connection, and the peer reads what comes. *)
FairSpec == Spec /\ WF_vars(Step) /\ WF_vars(PeerRecv)

-----------------------------------------------------------------------------
(* Properties *)

(* Every variable keeps its type. *)
TypeOK ==
  /\ nsent \in 0 .. EndOf[NCmds]
  /\ got \in Seq(Nat)
  /\ peer \in {"open", "shut", "reset"}
  /\ wire_in \in Seq(Nat) /\ Len(wire_in) <= SockRecv
  /\ wire_out \in Seq(Nat) /\ Len(wire_out) <= SockSend
  /\ armed \in BOOLEAN
  /\ fired \subseteq {"in", "out", "rdhup", "hup", "err"}
  /\ watch \in {"none", "read", "write"}
  /\ recv_buf \in Seq(Nat) /\ Len(recv_buf) <= BuffSize
  /\ send_buf \in Seq(Nat) /\ Len(send_buf) <= BuffSize
  /\ out \in Seq(Nat)
  /\ pc \in {"new", "idle", "fired", "do", "send", "remain", "closed", "freed"}

(* The peer reads back exactly what it sent, in the order it sent it,      *)
(* however its commands are cut by the socket and the partial writes.      *)
EchoesInOrder == \A i \in DOMAIN got : got[i] = i

(* While the connection lasts each byte is in one place: read or in one of *)
(* the buffers, once.                                                      *)
BytesConserved ==
  LET all == got \o wire_out \o send_buf \o out \o recv_buf \o wire_in
  IN  pc \notin {"closed", "freed"} /\ peer # "reset" =>
        /\ Len(all) = nsent
        /\ \A b \in 1 .. nsent : \E i \in DOMAIN all : all[i] = b

(* When the connection waits for an event it waits for the one it needs:   *)
(* for the socket to drain if and only if bytes are left to be sent.       *)
PendingIsWatched == pc = "idle" => (watch = "write" <=> send_buf # <<>>)

(* What is still to be answered always fits into send_buf_: the connection *)
(* does not read while it has bytes to send, so Send never finds too       *)
(* little room, however slowly the peer reads its replies.                 *)
RepliesFit ==
  pc \in {"do", "send"} => Len(send_buf) + Len(out) + Len(recv_buf) <= BuffSize

(* When it waits for the rest of a command recv_buf_ has room for more,    *)
(* since no command Parse waits for is longer than the buffer.             *)
RoomForTheRest == pc = "idle" => Len(recv_buf) < BuffSize

(* Do goes on with a connector that Send has had deleted only when the     *)
(* peer has reset the connection, never for want of room.                  *)
FreedOnlyByReset == pc = "freed" => peer = "reset"

(* A command that was sent is answered in the end, unless the connection   *)
(* is closed: no edge of the socket is missed.                             *)
EveryCommandAnswered ==
  \A c \in Cmds :
    nsent >= EndOf[c] ~> Len(got) >= EndOf[c] \/ pc \in {"closed", "freed"}

(* The connection of a peer that left is closed, whatever was under way.   *)
LeavingPeerIsClosed == Gone ~> pc \in {"closed", "freed"}

=============================================================================
