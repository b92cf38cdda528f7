----------------------------- MODULE ServerProofs -----------------------------
(***************************************************************************)
(* The server's half of the inductive invariant of Tunnel: its types, the  *)
(* replay window of the target's bytes and who attends to the session.     *)
(* Only the type of what a frame carries is used of the network here, so   *)
(* the proof does not depend on what the client does.                      *)
(***************************************************************************)
EXTENDS Tunnel, WireProofs

\* What the pcs of the server's goroutines say of what they hold.
ServerPcs ==
  /\ \A c \in Conns : handler[c].pc = "reply" => handler[c].out # <<>>
  /\ reader.pc = "send" => reader.conn \in Conns

ServerBuffered == Len(sess.s2cBuf) < BufferBytes + Chunk

ServerInv ==
  ServerTypeOK /\ ServerPcs /\ ServerReplayWindow /\ ServerBuffered /\ SessionAttended

\* The part of the session that ServerReplayWindow is about is the same in t.
SameWindow(s, t) ==
  /\ t.s2cBuf = s.s2cBuf /\ t.s2cBufFrom = s.s2cBufFrom
  /\ t.s2cAck = s.s2cAck /\ t.s2cNext = s.s2cNext

-----------------------------------------------------------------------------
(* The session's methods. *)

LEMMA SessMethods ==
  ASSUME NEW s \in SessType
  PROVE  /\ \A c \in Conns : Disconnect(s, c) \in SessType /\ SameWindow(s, Disconnect(s, c))
         /\ \A code \in Codes :
              CloseTerminal(s, code) \in SessType /\ SameWindow(s, CloseTerminal(s, code))
<1>1. ASSUME NEW c \in Conns
      PROVE  Disconnect(s, c) \in SessType /\ SameWindow(s, Disconnect(s, c))
  <2>1. CASE Disconnect(s, c) = s
    BY <2>1 DEF SameWindow
  <2>2. CASE Disconnect(s, c) = [s EXCEPT !.active = None, !.ttl = "armed"]
    BY <2>2 DEF SessType, SameWindow
  <2> QED BY <2>1, <2>2 DEF Disconnect
<1>2. ASSUME NEW code \in Codes
      PROVE  CloseTerminal(s, code) \in SessType /\ SameWindow(s, CloseTerminal(s, code))
  <2>1. CASE CloseTerminal(s, code) = s
    BY <2>1 DEF SameWindow
  <2>2. CASE CloseTerminal(s, code) =
               [s EXCEPT !.state = "closed", !.active = None, !.ttl = "off", !.code = code]
    BY <2>2 DEF SessType, SameWindow
  <2> QED BY <2>1, <2>2 DEF CloseTerminal
<1> QED BY <1>1, <1>2

LEMMA CloseTerminalNetType ==
  ASSUME NEW n \in NetType, NEW s \in SessType, NEW code \in Codes
  PROVE  CloseTerminalNet(n, s, code) \in NetType
<1>1. CASE s.state # "live" \/ s.active = None
  BY <1>1 DEF CloseTerminalNet
<1>2. CASE ~(s.state # "live" \/ s.active = None)
  <2>1. s.active \in Conns /\ s.epoch \in Nat
    BY <1>2 DEF SessType
  <2>2. ServerSend(n, s.active, Close(s.epoch, code)) \in NetType
    BY <2>1, EndFrameType, SendType
  <2> QED BY <1>2, <2>1, <2>2, ConnectionType DEF CloseTerminalNet
<1> QED BY <1>1, <1>2

\* An acknowledgement that advanceS2CAckLocked accepts keeps the window.
LEMMA AdvanceS2CAckWindow ==
  ASSUME NEW s \in SessType, Window(s.s2cBuf, s.s2cBufFrom, s.s2cAck, s.s2cNext),
         NEW offset \in Nat, ~AdvanceS2CAckFails(s, offset)
  PROVE  LET t == AdvanceS2CAck(s, offset)
         IN  /\ t \in SessType
             /\ Window(t.s2cBuf, t.s2cBufFrom, t.s2cAck, t.s2cNext)
             /\ Len(t.s2cBuf) <= Len(s.s2cBuf)
             /\ t.state = s.state /\ t.active = s.active /\ t.epoch = s.epoch
             /\ t.ttl = s.ttl /\ t.callback = s.callback /\ t.c2sRx = s.c2sRx
<1> DEFINE t == AdvanceS2CAck(s, offset)
           rest == SubSeq(s.s2cBuf, offset - s.s2cBufFrom + 1, Len(s.s2cBuf))
<1>1. CASE offset < s.s2cAck
  <2>1. t = s
    BY <1>1 DEF AdvanceS2CAck
  <2>2. Len(s.s2cBuf) \in Nat
    BY DEF SessType
  <2> QED BY <2>1, <2>2
<1>2. CASE ~(offset < s.s2cAck)
  <2>1. offset >= s.s2cAck /\ offset <= s.s2cNext
    BY <1>2 DEF SessType, AdvanceS2CAckFails
  <2>2. /\ Window(rest, offset, offset, s.s2cNext)
        /\ Len(rest) <= Len(s.s2cBuf)
    BY <2>1, WindowAcked
  <2>3. rest \in Seq(Nat)
    BY <2>2 DEF Window
  <2>4. t = [s EXCEPT !.s2cBuf = rest, !.s2cBufFrom = offset, !.s2cAck = offset]
    BY <1>2 DEF AdvanceS2CAck
  <2> HIDE DEF rest, t
  <2>5. /\ t \in SessType
        /\ t.s2cBuf = rest /\ t.s2cBufFrom = offset /\ t.s2cAck = offset /\ t.s2cNext = s.s2cNext
        /\ t.state = s.state /\ t.active = s.active /\ t.epoch = s.epoch
        /\ t.ttl = s.ttl /\ t.callback = s.callback /\ t.c2sRx = s.c2sRx
    BY <2>3, <2>4 DEF SessType
  <2> QED BY <2>2, <2>5 DEF t
<1> QED BY <1>1, <1>2

-----------------------------------------------------------------------------
(* What the steps have in common. *)

Working == {"reply", "run", "handle", "write"}

\* Handlers other than c's are left alone.
OthersKept(c) == \A d \in Conns \ {c} : handler'[d] = handler[d]

\* A handler that returns or goes back to reading frames.
LEMMA HandlerEnds ==
  ASSUME ServerInv, NEW c \in Conns,
         \/ handler' = [handler EXCEPT ![c] = Ended(@)]
         \/ handler' = [handler EXCEPT ![c] = Resumed(@)]
  PROVE  /\ handler' \in [Conns -> HandlerType]
         /\ OthersKept(c)
         /\ handler'[c].pc \in {"done", "run"} /\ handler'[c].epoch = handler[c].epoch
         /\ \A d \in Conns : handler'[d].pc = "reply" => handler'[d].out # <<>>
<1> DEFINE h == handler'[c]
<1>1. /\ handler \in [Conns -> HandlerType]
      /\ \A d \in Conns : handler[d].pc = "reply" => handler[d].out # <<>>
      /\ <<>> \in Seq(Frame)
  BY DEF ServerInv, ServerTypeOK, ServerPcs
<1>2. \/ h = [handler[c] EXCEPT !.pc = "done", !.frame = NoFrame, !.out = <<>>]
      \/ h = [handler[c] EXCEPT !.pc = "run", !.frame = NoFrame]
  BY <1>1 DEF Ended, Resumed
<1>3. handler' = [handler EXCEPT ![c] = h] /\ OthersKept(c)
  BY <1>1 DEF OthersKept
<1>4. handler[c] \in HandlerType
  BY <1>1
<1> HIDE DEF h
<1>5. h \in HandlerType /\ h.pc \in {"done", "run"} /\ h.epoch = handler[c].epoch
  BY <1>1, <1>2, <1>4, NoFrameType DEF HandlerType
<1>6. handler' \in [Conns -> HandlerType]
  BY <1>1, <1>3, <1>5
<1> QED BY <1>1, <1>3, <1>5, <1>6 DEF OthersKept, h

LEMMA HandlerResumes ==
  ASSUME ServerInv, NEW c \in Conns, handler' = [handler EXCEPT ![c] = Resumed(@)]
  PROVE  handler'[c].pc = "run"
BY DEF ServerInv, ServerTypeOK, HandlerType, Resumed

\* The session as far as ServerInv is concerned: its type, window and size.
SessKept ==
  /\ sess' \in SessType
  /\ ServerReplayWindow'
  /\ ServerBuffered'

LEMMA SameWindowKept ==
  ASSUME ServerInv, sess' \in SessType, SameWindow(sess, sess')
  PROVE  SessKept
BY DEF SessKept, ServerInv, ServerReplayWindow, ServerBuffered, SameWindow

\* A step of c's handler that leaves the session and its connection as they
\* are and goes on, or was never attending to it.
LEMMA StillAttended ==
  ASSUME ServerInv, NEW c \in Conns, OthersKept(c),
         sess' = sess \/ \E n \in Nat : sess' = [sess EXCEPT !.c2sRx = n],
         handler'[c].epoch = handler[c].epoch,
         handler'[c].pc \in Working \/ handler[c].pc \notin Working
  PROVE  SessionAttended'
<1>1. /\ sess'.state = sess.state /\ sess'.active = sess.active /\ sess'.epoch = sess.epoch
      /\ sess'.ttl = sess.ttl /\ sess'.callback = sess.callback
      /\ sess.active \in Conns \cup {None}
  BY DEF ServerInv, ServerTypeOK, SessType
<1>2. SessionAttended
  BY DEF ServerInv
<1> QED BY <1>1, <1>2 DEF SessionAttended, OthersKept, Working

\* disconnect by c's handler, whatever becomes of that handler.
LEMMA DisconnectKeeps ==
  ASSUME ServerInv, NEW c \in Conns, OthersKept(c), sess' = Disconnect(sess, c)
  PROVE  SessKept /\ SessionAttended'
<1>1. sess \in SessType
  BY DEF ServerInv, ServerTypeOK
<1>2. SessKept
  BY <1>1, SessMethods, SameWindowKept
<1>3. CASE sess.state # "live" \/ sess.active # c
  BY <1>1, <1>2, <1>3 DEF ServerInv, SessionAttended, Disconnect, OthersKept, SessType
<1>4. CASE ~(sess.state # "live" \/ sess.active # c)
  <2>1. sess'.active = None /\ sess'.ttl = "armed"
    BY <1>1, <1>4 DEF Disconnect, SessType
  <2> QED BY <1>2, <2>1 DEF SessionAttended
<1> QED BY <1>3, <1>4

\* closeTerminal ends a live session, and does nothing to any other.
LEMMA CloseTerminalKeeps ==
  ASSUME ServerInv, NEW code \in Codes, NEW s \in SessType,
         s.state = sess.state, SameWindow(sess, s), sess' = CloseTerminal(s, code)
  PROVE  SessKept /\ SessionAttended'
<1>1. sess' \in SessType /\ SameWindow(s, sess')
  BY SessMethods
<1>2. SameWindow(sess, sess')
  BY <1>1 DEF SameWindow
<1>3. sess'.state # "live"
  BY DEF CloseTerminal, SessType
<1> QED BY <1>1, <1>2, <1>3, SameWindowKept DEF SessionAttended

\* What a step has to establish, part by part.
HandlersKept ==
  /\ handler' \in [Conns -> HandlerType]
  /\ \A d \in Conns : handler'[d].pc = "reply" => handler'[d].out # <<>>
ReaderKept == reader' \in ReaderType /\ (reader'.pc = "send" => reader'.conn \in Conns)
TargetKept == target' \in TargetType /\ targetOverlap' \in BOOLEAN

LEMMA ServerInvParts ==
  ASSUME net' \in NetType, HandlersKept, ReaderKept, TargetKept, SessKept, SessionAttended'
  PROVE  ServerInv'
BY DEF HandlersKept, ReaderKept, TargetKept, SessKept, ServerInv, ServerTypeOK, ServerPcs

LEMMA UnchangedParts ==
  ASSUME ServerInv
  PROVE  /\ reader' = reader => ReaderKept
         /\ target' = target /\ targetOverlap' = targetOverlap => TargetKept
         /\ handler' = handler => HandlersKept
         /\ sess' = sess => SessKept
         /\ sess' = sess /\ handler' = handler => SessionAttended'
BY DEF ServerInv, ServerTypeOK, ServerPcs, ReaderKept, TargetKept, HandlersKept, SessKept,
       ServerReplayWindow, ServerBuffered, SessionAttended

\* What may be read from a connection, and what the handlers hold.
LEMMA ServerFrames ==
  ASSUME ServerInv, NEW c \in Conns
  PROVE  /\ net \in NetType
         /\ handler[c].epoch \in Nat /\ handler[c].frame \in Frame
         /\ handler[c].frame.offset \in Nat /\ handler[c].frame.payload \in Seq(Nat)
         /\ net.up[c] # <<>> => Head(net.up[c]) \in Frame /\ ServerRecv(net, c) \in NetType
         /\ sess \in SessType /\ sess.epoch \in Nat /\ sess.c2sRx \in Nat
<1>1. net \in NetType /\ handler[c] \in HandlerType /\ sess \in SessType
  BY DEF ServerInv, ServerTypeOK
<1>2. handler[c].frame \in Frame
  BY <1>1 DEF HandlerType
<1> QED BY <1>1, <1>2, ReceivedType DEF HandlerType, SessType, Frame

LEMMA ErrorAnswered ==
  ASSUME NEW n \in NetType, NEW c \in Conns
  PROVE  /\ ServerSend(n, c, Error) \in NetType
         /\ ServerClose(ServerSend(n, c, Error), c) \in NetType
         /\ ServerClose(ServerSend(ServerSend(n, c, Error), c, Error), c) \in NetType
BY EndFrameType, SendType, ConnectionType DEF Codes

\* Whatever a handler was doing, it may end in a protocol error.
LEMMA ProtocolErrorKeeps ==
  ASSUME ServerInv, NEW c \in Conns, ProtocolError(c),
         reader' = reader, target' = target, targetOverlap' = targetOverlap
  PROVE  ServerInv'
<1>1. HandlersKept /\ OthersKept(c)
  BY HandlerEnds DEF ProtocolError, HandlersKept
<1>2. SessKept /\ SessionAttended'
  BY <1>1, DisconnectKeeps DEF ProtocolError
<1>3. net' \in NetType
  BY ServerFrames, ErrorAnswered DEF ProtocolError
<1> QED BY <1>1, <1>2, <1>3, UnchangedParts, ServerInvParts

-----------------------------------------------------------------------------
(* wsServer.handle. *)

LEMMA AcceptNewKeeps ==
  ASSUME ServerInv, NEW c \in Conns, AcceptNew(c)
  PROVE  ServerInv'
<1>1. net' \in NetType
  BY ServerFrames DEF AcceptNew, HelloArrives
<1>2. <<Accept(1, 0, 0)>> \in Seq(Frame) /\ <<Accept(1, 0, 0)>> # <<>>
  BY AcceptType
<1>3. /\ handler \in [Conns -> HandlerType]
      /\ \A d \in Conns : handler[d].pc = "reply" => handler[d].out # <<>>
      /\ sess \in SessType /\ reader \in ReaderType
  BY DEF ServerInv, ServerTypeOK, ServerPcs
<1>4. /\ handler' = [handler EXCEPT ![c] =
            [handler[c] EXCEPT !.pc = "reply", !.epoch = 1, !.out = <<Accept(1, 0, 0)>>]]
      /\ sess' = [sess EXCEPT !.state = "live", !.epoch = 1, !.active = c]
      /\ reader' = [reader EXCEPT !.pc = "read"]
      /\ target' = target /\ targetOverlap' = targetOverlap
  BY <1>3 DEF AcceptNew
<1>5. HandlersKept
  BY <1>2, <1>3, <1>4 DEF HandlersKept, HandlerType
<1>6. sess' \in SessType /\ SameWindow(sess, sess')
  BY <1>3, <1>4 DEF SessType, SameWindow
<1>7. SessKept
  BY <1>6, SameWindowKept
<1>8. SessionAttended'
  <2>1. sess'.active = c /\ sess'.epoch = 1
    BY <1>3, <1>4 DEF SessType
  <2>2. handler'[c].pc = "reply" /\ handler'[c].epoch = 1
    BY <1>3, <1>4 DEF HandlerType
  <2> QED BY <2>1, <2>2, NoneAssumption DEF SessionAttended
<1>9. ReaderKept
  BY <1>3, <1>4 DEF ReaderKept, ReaderType
<1> QED BY <1>1, <1>4, <1>5, <1>7, <1>8, <1>9, UnchangedParts, ServerInvParts

LEMMA RefusedHelloKeeps ==
  ASSUME ServerInv, NEW c \in Conns,
         DialTargetFails(c) \/ RefuseResume(c) \/ ResumeTooLate(c)
  PROVE  ServerInv'
<1>1. /\ handler' = [handler EXCEPT ![c] = Ended(@)] /\ reader' = reader
      /\ target' = target /\ targetOverlap' = targetOverlap
      /\ handler[c].pc = "idle" /\ net.up[c] # <<>>
      /\ sess' = sess \/ sess' = CloseTerminal(sess, "resume_timeout")
  BY DEF DialTargetFails, RefuseResume, ResumeTooLate, HelloArrives
<1>2. HandlersKept /\ OthersKept(c) /\ handler'[c].epoch = handler[c].epoch
  BY <1>1, HandlerEnds DEF HandlersKept
<1>3. net' \in NetType
  <2>1. ServerRecv(net, c) \in NetType
    BY <1>1, ServerFrames
  <2> QED BY <2>1, ErrorAnswered DEF DialTargetFails, RefuseResume, ResumeTooLate
<1>4. SessKept /\ SessionAttended'
  <2>1. CASE sess' = sess
    BY <1>1, <1>2, <2>1, StillAttended, UnchangedParts DEF Working
  <2>2. CASE sess' = CloseTerminal(sess, "resume_timeout")
    <3>1. sess \in SessType /\ SameWindow(sess, sess) /\ "resume_timeout" \in Codes
      BY DEF ServerInv, ServerTypeOK, SameWindow, Codes
    <3> QED BY <2>2, <3>1, CloseTerminalKeeps
  <2> QED BY <1>1, <2>1, <2>2
<1> QED BY <1>1, <1>2, <1>3, <1>4, UnchangedParts, ServerInvParts

\* The resumed session: the new handler has its replies to send, and the
\* session's window starts at what the client has acknowledged.
LEMMA ResumeKeeps ==
  ASSUME ServerInv, NEW c \in Conns, Resume(c)
  PROVE  ServerInv'
<1> DEFINE hello == Head(net.up[c])
           s     == AdvanceS2CAck(sess, hello.serverToClientRx)
           epoch == NextEpoch(sess)
           fin   == IF sess.s2cFin THEN <<Fin(epoch, sess.s2cNext)>> ELSE <<>>
           out   == <<Accept(epoch, s.c2sRx, s.s2cAck)>> \o DataChunks(epoch, s.s2cBufFrom, s.s2cBuf)
                      \o fin
           h     == [handler[c] EXCEPT !.pc = "reply", !.epoch = epoch, !.out = out]
<1>1. /\ handler \in [Conns -> HandlerType]
      /\ \A d \in Conns : handler[d].pc = "reply" => handler[d].out # <<>>
      /\ sess \in SessType /\ sess.s2cNext \in Nat /\ sess.active \in Conns \cup {None}
      /\ Window(sess.s2cBuf, sess.s2cBufFrom, sess.s2cAck, sess.s2cNext)
      /\ Len(sess.s2cBuf) < BufferBytes + Chunk /\ Len(sess.s2cBuf) \in Nat
  BY DEF ServerInv, ServerTypeOK, ServerPcs, ServerReplayWindow, ServerBuffered, SessType, Window
<1>2. hello \in Frame /\ ServerRecv(net, c) \in NetType
  BY ServerFrames DEF Resume, HelloArrives
<1>3. /\ hello.serverToClientRx \in Nat /\ epoch \in Nat
      /\ ~AdvanceS2CAckFails(sess, hello.serverToClientRx)
  <2>1. hello.serverToClientRx \in Nat
    BY <1>2 DEF Frame
  <2>2. epoch \in Nat
    BY <1>1 DEF NextEpoch, SessType
  <2>3. ~AdvanceS2CAckFails(sess, hello.serverToClientRx)
    BY DEF Resume, ResumeRefused
  <2> QED BY <2>1, <2>2, <2>3
<1>4. /\ s \in SessType
      /\ Window(s.s2cBuf, s.s2cBufFrom, s.s2cAck, s.s2cNext)
      /\ Len(s.s2cBuf) <= Len(sess.s2cBuf)
  BY <1>1, <1>3, AdvanceS2CAckWindow
<1>5. net' \in NetType
  BY <1>1, <1>2, ConnectionType DEF Resume
<1>6. out \in Seq(Frame) /\ out # <<>>
  <2>1. s.s2cBufFrom \in Nat /\ s.s2cBuf \in Seq(Nat) /\ s.c2sRx \in Nat /\ s.s2cAck \in Nat
    BY <1>4 DEF SessType
  <2>2. <<Accept(epoch, s.c2sRx, s.s2cAck)>> \in Seq(Frame)
    BY <1>3, <2>1, AcceptType
  <2>3. DataChunks(epoch, s.s2cBufFrom, s.s2cBuf) \in Seq(Frame)
    BY <1>3, <2>1, DataChunksType
  <2>4. fin \in Seq(Frame)
    BY <1>1, <1>3, OffsetFrameType
  <2> HIDE DEF fin, s, epoch
  <2> QED BY <2>2, <2>3, <2>4
<1>7. /\ handler' = [handler EXCEPT ![c] = h]
      /\ reader' = reader /\ target' = target /\ targetOverlap' = targetOverlap
  BY <1>1 DEF Resume
<1>8. PICK slipped \in BOOLEAN :
        sess' = [s EXCEPT !.epoch = epoch, !.active = c, !.ttl = "off", !.callback = @ \/ slipped]
  BY DEF Resume
<1> HIDE DEF hello, s, epoch, fin, out
<1>9. HandlersKept
  BY <1>1, <1>3, <1>6, <1>7 DEF HandlersKept, HandlerType
<1>10. /\ sess' \in SessType /\ SameWindow(s, sess')
       /\ sess'.active = c /\ sess'.epoch = epoch
  BY <1>3, <1>4, <1>8 DEF SessType, SameWindow
<1>11. SessKept
  <2>1. Len(s.s2cBuf) \in Nat /\ Len(s.s2cBuf) < BufferBytes + Chunk
    BY <1>1, <1>4, BufferBytesAssumption, ChunkAssumption DEF Window
  <2> QED BY <1>4, <1>10, <2>1 DEF SessKept, SameWindow, Window, ServerReplayWindow, ServerBuffered
<1>12. SessionAttended'
  <2>1. handler'[c].pc = "reply" /\ handler'[c].epoch = epoch
    BY <1>1, <1>7 DEF HandlerType
  <2> QED BY <1>10, <2>1, NoneAssumption DEF SessionAttended
<1> QED BY <1>5, <1>7, <1>9, <1>11, <1>12, UnchangedParts, ServerInvParts

LEMMA SendReplyKeeps ==
  ASSUME ServerInv, NEW c \in Conns, SendReply(c)
  PROVE  ServerInv'
<1>1. /\ handler \in [Conns -> HandlerType] /\ net \in NetType
      /\ \A d \in Conns : handler[d].pc = "reply" => handler[d].out # <<>>
      /\ handler[c].pc = "reply" /\ handler[c].out \in Seq(Frame) /\ handler[c].out # <<>>
  BY DEF ServerInv, ServerTypeOK, ServerPcs, HandlerType, SendReply
<1>2. /\ Head(handler[c].out) \in Frame /\ Tail(handler[c].out) \in Seq(Frame)
      /\ Len(handler[c].out) # 1 => Tail(handler[c].out) # <<>>
  BY <1>1, TailLeft
<1>3. net' \in NetType
  BY <1>1, <1>2, SendType DEF SendReply
<1>4. /\ handler' = [handler EXCEPT ![c] =
            [handler[c] EXCEPT !.out = Tail(handler[c].out),
                               !.pc = IF Len(handler[c].out) = 1 THEN "run" ELSE "reply"]]
      /\ sess' = sess /\ reader' = reader /\ target' = target /\ targetOverlap' = targetOverlap
  BY <1>1 DEF SendReply
<1>5. HandlersKept
  BY <1>1, <1>2, <1>4 DEF HandlersKept, HandlerType
<1>6. /\ OthersKept(c) /\ handler'[c].epoch = handler[c].epoch /\ handler'[c].pc \in Working
  BY <1>1, <1>4 DEF OthersKept, HandlerType, Working
<1>7. SessionAttended'
  BY <1>4, <1>6, StillAttended
<1> QED BY <1>3, <1>4, <1>5, <1>7, UnchangedParts, ServerInvParts

LEMMA SendReplyFailsKeeps ==
  ASSUME ServerInv, NEW c \in Conns, SendReplyFails(c)
  PROVE  ServerInv'
<1>1. /\ handler' = [handler EXCEPT ![c] = Ended(@)]
      /\ reader' = reader /\ target' = target /\ targetOverlap' = targetOverlap
      /\ net \in NetType /\ sess \in SessType /\ "protocol_error" \in Codes
  BY DEF SendReplyFails, ServerInv, ServerTypeOK, Codes
<1>2. HandlersKept /\ OthersKept(c)
  BY <1>1, HandlerEnds DEF HandlersKept
<1>3. net' \in NetType
  BY <1>1, CloseTerminalNetType, ConnectionType DEF SendReplyFails
<1>4. SessKept /\ SessionAttended'
  <2>1. CASE sess' = CloseTerminal(sess, "protocol_error")
    BY <1>1, <2>1, CloseTerminalKeeps DEF SameWindow
  <2>2. CASE sess' = Disconnect(sess, c)
    BY <1>2, <2>2, DisconnectKeeps
  <2> QED BY <2>1, <2>2 DEF SendReplyFails
<1> QED BY <1>1, <1>2, <1>3, <1>4, UnchangedParts, ServerInvParts

-----------------------------------------------------------------------------
(* serverSession.run. *)

\* Steps of a handler that neither touch the session nor stop working.
LEMMA ReadAndBeginKeeps ==
  ASSUME ServerInv, NEW c \in Conns, ServerReadFrame(c) \/ BeginTargetWrite(c)
  PROVE  ServerInv'
<1>1. /\ handler \in [Conns -> HandlerType] /\ net \in NetType
      /\ \A d \in Conns : handler[d].pc = "reply" => handler[d].out # <<>>
  BY DEF ServerInv, ServerTypeOK, ServerPcs
<1>2. /\ sess' = sess /\ reader' = reader /\ target' = target /\ targetOverlap' = targetOverlap
      /\ net' = net \/ (net.up[c] # <<>> /\ net' = ServerRecv(net, c))
  BY DEF ServerReadFrame, BeginTargetWrite
<1>3. net' \in NetType
  BY <1>1, <1>2, ReceivedType
<1>4. PICK h \in HandlerType : /\ handler' = [handler EXCEPT ![c] = h]
                               /\ h.pc \in {"run", "handle", "write"} /\ h.epoch = handler[c].epoch
  <2>1. CASE ServerReadFrame(c)
    <3>1. Head(net.up[c]) \in Frame /\ handler[c].pc = "run"
      BY <2>1, ServerFrames DEF ServerReadFrame
    <3>2. CASE handler' = handler
      BY <1>1, <3>1, <3>2
    <3>3. CASE handler' = [handler EXCEPT ![c].pc = "handle", ![c].frame = Head(net.up[c])]
      <4> DEFINE h == [handler[c] EXCEPT !.pc = "handle", !.frame = Head(net.up[c])]
      <4>1. handler' = [handler EXCEPT ![c] = h]
        BY <1>1, <3>3
      <4>2. h \in HandlerType /\ h.pc = "handle" /\ h.epoch = handler[c].epoch
        BY <1>1, <3>1 DEF HandlerType
      <4> QED BY <4>1, <4>2
    <3> QED BY <2>1, <3>2, <3>3 DEF ServerReadFrame
  <2>2. CASE BeginTargetWrite(c)
    <3> DEFINE h == [handler[c] EXCEPT !.pc = "write"]
    <3>1. handler' = [handler EXCEPT ![c] = h]
      BY <1>1, <2>2 DEF BeginTargetWrite
    <3>2. h \in HandlerType /\ h.pc = "write" /\ h.epoch = handler[c].epoch
      BY <1>1 DEF HandlerType
    <3> QED BY <3>1, <3>2
  <2> QED BY <2>1, <2>2
<1>5. HandlersKept
  BY <1>1, <1>4 DEF HandlersKept
<1>6. OthersKept(c) /\ handler'[c].epoch = handler[c].epoch /\ handler'[c].pc \in Working
  BY <1>1, <1>4 DEF OthersKept, Working
<1>7. SessionAttended'
  BY <1>2, <1>6, StillAttended
<1> QED BY <1>2, <1>3, <1>5, <1>7, UnchangedParts, ServerInvParts

LEMMA ServerReadErrorKeeps ==
  ASSUME ServerInv, NEW c \in Conns, ServerReadError(c)
  PROVE  ServerInv'
<1>1. /\ handler' = [handler EXCEPT ![c] = Ended(@)] /\ net \in NetType
      /\ reader' = reader /\ target' = target /\ targetOverlap' = targetOverlap
  BY DEF ServerReadError, ServerInv, ServerTypeOK
<1>2. HandlersKept /\ OthersKept(c) /\ handler'[c].epoch = handler[c].epoch
  BY <1>1, HandlerEnds DEF HandlersKept
<1>3. net' \in NetType
  BY <1>1, ConnectionType DEF ServerReadError
<1>4. SessKept /\ SessionAttended'
  <2>1. CASE handler[c].pc = "run"
    BY <1>2, <2>1, DisconnectKeeps DEF ServerReadError
  <2>2. CASE handler[c].pc # "run"
    <3>1. sess' = sess /\ handler[c].pc \notin Working
      BY <2>2 DEF ServerReadError, Working
    <3> QED BY <1>2, <3>1, StillAttended, UnchangedParts
  <2> QED BY <2>1, <2>2
<1> QED BY <1>1, <1>2, <1>3, <1>4, UnchangedParts, ServerInvParts

\* A handler that has sent what it had to and goes back to its loop.
LEMMA ResumedKeeps ==
  ASSUME ServerInv, NEW c \in Conns,
         handler' = [handler EXCEPT ![c] = Resumed(@)],
         sess' = sess \/ \E n \in Nat : sess' = [sess EXCEPT !.c2sRx = n],
         net' \in NetType, reader' = reader, TargetKept
  PROVE  ServerInv'
<1>1. HandlersKept /\ OthersKept(c) /\ handler'[c].epoch = handler[c].epoch
  BY HandlerEnds DEF HandlersKept
<1>2. handler'[c].pc \in Working
  BY HandlerResumes DEF Working
<1>3. SessionAttended'
  BY <1>1, <1>2, StillAttended
<1>4. sess' \in SessType /\ SameWindow(sess, sess')
  BY DEF ServerInv, ServerTypeOK, SessType, SameWindow
<1> QED BY <1>1, <1>3, <1>4, SameWindowKept, UnchangedParts, ServerInvParts

LEMMA AnswerAckKeeps ==
  ASSUME ServerInv, NEW c \in Conns, DuplicateData(c) \/ DuplicateFin(c)
  PROVE  ServerInv'
<1>1. /\ AnswerAck(c)
      /\ reader' = reader /\ target' = target /\ targetOverlap' = targetOverlap
  BY DEF DuplicateData, DuplicateFin
<1>2. CASE ProtocolError(c)
  BY <1>1, <1>2, ProtocolErrorKeeps
<1>3. CASE /\ net' = ServerSend(net, c, Ack(handler[c].epoch, sess.c2sRx))
           /\ handler' = [handler EXCEPT ![c] = Resumed(@)]
           /\ sess' = sess
  <2>1. net' \in NetType
    BY <1>3, ServerFrames, OffsetFrameType, SendType
  <2> QED BY <1>1, <1>3, <2>1, UnchangedParts, ResumedKeeps
<1> QED BY <1>1, <1>2, <1>3 DEF AnswerAck

LEMMA HandlingFailsKeeps ==
  ASSUME ServerInv, NEW c \in Conns, MisplacedData(c) \/ HandleAckFails(c) \/ EarlyFin(c)
  PROVE  ServerInv'
BY ProtocolErrorKeeps DEF MisplacedData, HandleAckFails, EarlyFin

\* The target receives more of the stream, in whatever state the session is.
LEMMA TargetGrows ==
  ASSUME ServerInv, NEW bytes \in Seq(Nat), target' = [target EXCEPT !.in = @ \o bytes],
         NEW overlap \in BOOLEAN, targetOverlap' = (targetOverlap \/ overlap)
  PROVE  TargetKept
<1>1. target \in TargetType /\ target.in \in Seq(Nat) /\ targetOverlap \in BOOLEAN
  BY DEF ServerInv, ServerTypeOK, TargetType
<1>2. target.in \o bytes \in Seq(Nat)
  BY <1>1, ConcatProperties
<1> QED BY <1>1, <1>2 DEF TargetType, TargetKept

LEMMA FinishTargetWriteKeeps ==
  ASSUME ServerInv, NEW c \in Conns, FinishTargetWrite(c)
  PROVE  ServerInv'
<1> DEFINE f  == handler[c].frame
           rx == sess.c2sRx + Len(f.payload)
<1>1. f.payload \in Seq(Nat) /\ rx \in Nat /\ net \in NetType /\ handler[c].epoch \in Nat
  <2>1. f.payload \in Seq(Nat) /\ sess.c2sRx \in Nat /\ net \in NetType /\ handler[c].epoch \in Nat
    BY ServerFrames
  <2>2. Len(f.payload) \in Nat
    BY <2>1
  <2>3. rx \in Nat
    <3> DEFINE k == Len(f.payload)
    <3>1. k \in Nat /\ sess.c2sRx \in Nat /\ rx = sess.c2sRx + k
      BY <2>1, <2>2
    <3> HIDE DEF k, rx
    <3> QED BY <3>1
  <2> QED BY <2>1, <2>3
<1>2. /\ handler' = [handler EXCEPT ![c] = Resumed(@)]
      /\ sess' = [sess EXCEPT !.c2sRx = rx] /\ reader' = reader
      /\ net' = ServerSend(net, c, Ack(handler[c].epoch, rx))
      /\ target' = [target EXCEPT !.in = @ \o f.payload]
      /\ targetOverlap' = (targetOverlap \/ OtherHandlersWrite(c))
  BY DEF FinishTargetWrite
<1> HIDE DEF f, rx
<1>3. net' \in NetType
  BY <1>1, <1>2, OffsetFrameType, SendType
<1>4. TargetKept
  BY <1>1, <1>2, TargetGrows
<1>5. \E n \in Nat : sess' = [sess EXCEPT !.c2sRx = n]
  BY <1>1, <1>2
<1> QED BY <1>2, <1>3, <1>4, <1>5, ResumedKeeps

LEMMA TargetWriteFailsKeeps ==
  ASSUME ServerInv, NEW c \in Conns, TargetWriteFails(c)
  PROVE  ServerInv'
<1> DEFINE f == handler[c].frame
<1>1. PICK n \in 0..(Len(f.payload) - 1) :
        /\ target' = [target EXCEPT !.in = @ \o SubSeq(f.payload, 1, n)]
        /\ targetOverlap' = (targetOverlap \/ OtherHandlersWrite(c))
        /\ sess' = CloseTerminal([sess EXCEPT !.c2sRx = sess.c2sRx + n], "target_closed")
        /\ net' = CloseTerminalNet(ServerSend(net, c, Ack(handler[c].epoch, sess.c2sRx + n)),
                                   [sess EXCEPT !.c2sRx = sess.c2sRx + n], "target_closed")
  BY DEF TargetWriteFails
<1>2. /\ f.payload \in Seq(Nat) /\ Len(f.payload) \in Nat /\ sess.c2sRx \in Nat /\ sess \in SessType
      /\ net \in NetType /\ handler[c].epoch \in Nat
  <2>1. f.payload \in Seq(Nat)
    BY ServerFrames
  <2> QED BY <2>1, ServerFrames, LenProperties
<1>3. n \in Nat /\ n <= Len(f.payload) /\ sess.c2sRx + n \in Nat /\ "target_closed" \in Codes
  BY <1>2 DEF Codes
<1>4. handler' = [handler EXCEPT ![c] = Resumed(@)] /\ reader' = reader
  BY DEF TargetWriteFails
<1> HIDE DEF f
<1> DEFINE s == [sess EXCEPT !.c2sRx = sess.c2sRx + n]
<1>5. s \in SessType /\ SameWindow(sess, s) /\ s.state = sess.state
  BY <1>2, <1>3 DEF SessType, SameWindow
<1>6. net' \in NetType
  BY <1>1, <1>2, <1>3, <1>5, OffsetFrameType, SendType, CloseTerminalNetType
<1>7. SubSeq(f.payload, 1, n) \in Seq(Nat)
  <2>1. \A i \in 1..n : f.payload[i] \in Nat
    BY <1>2, <1>3, LenProperties, SMTT(30)
  <2> QED BY <1>3, <2>1, SubSeqProperties
<1>8. TargetKept
  BY <1>1, <1>7, TargetGrows
<1>9. SessKept /\ SessionAttended'
  BY <1>1, <1>3, <1>5, CloseTerminalKeeps
<1>10. HandlersKept
  BY <1>4, HandlerEnds DEF HandlersKept
<1> QED BY <1>4, <1>6, <1>8, <1>9, <1>10, UnchangedParts, ServerInvParts

LEMMA HandleAckKeeps ==
  ASSUME ServerInv, NEW c \in Conns, HandleAck(c)
  PROVE  ServerInv'
<1> DEFINE offset == handler[c].frame.offset
<1>1. /\ handler' = [handler EXCEPT ![c] = Resumed(@)] /\ net' = net
      /\ reader' = reader /\ target' = target /\ targetOverlap' = targetOverlap
      /\ ~AdvanceS2CAckFails(sess, offset) /\ sess' = AdvanceS2CAck(sess, offset)
  BY DEF HandleAck
<1>2. HandlersKept /\ OthersKept(c) /\ handler'[c].epoch = handler[c].epoch
  BY <1>1, HandlerEnds DEF HandlersKept
<1>3. handler'[c].pc \in Working
  BY <1>1, HandlerResumes DEF Working
<1>4. /\ Window(sess.s2cBuf, sess.s2cBufFrom, sess.s2cAck, sess.s2cNext)
      /\ sess \in SessType /\ Len(sess.s2cBuf) \in Nat /\ Len(sess.s2cBuf) < BufferBytes + Chunk
      /\ offset \in Nat /\ net \in NetType
  <2>1. sess.s2cBuf \in Seq(Nat)
    BY DEF ServerInv, ServerTypeOK, SessType
  <2>2. Len(sess.s2cBuf) \in Nat
    BY <2>1
  <2> QED BY <2>2, ServerFrames
          DEF ServerInv, ServerTypeOK, ServerReplayWindow, ServerBuffered, SessType, Window
<1> HIDE DEF offset
<1>5. /\ sess' \in SessType
      /\ Window(sess'.s2cBuf, sess'.s2cBufFrom, sess'.s2cAck, sess'.s2cNext)
      /\ Len(sess'.s2cBuf) <= Len(sess.s2cBuf)
      /\ sess'.state = sess.state /\ sess'.active = sess.active /\ sess'.epoch = sess.epoch
      /\ sess'.ttl = sess.ttl /\ sess'.callback = sess.callback
  BY <1>1, <1>4, AdvanceS2CAckWindow
<1>6. SessKept
  <2>1. Len(sess'.s2cBuf) \in Nat
    BY <1>5 DEF Window
  <2>2. Len(sess'.s2cBuf) < BufferBytes + Chunk
    BY <1>4, <1>5, <2>1, BufferBytesAssumption, ChunkAssumption
  <2> QED BY <1>5, <2>2 DEF SessKept, ServerReplayWindow, ServerBuffered, Window
<1>7. SessionAttended'
  <2>1. SessionAttended /\ sess.active \in Conns \cup {None}
    BY <1>4 DEF ServerInv, SessType
  <2>2. CASE sess.active = c
    BY <1>2, <1>3, <1>5, <2>1, <2>2 DEF SessionAttended, Working
  <2>3. CASE sess.active \in Conns \ {c}
    <3>1. handler'[sess'.active] = handler[sess.active]
      BY <1>2, <1>5, <2>3 DEF OthersKept
    <3> QED BY <1>5, <2>1, <3>1 DEF SessionAttended
  <2>4. CASE sess.active = None
    BY <1>5, <2>1, <2>4 DEF SessionAttended
  <2> QED BY <2>1, <2>2, <2>3, <2>4
<1> QED BY <1>1, <1>2, <1>4, <1>6, <1>7, UnchangedParts, ServerInvParts

LEMMA HandleFinKeeps ==
  ASSUME ServerInv, NEW c \in Conns, HandleFin(c)
  PROVE  ServerInv'
<1>1. /\ sess \in SessType /\ net \in NetType /\ target \in TargetType /\ targetOverlap \in BOOLEAN
      /\ sess.c2sRx \in Nat /\ handler[c].epoch \in Nat
  BY ServerFrames DEF ServerInv, ServerTypeOK
<1>2. TargetKept
  BY <1>1 DEF HandleFin, TargetType, TargetKept
<1> DEFINE s == [sess EXCEPT !.c2sFin = TRUE]
<1>3. /\ s \in SessType /\ SameWindow(sess, s)
      /\ s.state = sess.state /\ s.active = sess.active /\ s.epoch = sess.epoch
      /\ s.ttl = sess.ttl /\ s.callback = sess.callback
  BY <1>1 DEF SessType, SameWindow
<1>4. CASE /\ net' = ServerSend(net, c, Ack(handler[c].epoch, sess.c2sRx))
           /\ handler' = [handler EXCEPT ![c] = Resumed(@)]
           /\ sess' = s
  <2>1. HandlersKept /\ OthersKept(c) /\ handler'[c].epoch = handler[c].epoch
    BY <1>4, HandlerEnds DEF HandlersKept
  <2>2. handler'[c].pc \in Working
    BY <1>4, HandlerResumes DEF Working
  <2>3. SessionAttended'
    <3>1. /\ SessionAttended /\ sess.active \in Conns \cup {None}
          /\ sess'.state = sess.state /\ sess'.active = sess.active /\ sess'.epoch = sess.epoch
          /\ sess'.ttl = sess.ttl /\ sess'.callback = sess.callback
      BY <1>1, <1>3, <1>4 DEF ServerInv, SessType
    <3>2. CASE sess.active = c
      BY <2>1, <2>2, <3>1, <3>2 DEF SessionAttended, Working
    <3>3. CASE sess.active \in Conns \ {c}
      <4>1. handler'[sess'.active] = handler[sess.active]
        BY <2>1, <3>1, <3>3 DEF OthersKept
      <4> QED BY <3>1, <4>1 DEF SessionAttended
    <3>4. CASE sess.active = None
      BY <3>1, <3>4 DEF SessionAttended
    <3> QED BY <3>1, <3>2, <3>3, <3>4
  <2>4. SessKept
    BY <1>3, <1>4, SameWindowKept
  <2>5. net' \in NetType
    BY <1>1, <1>4, OffsetFrameType, SendType
  <2> QED BY <1>2, <2>1, <2>3, <2>4, <2>5, UnchangedParts, ServerInvParts DEF HandleFin
<1>5. CASE /\ net' = ServerClose(net, c)
           /\ handler' = [handler EXCEPT ![c] = Ended(@)]
           /\ sess' = Disconnect(s, c)
  <2>1. HandlersKept /\ OthersKept(c)
    BY <1>5, HandlerEnds DEF HandlersKept
  <2>2. sess' \in SessType /\ SameWindow(s, sess')
    BY <1>3, <1>5, SessMethods
  <2>3. SessKept
    BY <1>3, <2>2, SameWindowKept DEF SameWindow
  <2>4. SessionAttended'
    <3>1. CASE s.state # "live" \/ s.active # c
      <4>1. sess' = s
        BY <1>5, <3>1 DEF Disconnect
      <4>2. /\ SessionAttended /\ sess.active \in Conns \cup {None}
            /\ sess'.state = sess.state /\ sess'.active = sess.active /\ sess'.epoch = sess.epoch
            /\ sess'.ttl = sess.ttl /\ sess'.callback = sess.callback
        BY <1>1, <1>3, <4>1 DEF ServerInv, SessType
      <4>3. sess.state # "live" \/ sess.active # c
        BY <1>3, <3>1
      <4>4. sess.active \in Conns \ {c} => handler'[sess'.active] = handler[sess.active]
        BY <2>1, <4>2 DEF OthersKept
      <4> QED BY <4>2, <4>3, <4>4 DEF SessionAttended
    <3>2. CASE ~(s.state # "live" \/ s.active # c)
      <4>1. sess'.active = None /\ sess'.ttl = "armed"
        BY <1>3, <1>5, <3>2 DEF Disconnect, SessType
      <4> QED BY <4>1 DEF SessionAttended
    <3> QED BY <3>1, <3>2
  <2>5. net' \in NetType
    BY <1>1, <1>5, ConnectionType
  <2> QED BY <1>2, <2>1, <2>3, <2>4, <2>5, UnchangedParts, ServerInvParts DEF HandleFin
<1> QED BY <1>4, <1>5 DEF HandleFin

-----------------------------------------------------------------------------
(* readTarget and the disconnect timer. *)

LEMMA ReadTargetKeeps ==
  ASSUME ServerInv, ReadTarget
  PROVE  ServerInv'
<1>1. /\ Window(sess.s2cBuf, sess.s2cBufFrom, sess.s2cAck, sess.s2cNext)
      /\ sess \in SessType /\ net \in NetType /\ reader \in ReaderType /\ reader.pc = "read"
      /\ sess.epoch \in Nat /\ sess.s2cNext \in Nat /\ sess.active \in Conns \cup {None}
  BY DEF ServerInv, ServerTypeOK, ServerReplayWindow, SessType, Window, ReadTarget
<1>2. PICK n \in 1..Chunk :
        LET bytes == [i \in 1..n |-> sess.s2cNext + i]
        IN  /\ sess' = [sess EXCEPT !.s2cNext = @ + n, !.s2cBuf = @ \o bytes]
            /\ reader' = IF sess.active = None THEN reader
                         ELSE [pc |-> "send", conn |-> sess.active,
                               frame |-> Data(sess.epoch, sess.s2cNext, bytes)]
  BY DEF ReadTarget
<1>3. PICK bytes : bytes = [i \in 1..n |-> sess.s2cNext + i]
  OBVIOUS
<1>4. /\ sess' = [sess EXCEPT !.s2cNext = sess.s2cNext + n, !.s2cBuf = sess.s2cBuf \o bytes]
      /\ reader' = IF sess.active = None THEN reader
                   ELSE [pc |-> "send", conn |-> sess.active,
                         frame |-> Data(sess.epoch, sess.s2cNext, bytes)]
  BY <1>1, <1>2, <1>3
<1>5. n \in Nat /\ n <= Chunk
  BY ChunkAssumption
<1>6. /\ bytes \in Seq(Nat)
      /\ Len(sess.s2cBuf \o bytes) = Len(sess.s2cBuf) + n
      /\ Window(sess.s2cBuf \o bytes, sess.s2cBufFrom, sess.s2cAck, sess.s2cNext + n)
  BY <1>1, <1>3, <1>5, WindowGrows
<1>7. /\ sess' \in SessType
      /\ sess'.s2cBuf = sess.s2cBuf \o bytes /\ sess'.s2cNext = sess.s2cNext + n
      /\ sess'.s2cBufFrom = sess.s2cBufFrom /\ sess'.s2cAck = sess.s2cAck
      /\ sess'.state = sess.state /\ sess'.active = sess.active /\ sess'.epoch = sess.epoch
      /\ sess'.ttl = sess.ttl /\ sess'.callback = sess.callback
  BY <1>1, <1>4, <1>6 DEF SessType, Window
<1>8. SessKept
  <2>1. Len(sess.s2cBuf) \in Nat /\ Len(sess.s2cBuf) < BufferBytes
    BY <1>1 DEF ReadTarget, ServerHasRoom, Window
  <2>2. Len(sess'.s2cBuf) < BufferBytes + Chunk
    BY <1>5, <1>6, <1>7, <2>1, BufferBytesAssumption, ChunkAssumption
  <2> QED BY <1>6, <1>7, <2>2 DEF SessKept, ServerReplayWindow, ServerBuffered, Window
<1>9. SessionAttended'
  BY <1>7 DEF ServerInv, SessionAttended, ReadTarget
<1>10. ReaderKept
  <2>1. Data(sess.epoch, sess.s2cNext, bytes) \in Frame
    BY <1>1, <1>6, DataType
  <2> QED BY <1>1, <1>4, <2>1 DEF ReaderKept, ReaderType
<1> QED BY <1>1, <1>8, <1>9, <1>10, UnchangedParts, ServerInvParts DEF ReadTarget

LEMMA ReaderStepKeeps ==
  ASSUME ServerInv, ReaderStep
  PROVE  ServerInv'
<1>1. /\ sess \in SessType /\ net \in NetType /\ reader \in ReaderType
      /\ sess.active \in Conns \cup {None} /\ sess.epoch \in Nat /\ sess.s2cNext \in Nat
      /\ reader.frame \in Frame /\ reader.conn \in Conns \cup {None}
      /\ reader.pc = "send" => reader.conn \in Conns
  BY DEF ServerInv, ServerTypeOK, ServerPcs, SessType, ReaderType
<1>2. \A pc \in {"read", "done"} : reader' = ReaderIdle(pc) => ReaderKept
  BY NoFrameType DEF ReaderIdle, ReaderKept, ReaderType
<1>3. CASE ReadTarget
  BY <1>3, ReadTargetKeeps
<1>4. CASE SendTargetData
  <2>1. /\ handler' = handler /\ target' = target /\ targetOverlap' = targetOverlap
        /\ reader.conn \in Conns /\ ReaderKept
    BY <1>1, <1>2, <1>4 DEF SendTargetData
  <2>2. net' \in NetType
    BY <1>1, <1>4, <2>1, SendType DEF SendTargetData
  <2>3. CASE sess' = sess
    BY <2>1, <2>2, <2>3, UnchangedParts, ServerInvParts
  <2>4. CASE sess' = Disconnect(sess, reader.conn)
    <3>1. OthersKept(reader.conn)
      BY <2>1 DEF OthersKept
    <3>2. SessKept /\ SessionAttended'
      BY <2>1, <2>4, <3>1, DisconnectKeeps
    <3> QED BY <2>1, <2>2, <3>2, UnchangedParts, ServerInvParts
  <2> QED BY <1>4, <2>3, <2>4 DEF SendTargetData
<1>5. CASE TargetEOF
  <2>1. /\ net' = net /\ handler' = handler /\ target' = target /\ targetOverlap' = targetOverlap
        /\ sess' = [sess EXCEPT !.s2cFin = TRUE]
        /\ reader' = [pc |-> "fin", conn |-> sess.active,
                      frame |-> IF sess.active = None THEN NoFrame
                                ELSE Fin(sess.epoch, sess.s2cNext)]
    BY <1>5 DEF TargetEOF
  <2>2. Fin(sess.epoch, sess.s2cNext) \in Frame
    BY <1>1, OffsetFrameType
  <2>3. ReaderKept
    BY <1>1, <2>1, <2>2, NoFrameType DEF ReaderKept, ReaderType
  <2>4. /\ sess' \in SessType /\ SameWindow(sess, sess')
        /\ sess'.state = sess.state /\ sess'.active = sess.active /\ sess'.epoch = sess.epoch
        /\ sess'.ttl = sess.ttl /\ sess'.callback = sess.callback
    BY <1>1, <2>1 DEF SessType, SameWindow
  <2>5. SessKept /\ SessionAttended'
    BY <2>1, <2>4, SameWindowKept DEF ServerInv, SessionAttended
  <2> QED BY <1>1, <2>1, <2>3, <2>5, UnchangedParts, ServerInvParts
<1>6. CASE SendTargetFin
  <2>1. "target_closed" \in Codes /\ SameWindow(sess, sess)
    BY DEF Codes, SameWindow
  <2>2. SessKept /\ SessionAttended'
    BY <1>1, <1>6, <2>1, CloseTerminalKeeps DEF SendTargetFin
  <2>3. net' \in NetType
    <3>1. CASE reader.conn = None
      BY <1>1, <1>6, <2>1, <3>1, CloseTerminalNetType DEF SendTargetFin
    <3>2. CASE reader.conn # None
      BY <1>1, <1>6, <2>1, <3>2, SendType, CloseTerminalNetType DEF SendTargetFin
    <3> QED BY <3>1, <3>2
  <2> QED BY <1>2, <1>6, <2>2, <2>3, UnchangedParts, ServerInvParts DEF SendTargetFin
<1>7. CASE ReaderStops
  BY <1>1, <1>2, <1>7, UnchangedParts, ServerInvParts DEF ReaderStops
<1> QED BY <1>3, <1>4, <1>5, <1>6, <1>7 DEF ReaderStep

LEMMA TimerKeeps ==
  ASSUME ServerInv, TimerFires \/ TimerCallback
  PROVE  ServerInv'
<1>1. sess \in SessType /\ net \in NetType /\ "resume_timeout" \in Codes
  BY DEF ServerInv, ServerTypeOK, Codes
<1>2. CASE TimerFires
  <2>1. /\ sess' \in SessType /\ SameWindow(sess, sess')
        /\ sess'.state = sess.state /\ sess'.active = sess.active /\ sess'.epoch = sess.epoch
        /\ sess'.ttl = "expired" /\ sess'.callback
    BY <1>1, <1>2 DEF TimerFires, SessType, SameWindow
  <2>2. SessKept /\ SessionAttended'
    BY <1>2, <2>1, SameWindowKept DEF ServerInv, SessionAttended, TimerFires
  <2> QED BY <1>1, <1>2, <2>2, UnchangedParts, ServerInvParts DEF TimerFires
<1>3. CASE TimerCallback
  <2> DEFINE s == CloseTerminal(sess, "resume_timeout")
  <2>1. s \in SessType /\ SameWindow(sess, s) /\ s.state # "live"
    <3>1. s \in SessType /\ SameWindow(sess, s)
      BY <1>1, SessMethods
    <3>2. s.state # "live"
      BY <1>1 DEF CloseTerminal, SessType
    <3> QED BY <3>1, <3>2
  <2>2. sess' = [s EXCEPT !.callback = FALSE]
    BY <1>3 DEF TimerCallback
  <2> HIDE DEF s
  <2>3. sess' \in SessType /\ SameWindow(sess, sess') /\ sess'.state # "live"
    BY <2>1, <2>2 DEF SessType, SameWindow
  <2>4. SessKept /\ SessionAttended'
    BY <2>3, SameWindowKept DEF SessionAttended
  <2>5. net' \in NetType
    BY <1>1, <1>3, CloseTerminalNetType DEF TimerCallback
  <2> QED BY <1>3, <2>4, <2>5, UnchangedParts, ServerInvParts DEF TimerCallback
<1> QED BY <1>2, <1>3

-----------------------------------------------------------------------------

\* Every step of the server keeps its invariant.
THEOREM ServerStepKeeps ==
  ASSUME ServerInv, ServerNext
  PROVE  ServerInv'
<1>1. ASSUME NEW c \in Conns, HandlerStep(c)
      PROVE  ServerInv'
  BY <1>1, RefusedHelloKeeps, AcceptNewKeeps, ResumeKeeps, SendReplyKeeps, SendReplyFailsKeeps,
     ReadAndBeginKeeps, ServerReadErrorKeeps, AnswerAckKeeps, HandlingFailsKeeps,
     FinishTargetWriteKeeps, TargetWriteFailsKeeps, HandleAckKeeps, HandleFinKeeps
  DEF HandlerStep
<1> QED BY <1>1, ReaderStepKeeps, TimerKeeps DEF ServerNext
=============================================================================
