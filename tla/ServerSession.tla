---------------------------- MODULE ServerSession ----------------------------
(***************************************************************************)
(* One serverSession of the WebSocket server and the goroutines around it: *)
(* a handler per connection (handle, resume and run), the target reader    *)
(* (readTarget) and the disconnect timer.  The session's mutex sections    *)
(* are single steps; what the code does between two of them (a send, a     *)
(* write to the target, the wait for the next frame) is a step of its own, *)
(* so everything the other goroutines can do in between happens here too.  *)
(***************************************************************************)
EXTENDS Wire

CONSTANT
  TargetLen     \* bound: bytes the target ever sends

ASSUME TargetLenAssumption == TargetLen \in Nat

VARIABLES
  sess,           \* the serverSession
  handler,        \* handler[c]: the goroutine of wsServer.handle serving c
  reader,         \* the readTarget goroutine
  target,         \* what the target has received
  targetOverlap   \* history: a write to the target finished while another
                  \* handler was in the middle of its own

serverVars == <<sess, handler, reader, target, targetOverlap>>

SessType == [state      : {"none", "live", "closed"},
             epoch      : Nat,
             active     : Conns \cup {None},
             ttl        : {"off", "armed", "expired"},  \* disconnectTTL and disconnected
             callback   : BOOLEAN,                      \* a fired timer waiting for the mutex
             c2sRx      : Nat,
             c2sFin     : BOOLEAN,
             s2cNext    : Nat,
             s2cAck     : Nat,
             s2cBuf     : Seq(Nat),
             s2cBufFrom : Nat,
             s2cFin     : BOOLEAN,
             code       : Codes]                        \* closeTerminal's code

HandlerType == [pc    : {"idle", "reply", "run", "handle", "write", "done"},
                epoch : Nat,
                frame : Frame,
                out   : Seq(Frame)]    \* what resume still has to send

ReaderType == [pc : {"off", "read", "send", "fin", "done"}, conn : Conns \cup {None}, frame : Frame]

TargetType == [in : Seq(Nat), eof : BOOLEAN]

ServerInit ==
  /\ sess = [state |-> "none", epoch |-> 0, active |-> None, ttl |-> "off",
             callback |-> FALSE, c2sRx |-> 0, c2sFin |-> FALSE, s2cNext |-> 0,
             s2cAck |-> 0, s2cBuf |-> <<>>, s2cBufFrom |-> 0, s2cFin |-> FALSE, code |-> ""]
  /\ handler = [c \in Conns |-> [pc |-> "idle", epoch |-> 0, frame |-> NoFrame, out |-> <<>>]]
  /\ reader = [pc |-> "off", conn |-> None, frame |-> NoFrame]
  /\ target = [in |-> <<>>, eof |-> FALSE]
  /\ targetOverlap = FALSE

-----------------------------------------------------------------------------
(* The session's methods, as functions of its state. *)

AdvanceS2CAckFails(s, offset) ==
  /\ offset >= s.s2cAck
  /\ offset > s.s2cNext \/ offset - s.s2cBufFrom > Len(s.s2cBuf)

\* Mutants of AdvanceS2CAck: the buffer's start is not moved; the offset is
\* taken for an inclusive one.
AdvanceS2CAckNoRebase(s, offset) ==
  IF offset < s.s2cAck THEN s
  ELSE [s EXCEPT !.s2cBuf = SubSeq(@, offset - s.s2cBufFrom + 1, Len(@)), !.s2cAck = offset]
AdvanceS2CAckInclusive(s, offset) ==
  IF offset < s.s2cAck THEN s
  ELSE [s EXCEPT !.s2cBuf = SubSeq(@, offset - s.s2cBufFrom + 2, Len(@)),
                 !.s2cBufFrom = offset + 1,
                 !.s2cAck = offset + 1]

AdvanceS2CAck(s, offset) ==
  IF offset < s.s2cAck THEN s
  ELSE [s EXCEPT !.s2cBuf = SubSeq(@, offset - s.s2cBufFrom + 1, Len(@)),
                 !.s2cBufFrom = offset,
                 !.s2cAck = offset]

\* Mutant of Disconnect: the disconnect timer is not started.
DisconnectNoTimer(s, c) ==
  IF s.state # "live" \/ s.active # c THEN s ELSE [s EXCEPT !.active = None]
Disconnect(s, c) ==
  IF s.state # "live" \/ s.active # c THEN s
  ELSE [s EXCEPT !.active = None, !.ttl = "armed"]

CloseTerminal(s, code) ==
  IF s.state # "live" THEN s
  ELSE [s EXCEPT !.state = "closed", !.active = None, !.ttl = "off", !.code = code]

\* The close frame and the closed socket that closeTerminal leaves behind.
CloseTerminalNet(n, s, code) ==
  IF s.state # "live" \/ s.active = None THEN n
  ELSE ServerClose(ServerSend(n, s.active, Close(s.epoch, code)), s.active)

IsActive(c, f) == sess.state = "live" /\ sess.active = c /\ f.epoch = sess.epoch

Ended(h) == [h EXCEPT !.pc = "done", !.frame = NoFrame, !.out = <<>>]

\* An error frame, disconnect, and the handler returns (which closes the socket).
ProtocolError(c) ==
  /\ sess' = Disconnect(sess, c)
  /\ handler' = [handler EXCEPT ![c] = Ended(@)]
  /\ net' = ServerClose(ServerSend(net, c, Error), c)

-----------------------------------------------------------------------------
(* wsServer.handle: the hello that opens or resumes the session. *)

HelloArrives(c) ==
  /\ handler[c].pc = "idle"
  /\ net.up[c] # <<>>
  /\ Head(net.up[c]).type = "hello"

\* The target does not answer: two error frames (accept's and handle's).
DialTargetFails(c) ==
  /\ "dial_error" \in Events
  /\ HelloArrives(c)
  /\ ~Head(net.up[c]).resume
  /\ handler' = [handler EXCEPT ![c] = Ended(@)]
  /\ net' = ServerClose(ServerSend(ServerSend(ServerRecv(net, c), c, Error), c, Error), c)
  /\ UNCHANGED <<sess, reader, target, targetOverlap>>

\* A new session is registered and its target reader runs before accept is sent.
AcceptNew(c) ==
  /\ HelloArrives(c)
  /\ ~Head(net.up[c]).resume
  /\ sess.state = "none"
  /\ sess' = [sess EXCEPT !.state = "live", !.epoch = 1, !.active = c]
  /\ handler' = [handler EXCEPT ![c].pc = "reply", ![c].epoch = 1, ![c].out = <<Accept(1, 0, 0)>>]
  /\ reader' = [reader EXCEPT !.pc = "read"]
  /\ net' = ServerRecv(net, c)
  /\ UNCHANGED <<target, targetOverlap>>

\* Mutant of NextEpoch: a resumed session keeps its epoch.
NextEpochKept(s) == s.epoch
NextEpoch(s) == s.epoch + 1

ResumeRefused(hello) ==
  \/ sess.state # "live"
  \/ hello.clientToServerRx > sess.c2sRx
  \/ AdvanceS2CAckFails(sess, hello.serverToClientRx)

\* resume hands the session to the new connection.  If the disconnect timer
\* fires between the elapsed-time check and Stop, its callback is already
\* waiting for the mutex and Stop does not take it back.
Resume(c) ==
  /\ HelloArrives(c)
  /\ LET hello == Head(net.up[c])
         s     == AdvanceS2CAck(sess, hello.serverToClientRx)
         epoch == NextEpoch(sess)
         fin   == IF sess.s2cFin THEN <<Fin(epoch, sess.s2cNext)>> ELSE <<>>
         n     == ServerRecv(net, c)
     IN  /\ hello.resume
         /\ ~ResumeRefused(hello)
         /\ sess.ttl # "expired"
         /\ \E slipped \in BOOLEAN :
              /\ slipped => sess.ttl = "armed"
              /\ sess' = [s EXCEPT !.epoch = epoch, !.active = c, !.ttl = "off",
                                   !.callback = @ \/ slipped]
         /\ handler' = [handler EXCEPT
              ![c].pc = "reply",
              ![c].epoch = epoch,
              ![c].out = <<Accept(epoch, s.c2sRx, s.s2cAck)>>
                           \o DataChunks(epoch, s.s2cBufFrom, s.s2cBuf) \o fin]
         /\ net' = IF sess.active = None THEN n ELSE ServerClose(n, sess.active)
  /\ UNCHANGED <<reader, target, targetOverlap>>

\* resume (or the lookup before it) returns an error: handle reports it and returns.
RefuseResume(c) ==
  /\ HelloArrives(c)
  /\ LET hello == Head(net.up[c])
     IN  hello.resume /\ ResumeRefused(hello) /\ sess.ttl # "expired"
  /\ handler' = [handler EXCEPT ![c] = Ended(@)]
  /\ net' = ServerClose(ServerSend(ServerRecv(net, c), c, Error), c)
  /\ UNCHANGED <<sess, reader, target, targetOverlap>>

\* The session was disconnected for longer than resume.timeout.
ResumeTooLate(c) ==
  /\ HelloArrives(c)
  /\ Head(net.up[c]).resume
  /\ sess.state = "live" /\ sess.ttl = "expired"
  /\ sess' = CloseTerminal(sess, "resume_timeout")
  /\ handler' = [handler EXCEPT ![c] = Ended(@)]
  /\ net' = ServerClose(ServerSend(ServerRecv(net, c), c, Error), c)
  /\ UNCHANGED <<reader, target, targetOverlap>>

\* accept, the replayed chunks and the replayed fin go out one by one.
SendReply(c) ==
  /\ handler[c].pc = "reply"
  /\ LET f == Head(handler[c].out) IN
       /\ ServerSendMaySucceed(net, c) \/ f.type = "fin"
       /\ net' = ServerSend(net, c, f)
       /\ handler' = [handler EXCEPT ![c].out = Tail(@),
                                     ![c].pc = IF Len(handler[c].out) = 1 THEN "run" ELSE @]
  /\ UNCHANGED <<sess, reader, target, targetOverlap>>

\* A failed send disconnects a resumed session but ends a new one.
SendReplyFails(c) ==
  /\ handler[c].pc = "reply"
  /\ Head(handler[c].out).type # "fin"
  /\ ServerSendMayFail(net, c)
  /\ IF handler[c].epoch = 1
     THEN /\ sess' = CloseTerminal(sess, "protocol_error")
          /\ net' = ServerClose(CloseTerminalNet(net, sess, "protocol_error"), c)
     ELSE /\ sess' = Disconnect(sess, c)
          /\ net' = ServerClose(net, c)
  /\ handler' = [handler EXCEPT ![c] = Ended(@)]
  /\ UNCHANGED <<reader, target, targetOverlap>>

-----------------------------------------------------------------------------
(* serverSession.run: one frame at a time. *)

\* The frame is read and isActive asked; what it asks for happens later.
ServerReadFrame(c) ==
  /\ handler[c].pc = "run"
  /\ net.up[c] # <<>>
  /\ LET f == Head(net.up[c]) IN
       handler' = IF IsActive(c, f)
                  THEN [handler EXCEPT ![c].pc = "handle", ![c].frame = f]
                  ELSE handler
  /\ net' = ServerRecv(net, c)
  /\ UNCHANGED <<sess, reader, target, targetOverlap>>

ServerReadError(c) ==
  /\ handler[c].pc \in {"idle", "run"}
  /\ ServerReadFails(net, c)
  /\ sess' = IF handler[c].pc = "run" THEN Disconnect(sess, c) ELSE sess
  /\ handler' = [handler EXCEPT ![c] = Ended(@)]
  /\ net' = ServerClose(net, c)
  /\ UNCHANGED <<reader, target, targetOverlap>>

Handling(c, type) == handler[c].pc = "handle" /\ handler[c].frame.type = type

Resumed(h) == [h EXCEPT !.pc = "run", !.frame = NoFrame]

\* An ack whose send error the handler returns: sent, or a protocol error.
AnswerAck(c) ==
  \/ /\ ServerSendMaySucceed(net, c)
     /\ net' = ServerSend(net, c, Ack(handler[c].epoch, sess.c2sRx))
     /\ handler' = [handler EXCEPT ![c] = Resumed(@)]
     /\ sess' = sess
  \/ /\ ServerSendMayFail(net, c)
     /\ ProtocolError(c)

\* Data the session already has is acknowledged again.
DuplicateData(c) ==
  /\ Handling(c, "data")
  /\ handler[c].frame.offset < sess.c2sRx
  /\ handler[c].frame.offset + Len(handler[c].frame.payload) <= sess.c2sRx
  /\ AnswerAck(c)
  /\ UNCHANGED <<reader, target, targetOverlap>>

\* A gap, or data the session has a part of.
MisplacedData(c) ==
  /\ Handling(c, "data")
  /\ LET f == handler[c].frame
     IN  f.offset > sess.c2sRx \/ (f.offset < sess.c2sRx /\ f.offset + Len(f.payload) > sess.c2sRx)
  /\ ProtocolError(c)
  /\ UNCHANGED <<reader, target, targetOverlap>>

\* c2sRx was read and matches: the write to the target starts, unlocked.
BeginTargetWrite(c) ==
  /\ Handling(c, "data")
  /\ handler[c].frame.offset = sess.c2sRx
  /\ handler' = [handler EXCEPT ![c].pc = "write"]
  /\ UNCHANGED <<net, sess, reader, target, targetOverlap>>

OtherHandlersWrite(c) == \E d \in Conns \ {c} : handler[d].pc = "write"

\* The write returned: c2sRx moves by what was written, whatever it is by now.
FinishTargetWrite(c) ==
  /\ handler[c].pc = "write"
  /\ sess.state = "live" /\ ~target.eof
  /\ LET f  == handler[c].frame
         rx == sess.c2sRx + Len(f.payload)
     IN  /\ target' = [target EXCEPT !.in = @ \o f.payload]
         /\ sess' = [sess EXCEPT !.c2sRx = rx]
         /\ targetOverlap' = (targetOverlap \/ OtherHandlersWrite(c))
         /\ net' = ServerSend(net, c, Ack(handler[c].epoch, rx))
  /\ handler' = [handler EXCEPT ![c] = Resumed(@)]
  /\ UNCHANGED reader

\* The target is gone (it hung up, or the session was closed under the write).
TargetWriteFails(c) ==
  /\ "target_error" \in Events \/ sess.state # "live" \/ target.eof
  /\ handler[c].pc = "write"
  /\ \E n \in 0..(Len(handler[c].frame.payload) - 1) :
       LET f  == handler[c].frame
           rx == sess.c2sRx + n
           s  == [sess EXCEPT !.c2sRx = rx]
           w  == ServerSend(net, c, Ack(handler[c].epoch, rx))
       IN  /\ target' = [target EXCEPT !.in = @ \o SubSeq(f.payload, 1, n)]
           /\ targetOverlap' = (targetOverlap \/ OtherHandlersWrite(c))
           /\ sess' = CloseTerminal(s, "target_closed")
           /\ net' = CloseTerminalNet(w, s, "target_closed")
  /\ handler' = [handler EXCEPT ![c] = Resumed(@)]
  /\ UNCHANGED reader

HandleAck(c) ==
  /\ Handling(c, "ack")
  /\ ~AdvanceS2CAckFails(sess, handler[c].frame.offset)
  /\ sess' = AdvanceS2CAck(sess, handler[c].frame.offset)
  /\ handler' = [handler EXCEPT ![c] = Resumed(@)]
  /\ UNCHANGED <<net, reader, target, targetOverlap>>

HandleAckFails(c) ==
  /\ Handling(c, "ack")
  /\ AdvanceS2CAckFails(sess, handler[c].frame.offset)
  /\ ProtocolError(c)
  /\ UNCHANGED <<reader, target, targetOverlap>>

\* Mutant of FinIsNext: the offset is not compared.
FinIsNextAnywhere(f) == f.offset >= sess.c2sRx /\ ~sess.c2sFin
FinIsNext(f) == f.offset = sess.c2sRx /\ ~sess.c2sFin
FinIsOld(f) == f.offset < sess.c2sRx \/ (f.offset = sess.c2sRx /\ sess.c2sFin)

DuplicateFin(c) ==
  /\ Handling(c, "fin")
  /\ FinIsOld(handler[c].frame)
  /\ AnswerAck(c)
  /\ UNCHANGED <<reader, target, targetOverlap>>

\* The client's stdin ended here: the target's write side is closed.
HandleFin(c) ==
  /\ Handling(c, "fin")
  /\ FinIsNext(handler[c].frame)
  /\ target' = [target EXCEPT !.eof = TRUE]
  /\ \/ /\ ServerSendMaySucceed(net, c)
        /\ net' = ServerSend(net, c, Ack(handler[c].epoch, sess.c2sRx))
        /\ handler' = [handler EXCEPT ![c] = Resumed(@)]
        /\ sess' = [sess EXCEPT !.c2sFin = TRUE]
     \/ /\ ServerSendMayFail(net, c)
        /\ net' = ServerClose(net, c)
        /\ handler' = [handler EXCEPT ![c] = Ended(@)]
        /\ sess' = Disconnect([sess EXCEPT !.c2sFin = TRUE], c)
  /\ UNCHANGED <<reader, targetOverlap>>

EarlyFin(c) ==
  /\ Handling(c, "fin")
  /\ handler[c].frame.offset > sess.c2sRx
  /\ ProtocolError(c)
  /\ UNCHANGED <<reader, target, targetOverlap>>

-----------------------------------------------------------------------------
(* readTarget, and the disconnect timer. *)

\* Mutant of ServerHasRoom: the limit is passed, not reached, before it waits.
ServerHasRoomLate == Len(sess.s2cBuf) <= BufferBytes
ServerHasRoom == Len(sess.s2cBuf) < BufferBytes

\* Bytes from the target are buffered for replay; the connection that is
\* active now is remembered and they are sent to it later, unlocked.
ReadTarget ==
  /\ reader.pc = "read"
  /\ sess.state = "live"
  /\ ServerHasRoom
  /\ \E n \in 1..Chunk :
       LET bytes == [i \in 1..n |-> sess.s2cNext + i]
       IN  /\ sess.s2cNext + n <= TargetLen
           /\ sess' = [sess EXCEPT !.s2cNext = @ + n, !.s2cBuf = @ \o bytes]
           /\ reader' = IF sess.active = None THEN reader
                        ELSE [pc |-> "send", conn |-> sess.active,
                              frame |-> Data(sess.epoch, sess.s2cNext, bytes)]
  /\ UNCHANGED <<net, handler, target, targetOverlap>>

ReaderIdle(pc) == [pc |-> pc, conn |-> None, frame |-> NoFrame]

SendTargetData ==
  /\ reader.pc = "send"
  /\ reader' = ReaderIdle("read")
  /\ \/ /\ ServerSendMaySucceed(net, reader.conn)
        /\ net' = ServerSend(net, reader.conn, reader.frame)
        /\ sess' = sess
     \/ /\ ServerSendMayFail(net, reader.conn)
        /\ sess' = Disconnect(sess, reader.conn)
        /\ net' = net
  /\ UNCHANGED <<handler, target, targetOverlap>>

\* The target hung up (or reading it failed).
TargetEOF ==
  /\ "target_eof" \in Events
  /\ reader.pc = "read"
  /\ sess.state = "live"
  /\ ServerHasRoom
  /\ sess' = [sess EXCEPT !.s2cFin = TRUE]
  /\ reader' = [pc |-> "fin", conn |-> sess.active,
                frame |-> IF sess.active = None THEN NoFrame ELSE Fin(sess.epoch, sess.s2cNext)]
  /\ UNCHANGED <<net, handler, target, targetOverlap>>

\* fin to the remembered connection, then the session is over.
SendTargetFin ==
  /\ reader.pc = "fin"
  /\ LET n == IF reader.conn = None THEN net ELSE ServerSend(net, reader.conn, reader.frame)
     IN  net' = CloseTerminalNet(n, sess, "target_closed")
  /\ sess' = CloseTerminal(sess, "target_closed")
  /\ reader' = ReaderIdle("done")
  /\ UNCHANGED <<handler, target, targetOverlap>>

\* The session was closed: the wait or the read of the target returns.
ReaderStops ==
  /\ reader.pc = "read"
  /\ sess.state = "closed"
  /\ reader' = ReaderIdle("done")
  /\ UNCHANGED <<net, sess, handler, target, targetOverlap>>

\* resume.timeout passes since disconnect; AfterFunc starts its callback.
TimerFires ==
  /\ sess.ttl = "armed"
  /\ sess' = [sess EXCEPT !.ttl = "expired", !.callback = TRUE]
  /\ UNCHANGED <<net, handler, reader, target, targetOverlap>>

\* The callback gets the mutex.
TimerCallback ==
  /\ sess.callback
  /\ sess' = [CloseTerminal(sess, "resume_timeout") EXCEPT !.callback = FALSE]
  /\ net' = CloseTerminalNet(net, sess, "resume_timeout")
  /\ UNCHANGED <<handler, reader, target, targetOverlap>>

-----------------------------------------------------------------------------
ReaderStep == ReadTarget \/ SendTargetData \/ TargetEOF \/ SendTargetFin \/ ReaderStops

\* The steps of c's handler that wait for nobody but the network.
HandlerStep(c) ==
  \/ DialTargetFails(c) \/ AcceptNew(c) \/ Resume(c) \/ RefuseResume(c) \/ ResumeTooLate(c)
  \/ SendReply(c) \/ SendReplyFails(c)
  \/ ServerReadFrame(c) \/ ServerReadError(c)
  \/ DuplicateData(c) \/ MisplacedData(c) \/ BeginTargetWrite(c)
  \/ FinishTargetWrite(c) \/ TargetWriteFails(c)
  \/ HandleAck(c) \/ HandleAckFails(c)
  \/ DuplicateFin(c) \/ HandleFin(c) \/ EarlyFin(c)

ServerNext == ReaderStep \/ TimerFires \/ TimerCallback \/ \E c \in Conns : HandlerStep(c)

ServerTypeOK ==
  /\ net \in NetType
  /\ sess \in SessType
  /\ handler \in [Conns -> HandlerType]
  /\ reader \in ReaderType
  /\ target \in TargetType
  /\ targetOverlap \in BOOLEAN
=============================================================================
