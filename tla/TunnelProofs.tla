----------------------------- MODULE TunnelProofs -----------------------------
(***************************************************************************)
(* What holds of every tunnel, for any set of connections, any buffer and  *)
(* payload sizes and streams of any length: types, the replay windows and  *)
(* their bounds, that neither a session nor a client is left unattended,   *)
(* and that both know one epoch of what they share.  The first invariant   *)
(* is the conjunction of the two halves proved in ClientProofs and         *)
(* ServerProofs: what is left to show is that neither half disturbs the    *)
(* other through the network.  The second one, EpochInv, relates them.     *)
(***************************************************************************)
EXTENDS ClientProofs, ServerProofs

IInv == ClientInv /\ ServerInv

-----------------------------------------------------------------------------

\* The server moves its own ends of the connections only.
LEMMA ServerKeepsClientEnds ==
  ASSUME ServerInv, ServerNext
  PROVE  net'.clientEnd = net.clientEnd
<1>1. net \in NetType /\ sess \in SessType /\ reader \in ReaderType /\ Error \in Frame
  BY EndFrameType DEF ServerInv, ServerTypeOK, Codes
<1>2. \A n \in NetType, c \in Conns : ServerClose(n, c).clientEnd = n.clientEnd
  BY ClientEnds
<1>3. \A n \in NetType, c \in Conns, f \in Frame :
        ServerSend(n, c, f).clientEnd = n.clientEnd /\ ServerSend(n, c, f) \in NetType
  BY SendEnds, SendType
<1>4. ASSUME NEW n \in NetType, NEW s \in SessType, NEW code \in Codes
      PROVE  CloseTerminalNet(n, s, code).clientEnd = n.clientEnd
  <2>1. CASE s.state # "live" \/ s.active = None
    BY <2>1 DEF CloseTerminalNet
  <2>2. CASE ~(s.state # "live" \/ s.active = None)
    <3>1. s.active \in Conns /\ Close(s.epoch, code) \in Frame
      BY <2>2, EndFrameType DEF SessType
    <3> QED BY <1>2, <1>3, <2>2, <3>1 DEF CloseTerminalNet
  <2> QED BY <2>1, <2>2
<1>5. ASSUME NEW c \in Conns, HandlerStep(c)
      PROVE  net'.clientEnd = net.clientEnd
  <2>1. /\ ServerRecv(net, c).clientEnd = net.clientEnd
        /\ net.up[c] # <<>> => ServerRecv(net, c) \in NetType
        /\ handler[c].epoch \in Nat /\ sess.c2sRx \in Nat /\ sess.active \in Conns \cup {None}
    BY <1>1, ClientEnds, ServerFrames DEF SessType
  <2>2. CASE DialTargetFails(c) \/ RefuseResume(c) \/ ResumeTooLate(c)
    <3>1. ServerRecv(net, c) \in NetType
      BY <2>1, <2>2 DEF DialTargetFails, RefuseResume, ResumeTooLate, HelloArrives
    <3> HIDE DEF Error
    <3> QED BY <1>1, <1>2, <1>3, <2>1, <2>2, <3>1
            DEF DialTargetFails, RefuseResume, ResumeTooLate
  <2>3. CASE AcceptNew(c)
    BY <2>1, <2>3 DEF AcceptNew
  <2>4. CASE Resume(c)
    <3>1. ServerRecv(net, c) \in NetType
      BY <2>1, <2>4 DEF Resume, HelloArrives
    <3> QED BY <1>2, <2>1, <2>4, <3>1 DEF Resume
  <2>5. CASE SendReply(c)
    <3>1. Head(handler[c].out) \in Frame
      BY <2>5, TailLeft DEF SendReply, ServerInv, ServerTypeOK, ServerPcs, HandlerType
    <3> QED BY <1>1, <1>3, <2>5, <3>1 DEF SendReply
  <2>6. CASE SendReplyFails(c)
    <3>1. "protocol_error" \in Codes
      BY DEF Codes
    <3>2. /\ CloseTerminalNet(net, sess, "protocol_error") \in NetType
          /\ CloseTerminalNet(net, sess, "protocol_error").clientEnd = net.clientEnd
      BY <1>1, <1>4, <3>1, CloseTerminalNetType
    <3> QED BY <1>1, <1>2, <2>6, <3>2 DEF SendReplyFails
  <2>7. CASE ServerReadFrame(c) \/ ServerReadError(c) \/ BeginTargetWrite(c) \/ HandleAck(c)
    BY <1>1, <1>2, <2>1, <2>7 DEF ServerReadFrame, ServerReadError, BeginTargetWrite, HandleAck
  <2>8. CASE ProtocolError(c)
    BY <1>1, <1>2, <1>3, <2>8 DEF ProtocolError
  <2>9. Ack(handler[c].epoch, sess.c2sRx) \in Frame
    BY <2>1, OffsetFrameType
  <2>10. CASE \/ DuplicateData(c) \/ MisplacedData(c) \/ HandleAckFails(c)
              \/ DuplicateFin(c) \/ EarlyFin(c)
    BY <1>1, <1>3, <2>8, <2>9, <2>10
    DEF DuplicateData, MisplacedData, HandleAckFails, DuplicateFin, EarlyFin, AnswerAck
  <2>11. CASE HandleFin(c)
    BY <1>1, <1>2, <1>3, <2>9, <2>11 DEF HandleFin
  <2>12. CASE FinishTargetWrite(c)
    <3>1. Len(handler[c].frame.payload) \in Nat
      BY ServerFrames, LenProperties
    <3>2. Ack(handler[c].epoch, sess.c2sRx + Len(handler[c].frame.payload)) \in Frame
      BY <2>1, <3>1, OffsetFrameType
    <3> QED BY <1>1, <1>3, <2>12, <3>2 DEF FinishTargetWrite
  <2>13. CASE TargetWriteFails(c)
    <3>1. Len(handler[c].frame.payload) \in Nat
      BY ServerFrames, LenProperties
    <3>2. PICK n \in 0..(Len(handler[c].frame.payload) - 1) :
            net' = CloseTerminalNet(ServerSend(net, c, Ack(handler[c].epoch, sess.c2sRx + n)),
                                    [sess EXCEPT !.c2sRx = sess.c2sRx + n], "target_closed")
      BY <2>13 DEF TargetWriteFails
    <3>3. sess.c2sRx + n \in Nat /\ "target_closed" \in Codes
      BY <2>1, <3>1 DEF Codes
    <3>4. [sess EXCEPT !.c2sRx = sess.c2sRx + n] \in SessType
      BY <1>1, <3>3 DEF SessType
    <3>5. Ack(handler[c].epoch, sess.c2sRx + n) \in Frame
      BY <2>1, <3>3, OffsetFrameType
    <3> QED BY <1>1, <1>3, <1>4, <3>2, <3>3, <3>4, <3>5
  <2> QED BY <1>5, <2>2, <2>3, <2>4, <2>5, <2>6, <2>7, <2>10, <2>11, <2>12, <2>13
          DEF HandlerStep
<1>6. CASE ReaderStep
  <2>1. CASE SendTargetData
    <3>1. reader.conn \in Conns /\ reader.frame \in Frame
      BY <1>1, <2>1 DEF SendTargetData, ServerInv, ServerPcs, ReaderType
    <3> QED BY <1>1, <1>3, <2>1, <3>1 DEF SendTargetData
  <2>2. CASE SendTargetFin
    <3> DEFINE n == IF reader.conn = None THEN net ELSE ServerSend(net, reader.conn, reader.frame)
    <3>1. n \in NetType /\ n.clientEnd = net.clientEnd
      BY <1>1, <1>3 DEF ReaderType
    <3>2. net' = CloseTerminalNet(n, sess, "target_closed") /\ "target_closed" \in Codes
      BY <2>2 DEF SendTargetFin, Codes
    <3> HIDE DEF n
    <3> QED BY <1>1, <1>4, <3>1, <3>2
  <2>3. CASE ReadTarget \/ TargetEOF \/ ReaderStops
    BY <2>3 DEF ReadTarget, TargetEOF, ReaderStops
  <2> QED BY <1>6, <2>1, <2>2, <2>3 DEF ReaderStep
<1>7. CASE TimerFires \/ TimerCallback
  <2>1. "resume_timeout" \in Codes
    BY DEF Codes
  <2> QED BY <1>1, <1>4, <1>7, <2>1 DEF TimerFires, TimerCallback
<1> QED BY <1>5, <1>6, <1>7 DEF ServerNext

-----------------------------------------------------------------------------

\* The halves stay as they are when the other side, or nobody, moves.
LEMMA ClientHalfKept ==
  ASSUME ClientInv, UNCHANGED clientVars, net' \in NetType, net'.clientEnd = net.clientEnd
  PROVE  ClientInv'
BY DEF clientVars, ClientInv, ClientTypeOK, ClientPcs, ClientReplayWindow, ClientBuffered,
       ClientOwner, Owned

LEMMA ServerHalfKept ==
  ASSUME ServerInv, UNCHANGED serverVars, net' \in NetType
  PROVE  ServerInv'
BY DEF serverVars, ServerInv, ServerTypeOK, ServerPcs, ServerReplayWindow, ServerBuffered,
       SessionAttended

\* The program starts in the invariant.
LEMMA InitIInv ==
  ASSUME Init
  PROVE  IInv
<1> <<>> \in Seq(Nat) /\ <<>> \in Seq(Frame) /\ Len(<<>>) = 0 /\ DOMAIN <<>> = {}
  BY EmptySeq
<1>1. net \in NetType /\ \A c \in Conns : net.clientEnd[c] = "none"
  BY DEF Init, NetInit, NetType, Ends
<1>2. ClientTypeOK
  BY <1>1, NoFrameType
  DEF Init, ClientInit, ClientTypeOK, RtType, ActType, ActIdle, StdinType, RecvType, StdoutType, Outcomes
<1>3. ServerTypeOK
  BY <1>1, NoFrameType
  DEF Init, ServerInit, ServerTypeOK, SessType, HandlerType, ReaderType, TargetType, Codes
<1>4. /\ rt.c2sBuf = <<>> /\ rt.c2sBufFrom = 0 /\ rt.c2sAck = 0 /\ rt.c2sNext = 0
      /\ sess.s2cBuf = <<>> /\ sess.s2cBufFrom = 0 /\ sess.s2cAck = 0 /\ sess.s2cNext = 0
  BY DEF Init, ClientInit, ServerInit
<1>5. /\ ClientReplayWindow /\ ServerReplayWindow
      /\ ClientBuffered /\ ServerBuffered
  BY <1>4, BufferBytesAssumption, ChunkAssumption
  DEF ClientReplayWindow, ServerReplayWindow, ClientBuffered, ServerBuffered, Slice
<1>6. ClientPcs /\ ClientOwner
  BY <1>1 DEF Init, ClientInit, ActIdle, ClientPcs, ClientOwner, Owned
<1>7. ServerPcs /\ SessionAttended
  BY DEF Init, ServerInit, ServerPcs, SessionAttended
<1> QED BY <1>2, <1>3, <1>5, <1>6, <1>7 DEF IInv, ClientInv, ServerInv

\* Every step keeps it.
LEMMA NextIInv ==
  ASSUME IInv, [Next]_vars
  PROVE  IInv'
<1>1. ClientInv /\ ServerInv
  BY DEF IInv
<1>2. CASE ClientStep
  <2>1. ClientInv'
    BY <1>1, <1>2, ClientStepKeeps DEF ClientStep
  <2>2. net' \in NetType
    BY <2>1 DEF ClientInv, ClientTypeOK
  <2> QED BY <1>1, <1>2, <2>1, <2>2, ServerHalfKept DEF ClientStep, IInv
<1>3. CASE ServerStep
  <2>1. ServerInv'
    BY <1>1, <1>3, ServerStepKeeps DEF ServerStep
  <2>2. net' \in NetType
    BY <2>1 DEF ServerInv, ServerTypeOK
  <2>3. net'.clientEnd = net.clientEnd
    BY <1>1, <1>3, ServerKeepsClientEnds DEF ServerStep
  <2> QED BY <1>1, <1>3, <2>1, <2>2, <2>3, ClientHalfKept DEF ServerStep, IInv
<1>4. CASE PathBreaks
  <2>1. UNCHANGED clientVars /\ UNCHANGED serverVars
    BY <1>4 DEF PathBreaks, clientVars, serverVars
  <2>2. net' \in NetType /\ net'.clientEnd = net.clientEnd
    BY <1>1, <1>4, BreakType DEF PathBreaks, ServerInv, ServerTypeOK
  <2> QED BY <1>1, <2>1, <2>2, ClientHalfKept, ServerHalfKept DEF IInv
<1>5. CASE Terminated \/ UNCHANGED vars
  <2>1. UNCHANGED clientVars /\ UNCHANGED serverVars /\ net' = net
    BY <1>5 DEF Terminated, vars, clientVars, serverVars
  <2>2. net \in NetType
    BY <1>1 DEF ServerInv, ServerTypeOK
  <2> QED BY <1>1, <2>1, <2>2, ClientHalfKept, ServerHalfKept DEF IInv
<1> QED BY <1>2, <1>3, <1>4, <1>5 DEF Next

THEOREM Invariance == Spec => []IInv
<1>1. Init => IInv
  BY InitIInv
<1>2. IInv /\ [Next]_vars => IInv'
  BY NextIInv
<1> QED BY <1>1, <1>2, PTL DEF Spec

-----------------------------------------------------------------------------

\* Every variable has its type in every reachable state: in particular no
\* offset difference that the code computes in unsigned arithmetic is negative.
THEOREM TypeCorrect == Spec => []TypeOK
<1>1. IInv => TypeOK
  BY DEF IInv, ClientInv, ServerInv, TypeOK
<1> QED BY <1>1, Invariance, PTL

\* Whatever the client still has to replay is in its buffer, in place, whatever
\* acknowledgements, accepts and switches came in between.
THEOREM ClientReplays == Spec => []ClientReplayWindow
<1>1. IInv => ClientReplayWindow
  BY DEF IInv, ClientInv
<1> QED BY <1>1, Invariance, PTL

\* The same of the server's buffer of target bytes.
THEOREM ServerReplays == Spec => []ServerReplayWindow
<1>1. IInv => ServerReplayWindow
  BY DEF IInv, ServerInv
<1> QED BY <1>1, Invariance, PTL

\* Neither replay buffer exceeds its limit by a whole Read.
THEOREM Bounded == Spec => []BuffersBounded
<1>1. IInv => BuffersBounded
  BY DEF IInv, ClientInv, ServerInv, ClientBuffered, ServerBuffered, BuffersBounded
<1> QED BY <1>1, Invariance, PTL

\* A live session has the handler of its active connection at work, or its
\* disconnect timer set or fired.
THEOREM SessionsAttended == Spec => []SessionAttended
<1>1. IInv => SessionAttended
  BY DEF IInv, ServerInv
<1> QED BY <1>1, Invariance, PTL

\* A running client has a receiveLoop on its open active connection, or a
\* reconnectLoop that has not given up.
THEOREM ClientsAttended == Spec => []ClientAttended
<1>1. IInv => ClientAttended
  BY DEF IInv, ClientInv, ClientOwner, Owned, Receivers, ClientAttended
<1> QED BY <1>1, Invariance, PTL

-----------------------------------------------------------------------------
(* Epochs.  An accept names the epoch its connection was given, and only one *)
(* is ever on its way to an activation that awaits it.                       *)

\* The types that the proofs below keep needing.
LEMMA StreamTypes ==
  ASSUME IInv
  PROVE  /\ net \in NetType /\ rt \in RtType /\ sess \in SessType /\ act \in ActType /\ stdin \in StdinType
         /\ rt.c2sNext \in Nat /\ rt.c2sAck \in Nat /\ rt.s2cRx \in Nat /\ rt.epoch \in Nat
         /\ sess.s2cNext \in Nat /\ sess.s2cAck \in Nat /\ sess.c2sRx \in Nat /\ sess.epoch \in Nat
         /\ target.in \in Seq(Nat) /\ stdout.data \in Seq(Nat)
         /\ Len(target.in) \in Nat /\ Len(stdout.data) \in Nat
         /\ act.out \in Seq(Frame)
         /\ \A c \in Conns :
              /\ recv[c].epoch \in Nat /\ recv[c].frame \in Frame
              /\ handler[c].epoch \in Nat /\ handler[c].frame \in Frame /\ handler[c].out \in Seq(Frame)
<1>1. ClientTypeOK /\ ServerTypeOK
  BY DEF IInv, ClientInv, ServerInv
<1>2. target.in \in Seq(Nat) /\ stdout.data \in Seq(Nat)
  BY <1>1 DEF ClientTypeOK, ServerTypeOK, TargetType, StdoutType
<1>3. Len(target.in) \in Nat /\ Len(stdout.data) \in Nat
  BY <1>2, LenProperties
<1>4. \A c \in Conns : recv[c] \in RecvType /\ handler[c] \in HandlerType
  BY <1>1 DEF ClientTypeOK, ServerTypeOK
<1>5. \A c \in Conns :
        /\ recv[c].epoch \in Nat /\ recv[c].frame \in Frame
        /\ handler[c].epoch \in Nat /\ handler[c].frame \in Frame /\ handler[c].out \in Seq(Frame)
  BY <1>4 DEF RecvType, HandlerType
<1>6. /\ net \in NetType /\ rt \in RtType /\ sess \in SessType /\ act \in ActType /\ stdin \in StdinType
  BY <1>1 DEF ClientTypeOK, ServerTypeOK
<1>7. /\ rt.c2sNext \in Nat /\ rt.c2sAck \in Nat /\ rt.s2cRx \in Nat /\ rt.epoch \in Nat
      /\ sess.s2cNext \in Nat /\ sess.s2cAck \in Nat /\ sess.c2sRx \in Nat /\ sess.epoch \in Nat
      /\ act.out \in Seq(Frame)
  BY <1>6 DEF RtType, SessType, ActType
<1> QED BY <1>2, <1>3, <1>5, <1>6, <1>7

LEMMA FrameTypesKnown ==
  ASSUME NEW f \in Frame
  PROVE  /\ f.offset \in Nat /\ f.payload \in Seq(Nat) /\ Len(f.payload) \in Nat
         /\ f.clientToServerRx \in Nat /\ f.serverToClientRx \in Nat
<1>1. f.payload \in Seq(Nat)
  BY DEF Frame
<1> QED BY <1>1, LenProperties DEF Frame

\* The epochs of the accepts in a queue.
EpochsOf(q) == {e \in Nat : \E i \in 1..Len(q) : q[i].type = "accept" /\ q[i].epoch = e}

\* The epochs that c's client can still be told: sent, or about to be.
Pending(n, hs, c) == EpochsOf(n.down[c]) \cup EpochsOf(hs[c].out)

\* A connection gets its epoch once, from the hello that its client sent after
\* opening it; the session's epoch is that of the connection accepted last.
ServerEpochs(n, s, hs) ==
  /\ s.state = "none" => s.epoch = 0
  /\ s.active # None => s.state = "live" /\ hs[s.active].epoch = s.epoch
  /\ \A c \in Conns :
       /\ hs[c].epoch <= s.epoch
       /\ Pending(n, hs, c) \subseteq {hs[c].epoch}
       /\ hs[c].pc = "idle" \/ n.clientEnd[c] = "none" => Pending(n, hs, c) = {}
       /\ n.clientEnd[c] = "none" => n.up[c] = <<>>

\* The accept that an activation awaits is younger than whatever the client
\* committed before: activations take turns.
ClientEpochs(n, r, a, s, hs) ==
  /\ r.epoch <= s.epoch
  /\ r.active # None => hs[r.active].epoch = r.epoch /\ hs[r.active].pc # "idle"
  /\ a.pc = "hello" => \A e \in Pending(n, hs, a.conn) : e > r.epoch

EpochInv ==
  /\ ServerEpochs(net, sess, handler)
  /\ ClientEpochs(net, rt, act, sess, handler)
  /\ reader.frame.type # "accept"

LEMMA EpochQueues ==
  ASSUME NEW q \in Seq(Frame)
  PROVE  /\ EpochsOf(<<>>) = {}
         /\ \A f \in Frame :
              /\ f.type # "accept" => EpochsOf(Append(q, f)) = EpochsOf(q)
              /\ EpochsOf(Append(q, f)) \subseteq EpochsOf(q) \cup {f.epoch}
         /\ q # <<>> => /\ EpochsOf(Tail(q)) \subseteq EpochsOf(q)
                        /\ Head(q).type = "accept" => Head(q).epoch \in EpochsOf(q)
         /\ \A r \in Seq(Frame) : EpochsOf(q \o r) \subseteq EpochsOf(q) \cup EpochsOf(r)
<1>1. EpochsOf(<<>>) = {}
  <2>1. Len(<<>>) = 0
    BY EmptySeq
  <2> QED BY <2>1 DEF EpochsOf
<1>2. Len(q) \in Nat /\ \A i \in 1..Len(q) : q[i] \in Frame
  BY LenProperties, ElementOfSeq
<1>3. ASSUME NEW f \in Frame
      PROVE  /\ f.type # "accept" => EpochsOf(Append(q, f)) = EpochsOf(q)
             /\ EpochsOf(Append(q, f)) \subseteq EpochsOf(q) \cup {f.epoch}
  <2>1. /\ Len(Append(q, f)) = Len(q) + 1 /\ Append(q, f)[Len(q) + 1] = f
        /\ \A i \in 1..Len(q) : Append(q, f)[i] = q[i]
    BY AppendProperties
  <2>2. \A i : i \in 1..(Len(q) + 1) <=> i \in 1..Len(q) \/ i = Len(q) + 1
    BY <1>2
  <2> QED BY <2>1, <2>2 DEF EpochsOf
<1>4. ASSUME q # <<>>
      PROVE  /\ EpochsOf(Tail(q)) \subseteq EpochsOf(q)
             /\ Head(q).type = "accept" => Head(q).epoch \in EpochsOf(q)
  <2>1. /\ Len(Tail(q)) = Len(q) - 1
        /\ \A i \in 1..Len(Tail(q)) : Tail(q)[i] = q[i + 1]
    BY <1>4, HeadTailProperties
  <2>2. Len(q) # 0
    BY <1>4, EmptySeq
  <2>3. 1 \in 1..Len(q) /\ \A i \in 1..(Len(q) - 1) : i + 1 \in 1..Len(q)
    BY <1>2, <2>2
  <2>4. Head(q) = q[1] /\ q[1].epoch \in Nat
    BY <1>2, <1>4, <2>3 DEF Frame
  <2> QED BY <2>1, <2>3, <2>4 DEF EpochsOf
<1>5. ASSUME NEW r \in Seq(Frame) PROVE EpochsOf(q \o r) \subseteq EpochsOf(q) \cup EpochsOf(r)
  <2>1. /\ Len(q \o r) = Len(q) + Len(r)
        /\ \A i \in 1..(Len(q) + Len(r)) : (q \o r)[i] = IF i <= Len(q) THEN q[i] ELSE r[i - Len(q)]
    BY ConcatProperties
  <2>2. Len(r) \in Nat
    BY LenProperties
  <2>3. ASSUME NEW i \in 1..(Len(q) + Len(r)), ~(i \in 1..Len(q))
        PROVE  i - Len(q) \in 1..Len(r) /\ (q \o r)[i] = r[i - Len(q)]
    BY <1>2, <2>1, <2>2, <2>3
  <2>4. ASSUME NEW i \in 1..Len(q) PROVE i \in 1..(Len(q) + Len(r)) /\ (q \o r)[i] = q[i]
    BY <1>2, <2>1, <2>2, <2>4
  <2> QED BY <2>1, <2>3, <2>4 DEF EpochsOf
<1> QED BY <1>1, <1>3, <1>4, <1>5

\* Only accepts carry an epoch that counts here.
LEMMA NotAccepts ==
  /\ \A epoch, offset : /\ Ack(epoch, offset).type # "accept"
                        /\ Fin(epoch, offset).type # "accept"
                        /\ Close(epoch, offset).type # "accept"
  /\ \A epoch, offset, payload : Data(epoch, offset, payload).type # "accept"
  /\ NoFrame.type # "accept" /\ Error.type # "accept"
  /\ \A buf \in Seq(Nat) : \A epoch, offset : EpochsOf(DataChunks(epoch, offset, buf)) = {}
<1>1. /\ \A epoch, offset : /\ Ack(epoch, offset).type # "accept"
                            /\ Fin(epoch, offset).type # "accept"
                            /\ Close(epoch, offset).type # "accept"
      /\ \A epoch, offset, payload : Data(epoch, offset, payload).type # "accept"
      /\ NoFrame.type # "accept" /\ Error.type # "accept"
  BY DEF NoFrame, Ack, Fin, Close, Data, Error
<1> SUFFICES ASSUME NEW buf \in Seq(Nat), NEW epoch, NEW offset
             PROVE  EpochsOf(DataChunks(epoch, offset, buf)) = {}
  BY <1>1
<1> DEFINE n == (Len(buf) + MaxPayload - 1) \div MaxPayload
<1>2. n \in Nat
  BY MaxPayloadAssumption
<1>3. Len(DataChunks(epoch, offset, buf)) = n
  BY <1>2 DEF DataChunks
<1>4. \A i \in 1..n : DataChunks(epoch, offset, buf)[i].type # "accept"
  BY <1>1 DEF DataChunks
<1> HIDE DEF n
<1> QED BY <1>3, <1>4 DEF EpochsOf

-----------------------------------------------------------------------------
(* What the steps do to the epochs that are under way. *)

\* m carries no accept that n does not, and leaves unopened connections unused.
Calm(n, m) ==
  \A c \in Conns : /\ EpochsOf(m.down[c]) \subseteq EpochsOf(n.down[c])
                   /\ m.clientEnd[c] = "none" =>
                        n.clientEnd[c] = "none" /\ (n.up[c] = <<>> => m.up[c] = <<>>)

LEMMA CalmComposes ==
  ASSUME NEW n, NEW m, NEW k, Calm(n, m), Calm(m, k)
  PROVE  Calm(n, k)
<1> SUFFICES ASSUME NEW c \in Conns
             PROVE  /\ EpochsOf(k.down[c]) \subseteq EpochsOf(n.down[c])
                    /\ k.clientEnd[c] = "none" =>
                         n.clientEnd[c] = "none" /\ (n.up[c] = <<>> => k.up[c] = <<>>)
  BY DEF Calm
<1> QED BY DEF Calm

LEMMA CalmStays ==
  ASSUME NEW n
  PROVE  Calm(n, n)
BY DEF Calm

\* Only sending an accept is not calm.
LEMMA CalmConnections ==
  ASSUME NEW n \in NetType, NEW c \in Conns
  PROVE  /\ Calm(n, Open(n, c)) /\ Calm(n, ClientClose(n, c)) /\ Calm(n, ServerClose(n, c))
         /\ \A f \in Frame : Calm(n, ClientSend(n, c, f))
         /\ \A f \in Frame : f.type # "accept" => Calm(n, ServerSend(n, c, f))
         /\ n.down[c] # <<>> => Calm(n, ClientRecv(n, c))
         /\ n.up[c] # <<>> => Calm(n, ServerRecv(n, c))
<1>1. /\ n.up \in [Conns -> Seq(Frame)] /\ n.down \in [Conns -> Seq(Frame)]
      /\ n.clientEnd \in [Conns -> Ends] /\ <<>> \in Seq(Frame)
  BY DEF NetType
<1>2. \A d \in Conns : n.down[d] \in Seq(Frame)
  BY <1>1
<1>3. EpochsOf(<<>>) = {}
  BY <1>1, EpochQueues
<1>4. Calm(n, Open(n, c))
  <2>1. /\ Open(n, c).up = n.up /\ Open(n, c).down = n.down
        /\ Open(n, c).clientEnd = [n.clientEnd EXCEPT ![c] = "open"]
    BY DEF NetType, Open
  <2> QED BY <1>1, <2>1 DEF Calm
<1>5. Calm(n, ClientClose(n, c))
  <2>1. /\ ClientClose(n, c).up = n.up /\ ClientClose(n, c).down = [n.down EXCEPT ![c] = <<>>]
        /\ ClientClose(n, c).clientEnd = [n.clientEnd EXCEPT ![c] = "closed"]
    BY DEF NetType, ClientClose
  <2> QED BY <1>1, <1>3, <2>1 DEF Calm
<1>6. Calm(n, ServerClose(n, c))
  <2>1. /\ ServerClose(n, c).up = [n.up EXCEPT ![c] = <<>>] /\ ServerClose(n, c).down = n.down
        /\ ServerClose(n, c).clientEnd = n.clientEnd
    BY DEF NetType, ServerClose
  <2> QED BY <1>1, <2>1 DEF Calm
<1>7. ASSUME NEW f \in Frame PROVE Calm(n, ClientSend(n, c, f))
  <2>1. CASE ~Carries(n, c)
    BY <2>1, CalmStays DEF ClientSend
  <2>2. CASE Carries(n, c)
    <3>1. /\ ClientSend(n, c, f).up = [n.up EXCEPT ![c] = Append(@, f)]
          /\ ClientSend(n, c, f).down = n.down /\ ClientSend(n, c, f).clientEnd = n.clientEnd
      BY <2>2 DEF NetType, ClientSend
    <3>2. n.clientEnd[c] # "none"
      BY <2>2 DEF Carries
    <3> QED BY <1>1, <3>1, <3>2 DEF Calm
  <2> QED BY <2>1, <2>2
<1>8. ASSUME NEW f \in Frame, f.type # "accept" PROVE Calm(n, ServerSend(n, c, f))
  <2>1. CASE ~Carries(n, c)
    BY <2>1, CalmStays DEF ServerSend
  <2>2. CASE Carries(n, c)
    <3>1. /\ ServerSend(n, c, f).down = [n.down EXCEPT ![c] = Append(@, f)]
          /\ ServerSend(n, c, f).up = n.up /\ ServerSend(n, c, f).clientEnd = n.clientEnd
      BY <2>2 DEF NetType, ServerSend
    <3>2. EpochsOf(Append(n.down[c], f)) = EpochsOf(n.down[c])
      BY <1>2, <1>8, EpochQueues
    <3> QED BY <1>1, <3>1, <3>2 DEF Calm
  <2> QED BY <2>1, <2>2
<1>9. ASSUME n.down[c] # <<>> PROVE Calm(n, ClientRecv(n, c))
  <2>1. /\ ClientRecv(n, c).up = n.up /\ ClientRecv(n, c).down = [n.down EXCEPT ![c] = Tail(@)]
        /\ ClientRecv(n, c).clientEnd = n.clientEnd
    BY DEF NetType, ClientRecv
  <2>2. EpochsOf(Tail(n.down[c])) \subseteq EpochsOf(n.down[c])
    BY <1>2, <1>9, EpochQueues
  <2> QED BY <1>1, <2>1, <2>2 DEF Calm
<1>10. ASSUME n.up[c] # <<>> PROVE Calm(n, ServerRecv(n, c))
  <2>1. /\ ServerRecv(n, c).up = [n.up EXCEPT ![c] = Tail(@)] /\ ServerRecv(n, c).down = n.down
        /\ ServerRecv(n, c).clientEnd = n.clientEnd
    BY DEF NetType, ServerRecv
  <2> QED BY <1>1, <1>10, <2>1 DEF Calm
<1> QED BY <1>4, <1>5, <1>6, <1>7, <1>8, <1>9, <1>10

\* Neither finish nor closeTerminal sends one.
LEMMA CalmEndings ==
  ASSUME NEW n \in NetType
  PROVE  /\ \A r \in RtType : Calm(n, FinishNet(n, r))
         /\ \A s \in SessType, code \in Codes : Calm(n, CloseTerminalNet(n, s, code))
<1>1. ASSUME NEW r \in RtType PROVE Calm(n, FinishNet(n, r))
  <2>1. CASE r.done # "no" \/ r.active = None
    BY <2>1, CalmStays DEF FinishNet
  <2>2. CASE ~(r.done # "no" \/ r.active = None)
    <3>1. r.active \in Conns
      BY <2>2 DEF RtType
    <3> QED BY <2>2, <3>1, CalmConnections DEF FinishNet
  <2> QED BY <2>1, <2>2
<1>2. ASSUME NEW s \in SessType, NEW code \in Codes PROVE Calm(n, CloseTerminalNet(n, s, code))
  <2>1. CASE s.state # "live" \/ s.active = None
    BY <2>1, CalmStays DEF CloseTerminalNet
  <2>2. CASE ~(s.state # "live" \/ s.active = None)
    <3> DEFINE f == Close(s.epoch, code)
               m == ServerSend(n, s.active, f)
    <3>1. s.active \in Conns /\ f \in Frame /\ f.type # "accept"
      BY <2>2, EndFrameType, NotAccepts DEF SessType
    <3> HIDE DEF f
    <3>2. m \in NetType /\ Calm(n, m)
      BY <3>1, SendType, CalmConnections
    <3> HIDE DEF m
    <3>3. Calm(m, ServerClose(m, s.active))
      BY <3>1, <3>2, CalmConnections
    <3>4. Calm(n, ServerClose(m, s.active))
      BY <3>2, <3>3, CalmComposes
    <3> QED BY <2>2, <3>4 DEF CloseTerminalNet, m, f
  <2> QED BY <2>1, <2>2
<1> QED BY <1>1, <1>2

-----------------------------------------------------------------------------
(* The client's steps. *)

LEMMA ClientIsCalm ==
  ASSUME IInv, ClientNext
  PROVE  Calm(net, net')
<1>1. /\ net \in NetType /\ rt \in RtType /\ stdin \in StdinType /\ act \in ActType
      /\ ClientPcs /\ rt.s2cRx \in Nat /\ rt.c2sAck \in Nat /\ Error \in Frame
      /\ \A c \in Conns : recv[c].epoch \in Nat /\ recv[c].frame \in Frame
  BY StreamTypes, EndFrameType DEF IInv, ClientInv, Codes
<1>2. \A c \in Conns : Ack(recv[c].epoch, rt.s2cRx) \in Frame
  BY <1>1, OffsetFrameType
<1>3. ASSUME net' = net PROVE Calm(net, net')
  BY <1>3, CalmStays
<1>4. ASSUME NEW c \in Conns, NEW f \in Frame, net' = ClientSend(net, c, f) PROVE Calm(net, net')
  BY <1>1, <1>4, CalmConnections
<1>5. ASSUME NEW c \in Conns, net' = ClientClose(net, c) PROVE Calm(net, net')
  BY <1>1, <1>5, CalmConnections
<1>6. ASSUME net' = FinishNet(net, rt) PROVE Calm(net, net')
  BY <1>1, <1>6, CalmEndings
<1>7. ASSUME NEW by, NEW c \in Conns, Connect(by, c) PROVE Calm(net, net')
  <2> DEFINE f == Hello(by # "proxy", rt.c2sAck, rt.s2cRx)
             n == Open(net, c)
  <2>1. f \in Frame /\ n \in NetType /\ Calm(net, n)
    BY <1>1, HelloType, ConnectionType, CalmConnections
  <2>2. net' = ClientSend(n, c, f)
    BY <1>7 DEF Connect
  <2> HIDE DEF f, n
  <2>3. Calm(n, net')
    BY <2>1, <2>2, CalmConnections
  <2> QED BY <2>1, <2>3, CalmComposes
<1>8. CASE ActivationStep
  <2>1. CASE TakeSnapshot
    BY <1>3, <2>1 DEF TakeSnapshot
  <2>2. CASE SendReplay
    <3>1. act.conn \in Conns /\ Head(act.out) \in Frame
      BY <1>1, <2>2, TailLeft DEF SendReplay, ClientPcs, ActType
    <3> QED BY <1>4, <2>2, <3>1 DEF SendReplay
  <2>3. CASE SendReplayFails
    <3>1. act.conn \in Conns
      BY <1>1, <2>3 DEF SendReplayFails, ClientPcs
    <3> QED BY <1>5, <2>3, <3>1 DEF SendReplayFails
  <2>4. ASSUME NEW c \in Conns, HelloFails(c) \/ RefuseCommit(c) PROVE Calm(net, net')
    BY <1>5, <2>4 DEF HelloFails, RefuseCommit
  <2>5. ASSUME NEW c \in Conns, CommitActivation(c) PROVE Calm(net, net')
    <3> DEFINE n == ClientRecv(net, c)
    <3>1. net.down[c] # <<>> /\ net' = IF rt.active = None THEN n ELSE ClientClose(n, rt.active)
      BY <2>5 DEF CommitActivation, AcceptArrives
    <3>2. n \in NetType /\ Calm(net, n)
      BY <1>1, <3>1, ReceivedType, CalmConnections
    <3> HIDE DEF n
    <3>3. rt.active # None => rt.active \in Conns
      BY <1>1 DEF RtType
    <3>4. Calm(n, net')
      BY <3>1, <3>2, <3>3, CalmStays, CalmConnections
    <3> QED BY <3>2, <3>4, CalmComposes
  <2> QED BY <1>8, <2>1, <2>2, <2>3, <2>4, <2>5 DEF ActivationStep
<1>9. CASE StdinStep
  <2>1. CASE StdinWait \/ StdinRead \/ StdinEOF \/ StdinFinTake \/ StdinStops
    BY <1>3, <2>1 DEF StdinWait, StdinRead, StdinEOF, StdinFinTake, StdinStops
  <2>2. CASE StdinSend \/ StdinFinSend
    <3>1. stdin.conn \in Conns /\ stdin.frame \in Frame
      BY <1>1, <2>2 DEF StdinSend, StdinFinSend, ClientPcs, StdinType
    <3>2. net' = ClientSend(net, stdin.conn, stdin.frame) \/ net' = ClientClose(net, stdin.conn)
      BY <2>2 DEF StdinSend, StdinFinSend, StdinSends
    <3> QED BY <1>4, <1>5, <3>1, <3>2
  <2>3. CASE StdinError
    BY <1>6, <2>3 DEF StdinError
  <2> QED BY <1>9, <2>1, <2>2, <2>3 DEF StdinStep
<1>10. CASE ReconnectStep
  <2>1. CASE CheckDown \/ DialFails \/ DeadlineReset
    BY <1>3, <2>1 DEF CheckDown, DialFails, DeadlineReset
  <2>2. CASE ResumeTimeout
    BY <1>6, <2>2 DEF ResumeTimeout
  <2>3. ASSUME NEW c \in Conns, HelloDeadline(c) PROVE Calm(net, net')
    BY <1>5, <2>3 DEF HelloDeadline
  <2> QED BY <1>7, <1>10, <2>1, <2>2, <2>3 DEF ReconnectStep
<1>11. CASE Cancel
  BY <1>6, <1>11 DEF Cancel
<1>12. CASE Exit
  <2>1. /\ net'.clientEnd = [c \in Conns |-> IF net.clientEnd[c] = "open" THEN "closed"
                                             ELSE net.clientEnd[c]]
        /\ net'.down = [c \in Conns |-> <<>>] /\ net'.up = net.up
    BY <1>1, <1>12 DEF Exit, NetType
  <2>2. <<>> \in Seq(Frame)
    OBVIOUS
  <2>3. EpochsOf(<<>>) = {}
    BY <2>2, EpochQueues
  <2>4. \A c \in Conns : net'.down[c] = <<>>
    BY <2>1
  <2> QED BY <2>1, <2>3, <2>4 DEF Calm
<1>13. ASSUME NEW c \in Conns, HeartbeatDrop(c) PROVE Calm(net, net')
  BY <1>5, <1>13 DEF HeartbeatDrop
<1>14. ASSUME NEW c \in Conns, RecvStep(c) PROVE Calm(net, net')
  <2>1. CASE RecvFrame(c)
    BY <1>1, <2>1, CalmConnections DEF RecvFrame
  <2>2. CASE RecvError(c)
    BY <1>5, <2>2 DEF RecvError
  <2>3. CASE BeginStdoutWrite(c) \/ RecvFin(c)
    BY <1>2, <1>3, <1>4, <2>3 DEF BeginStdoutWrite, RecvFin
  <2>4. CASE RecvDuplicate(c) \/ RecvAck(c) \/ RecvMisplacedFin(c) \/ RecvClose(c)
    <3>1. \/ net' = net \/ net' = FinishNet(net, rt)
          \/ net' = ClientSend(net, c, Ack(recv[c].epoch, rt.s2cRx))
      BY <2>4 DEF RecvDuplicate, RecvAck, RecvMisplacedFin, RecvClose, FinishLoop
    <3> QED BY <1>2, <1>3, <1>4, <1>6, <3>1
  <2>5. CASE RecvMisplaced(c)
    <3> DEFINE n == ClientSend(net, c, Error)
    <3>1. net' = FinishNet(n, rt)
      BY <2>5 DEF RecvMisplaced, FinishLoop
    <3>2. n \in NetType /\ Calm(net, n)
      BY <1>1, SendType, CalmConnections
    <3> HIDE DEF n
    <3>3. Calm(n, net')
      BY <1>1, <3>1, <3>2, CalmEndings
    <3> QED BY <3>2, <3>3, CalmComposes
  <2>6. CASE FinishStdoutWrite(c)
    <3> DEFINE rx == rt.s2cRx + Len(recv[c].frame.payload)
    <3>1. rx \in Nat
      <4>1. recv[c].frame \in Frame /\ rt.s2cRx \in Nat
        BY <1>1
      <4>2. Len(recv[c].frame.payload) \in Nat
        BY <4>1, FrameTypesKnown
      <4> QED BY <4>1, <4>2
    <3>2. net' = ClientSend(net, c, Ack(recv[c].epoch, rx))
      BY <2>6 DEF FinishStdoutWrite
    <3> HIDE DEF rx
    <3>3. Ack(recv[c].epoch, rx) \in Frame
      BY <1>1, <3>1, OffsetFrameType
    <3> QED BY <1>4, <3>2, <3>3
  <2>7. CASE StdoutWriteFails(c)
    <3>1. PICK k \in 0..(Len(recv[c].frame.payload) - 1) :
            net' = FinishNet(ClientSend(ClientSend(net, c, Ack(recv[c].epoch, rt.s2cRx + k)), c, Error),
                             [rt EXCEPT !.s2cRx = rt.s2cRx + k])
      BY <2>7 DEF StdoutWriteFails
    <3> DEFINE rx == rt.s2cRx + k
               r  == [rt EXCEPT !.s2cRx = rx]
               n  == ClientSend(net, c, Ack(recv[c].epoch, rx))
               m  == ClientSend(n, c, Error)
    <3>2. rx \in Nat
      <4>1. Len(recv[c].frame.payload) \in Nat
        BY <1>1, FrameTypesKnown
      <4>2. k \in Nat
        BY <4>1
      <4> QED BY <1>1, <4>2
    <3>3. net' = FinishNet(m, r)
      BY <3>1
    <3> HIDE DEF rx
    <3>4. r \in RtType /\ Ack(recv[c].epoch, rx) \in Frame
      BY <1>1, <3>2, OffsetFrameType DEF RtType
    <3> HIDE DEF r
    <3>5. n \in NetType /\ Calm(net, n)
      BY <1>1, <3>4, SendType, CalmConnections
    <3> HIDE DEF n
    <3>6. m \in NetType /\ Calm(n, m)
      BY <1>1, <3>5, SendType, CalmConnections
    <3> HIDE DEF m
    <3>7. Calm(m, net')
      BY <3>3, <3>4, <3>6, CalmEndings
    <3> QED BY <3>5, <3>6, <3>7, CalmComposes
  <2> QED BY <1>14, <2>1, <2>2, <2>3, <2>4, <2>5, <2>6, <2>7 DEF RecvStep
<1> QED BY <1>7, <1>8, <1>9, <1>10, <1>11, <1>12, <1>13, <1>14 DEF ClientNext

\* Which client steps activate, or start to.
LEMMA ClientEpochsMove ==
  ASSUME IInv, ClientNext
  PROVE  \/ \E c \in Conns : \E by : Connect(by, c)
         \/ \E c \in Conns : CommitActivation(c)
         \/ /\ rt'.epoch = rt.epoch /\ rt'.active \in {rt.active, None}
            /\ act' = act \/ act'.pc # "hello"
<1> DEFINE Same(r, t) == t.epoch = r.epoch /\ t.active \in {r.active, None}
           Still == Same(rt, rt') /\ (act' = act \/ act'.pc # "hello")
<1>1. rt \in RtType /\ act \in ActType
  BY StreamTypes
<1>2. /\ \A r \in RtType : \A x : Same(r, DropActive(r, x)) /\ Same(r, Finish(r, x))
      /\ \A r \in RtType : \A x : Same(r, AdvanceC2SAck(r, x))
  BY DEF DropActive, Finish, AdvanceC2SAck, RtType
<1>3. ActIdle.pc # "hello"
  BY DEF ActIdle
<1>4. ASSUME NEW c \in Conns, RecvStep(c) PROVE Still
  <2>1. act' = act
    BY <1>4 DEF RecvStep, RecvFrame, RecvError, RecvDuplicate, RecvMisplaced, BeginStdoutWrite,
                FinishStdoutWrite, StdoutWriteFails, RecvAck, RecvFin, RecvMisplacedFin, RecvClose
  <2>2. CASE RecvFrame(c) \/ BeginStdoutWrite(c) \/ RecvFin(c)
    BY <2>1, <2>2 DEF RecvFrame, BeginStdoutWrite, RecvFin
  <2>3. CASE \/ RecvError(c) \/ RecvDuplicate(c) \/ RecvMisplaced(c) \/ RecvAck(c)
             \/ RecvMisplacedFin(c) \/ RecvClose(c)
    <3>1. \/ rt' = rt \/ rt' = DropActive(rt, c)
          \/ \E x : rt' = Finish(rt, x) \/ rt' = AdvanceC2SAck(rt, x)
      BY <2>3 DEF RecvError, RecvDuplicate, RecvMisplaced, RecvAck, RecvMisplacedFin, RecvClose, FinishLoop
    <3> QED BY <1>1, <1>2, <2>1, <3>1
  <2>4. CASE FinishStdoutWrite(c)
    <3>1. \E x : rt' = [rt EXCEPT !.s2cRx = x]
      BY <2>4 DEF FinishStdoutWrite
    <3> QED BY <1>1, <2>1, <3>1 DEF RtType
  <2>5. CASE StdoutWriteFails(c)
    <3>1. PICK k \in 0..(Len(recv[c].frame.payload) - 1) :
            rt' = Finish([rt EXCEPT !.s2cRx = rt.s2cRx + k], "stdout_error")
      BY <2>5 DEF StdoutWriteFails
    <3> DEFINE rx == rt.s2cRx + k
               r  == [rt EXCEPT !.s2cRx = rx]
    <3>2. rx \in Nat
      <4>1. recv[c].frame \in Frame /\ rt.s2cRx \in Nat
        BY StreamTypes
      <4>2. Len(recv[c].frame.payload) \in Nat
        BY <4>1, FrameTypesKnown
      <4>3. k \in Nat
        BY <4>2
      <4> QED BY <4>1, <4>3
    <3>3. rt' = Finish(r, "stdout_error")
      BY <3>1
    <3> HIDE DEF rx
    <3>4. r \in RtType /\ r.epoch = rt.epoch /\ r.active = rt.active
      BY <1>1, <3>2 DEF RtType
    <3> HIDE DEF r
    <3> QED BY <1>2, <2>1, <3>3, <3>4
  <2> QED BY <1>4, <2>2, <2>3, <2>4, <2>5 DEF RecvStep
<1>5. ASSUME ActivationStep PROVE Still \/ \E c \in Conns : CommitActivation(c)
  <2>1. CASE TakeSnapshot \/ SendReplay \/ SendReplayFails
    <3>1. rt' = rt \/ rt' = DropActive(rt, act.conn)
      BY <2>1 DEF TakeSnapshot, SendReplay, SendReplayFails
    <3>2. /\ act.pc # "hello"
          /\ act' = ActIdle \/ \E q : act' = [act EXCEPT !.pc = "replay", !.out = q]
                            \/ act' = [act EXCEPT !.out = q]
      BY <2>1 DEF TakeSnapshot, SendReplay, SendReplayFails, ActivationEnds
    <3>3. act'.pc # "hello"
      BY <1>1, <1>3, <3>2 DEF ActType
    <3> QED BY <1>1, <1>2, <3>1, <3>3
  <2>2. ASSUME NEW c \in Conns, HelloFails(c) \/ RefuseCommit(c) PROVE Still
    BY <1>3, <2>2 DEF HelloFails, RefuseCommit, ActivationEnds
  <2> QED BY <1>5, <2>1, <2>2 DEF ActivationStep
<1>6. ASSUME StdinStep PROVE Still
  <2>1. act' = act
    BY <1>6 DEF StdinStep, StdinWait, StdinRead, StdinSend, StdinEOF, StdinError, StdinFinTake,
                StdinFinSend, StdinStops
  <2>2. CASE StdinRead
    <3>1. \E x, y : rt' = [rt EXCEPT !.c2sNext = x, !.c2sBuf = y]
      BY <2>2 DEF StdinRead
    <3> QED BY <1>1, <2>1, <3>1 DEF RtType
  <2>3. CASE StdinEOF
    BY <1>1, <2>1, <2>3 DEF StdinEOF, MarkClientFin, RtType
  <2>4. CASE StdinWait \/ StdinSend \/ StdinError \/ StdinFinTake \/ StdinFinSend \/ StdinStops
    <3>1. rt' = rt \/ \E x : rt' = DropActive(rt, x) \/ rt' = Finish(rt, x)
      BY <2>4 DEF StdinWait, StdinSend, StdinError, StdinFinTake, StdinFinSend, StdinStops, StdinSends
    <3> QED BY <1>1, <1>2, <2>1, <3>1
  <2> QED BY <1>6, <2>2, <2>3, <2>4 DEF StdinStep
<1>7. ASSUME ReconnectStep \/ Cancel \/ Exit PROVE Still \/ \E c \in Conns : \E by : Connect(by, c)
  <2>1. CASE CheckDown \/ DialFails \/ DeadlineReset \/ ResumeTimeout \/ Cancel \/ Exit
    <3>1. /\ act' = act \/ act' = ActIdle
          /\ rt' = rt \/ \E x : rt' = Finish(rt, x)
      BY <2>1 DEF CheckDown, DialFails, DeadlineReset, ResumeTimeout, Cancel, Exit
    <3> QED BY <1>1, <1>2, <1>3, <3>1
  <2>2. ASSUME NEW c \in Conns, HelloDeadline(c) PROVE Still
    BY <1>3, <2>2 DEF HelloDeadline
  <2> QED BY <1>7, <2>1, <2>2 DEF ReconnectStep
<1>8. ASSUME NEW c \in Conns, HeartbeatDrop(c) PROVE Still
  BY <1>1, <1>2, <1>8 DEF HeartbeatDrop
<1> QED BY <1>4, <1>5, <1>6, <1>7, <1>8 DEF ClientNext

\* Of the server's half a step that adds no accept and starts no session keeps
\* everything.
LEMMA ServerEpochsStay ==
  ASSUME IInv, ServerEpochs(net, sess, handler),
         sess'.epoch = sess.epoch, sess'.active \in {sess.active, None},
         sess'.active # None => sess'.state = sess.state,
         sess'.state = "none" => sess.state = "none",
         \A c \in Conns :
           /\ handler'[c].epoch = handler[c].epoch
           /\ handler'[c].pc = "idle" => handler[c].pc = "idle"
           /\ Pending(net', handler', c) \subseteq Pending(net, handler, c)
           /\ net'.clientEnd[c] = "none" =>
                net.clientEnd[c] = "none" /\ (net.up[c] = <<>> => net'.up[c] = <<>>)
  PROVE  ServerEpochs(net', sess', handler')
<1>1. sess.active # None => sess.active \in Conns
  BY StreamTypes DEF SessType
<1>2. sess'.active # None => sess'.state = "live" /\ handler'[sess'.active].epoch = sess'.epoch
  BY <1>1 DEF ServerEpochs
<1>3. ASSUME NEW c \in Conns
      PROVE  /\ handler'[c].epoch <= sess'.epoch
             /\ Pending(net', handler', c) \subseteq {handler'[c].epoch}
             /\ handler'[c].pc = "idle" \/ net'.clientEnd[c] = "none"
                  => Pending(net', handler', c) = {}
             /\ net'.clientEnd[c] = "none" => net'.up[c] = <<>>
  BY DEF ServerEpochs
<1>4. sess'.state = "none" => sess'.epoch = 0
  BY DEF ServerEpochs
<1> QED BY <1>2, <1>3, <1>4 DEF ServerEpochs

\* And of the client's half one that activates nothing.
LEMMA ClientEpochsStay ==
  ASSUME IInv, ClientEpochs(net, rt, act, sess, handler),
         rt'.epoch = rt.epoch, rt'.active \in {rt.active, None},
         act' = act \/ act'.pc # "hello", sess'.epoch = sess.epoch,
         \A c \in Conns :
           /\ handler'[c].epoch = handler[c].epoch
           /\ handler'[c].pc = "idle" => handler[c].pc = "idle"
           /\ Pending(net', handler', c) \subseteq Pending(net, handler, c)
  PROVE  ClientEpochs(net', rt', act', sess', handler')
<1>1. rt.active # None => rt.active \in Conns
  BY StreamTypes DEF RtType
<1>2. act.pc = "hello" => act.conn \in Conns
  BY DEF IInv, ClientInv, ClientPcs
<1>3. rt'.epoch <= sess'.epoch
  BY DEF ClientEpochs
<1>4. rt'.active # None => handler'[rt'.active].epoch = rt'.epoch /\ handler'[rt'.active].pc # "idle"
  BY <1>1 DEF ClientEpochs
<1>5. act'.pc = "hello" => \A e \in Pending(net', handler', act'.conn) : e > rt'.epoch
  BY <1>2 DEF ClientEpochs
<1> QED BY <1>3, <1>4, <1>5 DEF ClientEpochs

\* What a commit takes from its accept: the epoch of the connection's handler,
\* younger than the one the client had.
LEMMA CommitAdvances ==
  ASSUME IInv, EpochInv, NEW c \in Conns, CommitActivation(c)
  PROVE  /\ rt'.active = c /\ rt'.epoch = handler[c].epoch /\ handler[c].pc # "idle"
         /\ rt'.epoch > rt.epoch /\ act'.pc # "hello"
<1> DEFINE f == Head(net.down[c])
           r == AdvanceC2SAck(rt, f.clientToServerRx)
<1>1. /\ act.pc = "hello" /\ act.conn = c /\ net.down[c] # <<>> /\ f.type = "accept"
      /\ ~AdvanceC2SAckFails(rt, f.clientToServerRx)
      /\ rt' = [r EXCEPT !.active = c, !.session = TRUE, !.epoch = f.epoch]
      /\ act' = [act EXCEPT !.pc = "snapshot"]
  BY DEF CommitActivation, CommitRefused, AcceptArrives
<1>2. net.down[c] \in Seq(Frame) /\ rt \in RtType /\ act \in ActType
  BY StreamTypes DEF NetType
<1>3. f.clientToServerRx \in Nat
  BY <1>1, StreamTypes, ReceivedType, FrameTypesKnown
<1>4. Window(rt.c2sBuf, rt.c2sBufFrom, rt.c2sAck, rt.c2sNext)
  BY StreamTypes DEF IInv, ClientInv, ClientReplayWindow, Window, RtType
<1>5. r \in RtType
  BY <1>1, <1>2, <1>3, <1>4, AdvanceC2SAckWindow
<1>6. f.epoch \in EpochsOf(net.down[c])
  BY <1>1, <1>2, EpochQueues
<1>7. f.epoch \in Pending(net, handler, c)
  BY <1>6 DEF Pending
<1> HIDE DEF f, r
<1>8. rt'.active = c /\ rt'.epoch = f.epoch
  BY <1>1, <1>5 DEF RtType
<1>9. act'.pc # "hello"
  BY <1>1, <1>2 DEF ActType
<1> QED BY <1>1, <1>7, <1>8, <1>9 DEF EpochInv, ServerEpochs, ClientEpochs

LEMMA ClientKeepsEpochs ==
  ASSUME IInv, EpochInv, ClientNext, UNCHANGED serverVars
  PROVE  EpochInv'
<1>1. sess' = sess /\ handler' = handler /\ reader' = reader
  BY DEF serverVars
<1>2. Calm(net, net')
  BY ClientIsCalm
<1>3. \A c \in Conns :
        /\ Pending(net', handler', c) \subseteq Pending(net, handler, c)
        /\ net'.clientEnd[c] = "none" =>
             net.clientEnd[c] = "none" /\ (net.up[c] = <<>> => net'.up[c] = <<>>)
  BY <1>1, <1>2 DEF Calm, Pending
<1>4. ServerEpochs(net', sess', handler')
  BY <1>1, <1>3, ServerEpochsStay DEF EpochInv
<1>5. ASSUME ClientEpochs(net', rt', act', sess', handler') PROVE EpochInv'
  BY <1>1, <1>4, <1>5 DEF EpochInv
<1>6. CASE \E c \in Conns : \E by : Connect(by, c)
  <2>1. PICK c \in Conns : \E by : Connect(by, c)
    BY <1>6
  <2> PICK by : Connect(by, c)
    BY <2>1
  <2>2. /\ rt' = rt /\ net.clientEnd[c] = "none"
        /\ act' = [pc |-> "hello", by |-> by, conn |-> c, out |-> <<>>]
    BY DEF Connect
  <2>3. act'.conn = c
    BY <2>2
  <2>4. Pending(net', handler', c) = {}
    BY <1>3, <2>2 DEF EpochInv, ServerEpochs
  <2>5. ClientEpochs(net', rt', act', sess', handler')
    BY <1>1, <2>2, <2>3, <2>4 DEF EpochInv, ClientEpochs
  <2> QED BY <1>5, <2>5
<1>7. CASE \E c \in Conns : CommitActivation(c)
  <2>1. PICK c \in Conns : CommitActivation(c)
    BY <1>7
  <2>2. /\ rt'.active = c /\ rt'.epoch = handler[c].epoch /\ handler[c].pc # "idle"
        /\ act'.pc # "hello"
    BY <2>1, CommitAdvances
  <2>3. handler[c].epoch <= sess.epoch
    BY DEF EpochInv, ServerEpochs
  <2> QED BY <1>1, <1>5, <2>2, <2>3 DEF ClientEpochs
<1>8. CASE /\ rt'.epoch = rt.epoch /\ rt'.active \in {rt.active, None}
           /\ act' = act \/ act'.pc # "hello"
  <2>1. ClientEpochs(net', rt', act', sess', handler')
    BY <1>1, <1>3, <1>8, ClientEpochsStay DEF EpochInv
  <2> QED BY <1>5, <2>1
<1> QED BY <1>6, <1>7, <1>8, ClientEpochsMove

-----------------------------------------------------------------------------
(* The server's steps. *)

LEMMA ServerIsCalm ==
  ASSUME IInv, reader.frame.type # "accept", ServerNext
  PROVE  Calm(net, net') \/ \E c \in Conns : SendReply(c)
<1>1. /\ net \in NetType /\ sess \in SessType /\ reader \in ReaderType /\ Error \in Frame
      /\ ServerPcs /\ sess.c2sRx \in Nat /\ Error.type # "accept"
      /\ "protocol_error" \in Codes /\ "target_closed" \in Codes /\ "resume_timeout" \in Codes
      /\ \A c \in Conns : handler[c].epoch \in Nat /\ handler[c].frame \in Frame
  BY StreamTypes, EndFrameType, NotAccepts DEF IInv, ServerInv, ServerTypeOK, Codes
<1>2. ASSUME net' = net PROVE Calm(net, net')
  BY <1>2, CalmStays
<1>3. ASSUME NEW c \in Conns, NEW f \in Frame, f.type # "accept", net' = ServerSend(net, c, f)
      PROVE  Calm(net, net')
  BY <1>1, <1>3, CalmConnections
<1>4. ASSUME NEW c \in Conns, net' = ServerClose(net, c) PROVE Calm(net, net')
  BY <1>1, <1>4, CalmConnections
<1>5. ASSUME NEW code \in Codes, net' = CloseTerminalNet(net, sess, code) PROVE Calm(net, net')
  BY <1>1, <1>5, CalmEndings
<1>6. ASSUME NEW n \in NetType, NEW c \in Conns
      PROVE  /\ Calm(n, ServerSend(n, c, Error)) /\ ServerSend(n, c, Error) \in NetType
             /\ Calm(n, ServerClose(ServerSend(n, c, Error), c))
  <2> DEFINE m == ServerSend(n, c, Error)
  <2>1. m \in NetType /\ Calm(n, m)
    BY <1>1, SendType, CalmConnections
  <2> HIDE DEF m
  <2>2. Calm(m, ServerClose(m, c))
    BY <2>1, CalmConnections
  <2>3. Calm(n, ServerClose(m, c))
    BY <2>1, <2>2, CalmComposes
  <2> QED BY <2>1, <2>3 DEF m
<1>7. \A c \in Conns : Ack(handler[c].epoch, sess.c2sRx) \in Frame
  BY <1>1, OffsetFrameType
<1>8. ASSUME NEW c \in Conns, HandlerStep(c), ~SendReply(c) PROVE Calm(net, net')
  <2>1. ASSUME net.up[c] # <<>>
        PROVE  ServerRecv(net, c) \in NetType /\ Calm(net, ServerRecv(net, c))
    BY <1>1, <2>1, ReceivedType, CalmConnections
  <2>2. CASE DialTargetFails(c)
    <3> DEFINE n == ServerRecv(net, c)
               m == ServerSend(n, c, Error)
    <3>1. n \in NetType /\ Calm(net, n)
      BY <2>1, <2>2 DEF DialTargetFails, HelloArrives
    <3>2. net' = ServerClose(ServerSend(m, c, Error), c)
      BY <2>2 DEF DialTargetFails
    <3> HIDE DEF n
    <3>3. m \in NetType /\ Calm(n, m)
      BY <1>6, <3>1
    <3> HIDE DEF m
    <3>4. Calm(m, net')
      BY <1>6, <3>2, <3>3
    <3> QED BY <3>1, <3>3, <3>4, CalmComposes
  <2>3. CASE RefuseResume(c) \/ ResumeTooLate(c)
    <3> DEFINE n == ServerRecv(net, c)
    <3>1. n \in NetType /\ Calm(net, n)
      BY <2>1, <2>3 DEF RefuseResume, ResumeTooLate, HelloArrives
    <3>2. net' = ServerClose(ServerSend(n, c, Error), c)
      BY <2>3 DEF RefuseResume, ResumeTooLate
    <3> HIDE DEF n
    <3>3. Calm(n, net')
      BY <1>6, <3>1, <3>2
    <3> QED BY <3>1, <3>3, CalmComposes
  <2>4. CASE AcceptNew(c) \/ ServerReadFrame(c)
    BY <2>1, <2>4 DEF AcceptNew, ServerReadFrame, HelloArrives
  <2>5. CASE Resume(c)
    <3> DEFINE n == ServerRecv(net, c)
    <3>1. n \in NetType /\ Calm(net, n)
      BY <2>1, <2>5 DEF Resume, HelloArrives
    <3>2. net' = IF sess.active = None THEN n ELSE ServerClose(n, sess.active)
      BY <2>5 DEF Resume
    <3> HIDE DEF n
    <3>3. sess.active # None => sess.active \in Conns
      BY <1>1 DEF SessType
    <3>4. Calm(n, net')
      BY <3>1, <3>2, <3>3, CalmStays, CalmConnections
    <3> QED BY <3>1, <3>4, CalmComposes
  <2>6. CASE SendReplyFails(c)
    <3> DEFINE n == CloseTerminalNet(net, sess, "protocol_error")
    <3>1. n \in NetType /\ Calm(net, n)
      BY <1>1, CloseTerminalNetType, CalmEndings
    <3>2. net' = ServerClose(n, c) \/ net' = ServerClose(net, c)
      BY <2>6 DEF SendReplyFails
    <3> HIDE DEF n
    <3>3. Calm(n, ServerClose(n, c))
      BY <3>1, CalmConnections
    <3>4. Calm(net, ServerClose(n, c))
      BY <3>1, <3>3, CalmComposes
    <3> QED BY <1>4, <3>2, <3>4
  <2>7. CASE ServerReadError(c) \/ BeginTargetWrite(c) \/ HandleAck(c)
    BY <1>2, <1>4, <2>7 DEF ServerReadError, BeginTargetWrite, HandleAck
  <2>8. ASSUME ProtocolError(c) PROVE Calm(net, net')
    BY <1>1, <1>6, <2>8 DEF ProtocolError
  <2>9. CASE MisplacedData(c) \/ HandleAckFails(c) \/ EarlyFin(c)
    BY <2>8, <2>9 DEF MisplacedData, HandleAckFails, EarlyFin
  <2>10. ASSUME net' = ServerSend(net, c, Ack(handler[c].epoch, sess.c2sRx)) PROVE Calm(net, net')
    BY <1>3, <1>7, <2>10, NotAccepts
  <2>11. CASE DuplicateData(c) \/ DuplicateFin(c)
    BY <2>8, <2>10, <2>11 DEF DuplicateData, DuplicateFin, AnswerAck
  <2>12. CASE HandleFin(c)
    BY <1>4, <2>10, <2>12 DEF HandleFin
  <2>13. CASE FinishTargetWrite(c)
    <3> DEFINE rx == sess.c2sRx + Len(handler[c].frame.payload)
    <3>1. rx \in Nat
      <4>1. handler[c].frame \in Frame /\ sess.c2sRx \in Nat
        BY <1>1
      <4>2. Len(handler[c].frame.payload) \in Nat
        BY <4>1, FrameTypesKnown
      <4> QED BY <4>1, <4>2
    <3>2. net' = ServerSend(net, c, Ack(handler[c].epoch, rx))
      BY <2>13 DEF FinishTargetWrite
    <3> HIDE DEF rx
    <3>3. Ack(handler[c].epoch, rx) \in Frame
      BY <1>1, <3>1, OffsetFrameType
    <3> QED BY <1>3, <3>2, <3>3, NotAccepts
  <2>14. CASE TargetWriteFails(c)
    <3>1. PICK k \in 0..(Len(handler[c].frame.payload) - 1) :
            net' = CloseTerminalNet(ServerSend(net, c, Ack(handler[c].epoch, sess.c2sRx + k)),
                                    [sess EXCEPT !.c2sRx = sess.c2sRx + k], "target_closed")
      BY <2>14 DEF TargetWriteFails
    <3> DEFINE rx == sess.c2sRx + k
               s  == [sess EXCEPT !.c2sRx = rx]
               n  == ServerSend(net, c, Ack(handler[c].epoch, rx))
    <3>2. rx \in Nat
      <4>1. Len(handler[c].frame.payload) \in Nat
        BY <1>1, FrameTypesKnown
      <4>2. k \in Nat
        BY <4>1
      <4> QED BY <1>1, <4>2
    <3>3. net' = CloseTerminalNet(n, s, "target_closed")
      BY <3>1
    <3> HIDE DEF rx
    <3>4. s \in SessType /\ Ack(handler[c].epoch, rx) \in Frame
      BY <1>1, <3>2, OffsetFrameType DEF SessType
    <3> HIDE DEF s
    <3>5. n \in NetType /\ Calm(net, n)
      BY <1>1, <3>4, NotAccepts, SendType, CalmConnections
    <3> HIDE DEF n
    <3>6. Calm(n, net')
      BY <1>1, <3>3, <3>4, <3>5, CalmEndings
    <3> QED BY <3>5, <3>6, CalmComposes
  <2> QED BY <1>8, <2>2, <2>3, <2>4, <2>5, <2>6, <2>7, <2>9, <2>11, <2>12, <2>13, <2>14
          DEF HandlerStep
<1>9. CASE ReaderStep
  <2>1. CASE ReadTarget \/ TargetEOF \/ ReaderStops
    BY <1>2, <2>1 DEF ReadTarget, TargetEOF, ReaderStops
  <2>2. CASE SendTargetData
    <3>1. reader.conn \in Conns /\ reader.frame \in Frame
      BY <1>1, <2>2 DEF SendTargetData, ServerPcs, ReaderType
    <3>2. net' = net \/ net' = ServerSend(net, reader.conn, reader.frame)
      BY <2>2 DEF SendTargetData
    <3> QED BY <1>2, <1>3, <3>1, <3>2
  <2>3. CASE SendTargetFin
    <3> DEFINE n == IF reader.conn = None THEN net ELSE ServerSend(net, reader.conn, reader.frame)
    <3>1. reader.frame \in Frame /\ (reader.conn # None => reader.conn \in Conns)
      BY <1>1 DEF ReaderType
    <3>2. n \in NetType /\ Calm(net, n)
      BY <1>1, <3>1, SendType, CalmStays, CalmConnections
    <3>3. net' = CloseTerminalNet(n, sess, "target_closed")
      BY <2>3 DEF SendTargetFin
    <3> HIDE DEF n
    <3>4. Calm(n, net')
      BY <1>1, <3>2, <3>3, CalmEndings
    <3> QED BY <3>2, <3>4, CalmComposes
  <2> QED BY <1>9, <2>1, <2>2, <2>3 DEF ReaderStep
<1>10. CASE TimerFires \/ TimerCallback
  BY <1>1, <1>2, <1>5, <1>10 DEF TimerFires, TimerCallback
<1> QED BY <1>8, <1>9, <1>10 DEF ServerNext

\* The session keeps its epoch, and its connection unless it loses it.
SameEpoch(s, t) ==
  /\ t.epoch = s.epoch /\ t.active \in {s.active, None}
  /\ t.active # None => t.state = s.state
  /\ t.state = "none" => s.state = "none"

\* No handler is given a connection or another reply.
HandlersGoOn ==
  \A c \in Conns : /\ handler'[c].epoch = handler[c].epoch
                   /\ handler'[c].pc = "idle" => handler[c].pc = "idle"
                   /\ EpochsOf(handler'[c].out) \subseteq EpochsOf(handler[c].out)

LEMMA ServerEpochsMove ==
  ASSUME IInv, ServerNext, reader.frame.type # "accept"
  PROVE  /\ reader'.frame.type # "accept"
         /\ \/ \E c \in Conns : AcceptNew(c) \/ Resume(c)
            \/ SameEpoch(sess, sess') /\ HandlersGoOn
<1>1. /\ sess \in SessType /\ handler \in [Conns -> HandlerType] /\ <<>> \in Seq(Frame) /\ ServerPcs
      /\ \A c \in Conns : /\ handler[c] \in HandlerType /\ handler[c].frame \in Frame
                          /\ handler[c].out \in Seq(Frame)
  BY StreamTypes DEF IInv, ServerInv, ServerTypeOK
<1>2. /\ \A s \in SessType : \A x : SameEpoch(s, Disconnect(s, x))
      /\ \A s \in SessType : \A x : SameEpoch(s, CloseTerminal(s, x))
      /\ \A s \in SessType : \A x : SameEpoch(s, AdvanceS2CAck(s, x))
      /\ \A s : SameEpoch(s, s)
  <2>1. \A s \in SessType : \A x : SameEpoch(s, Disconnect(s, x))
    BY DEF Disconnect, SessType, SameEpoch
  <2>2. \A s \in SessType : \A x : SameEpoch(s, CloseTerminal(s, x))
    BY DEF CloseTerminal, SessType, SameEpoch
  <2>3. \A s \in SessType : \A x : SameEpoch(s, AdvanceS2CAck(s, x))
    BY DEF AdvanceS2CAck, SessType, SameEpoch
  <2>4. \A s : SameEpoch(s, s)
    BY DEF SameEpoch
  <2> QED BY <2>1, <2>2, <2>3, <2>4
<1>3. ASSUME handler' = handler PROVE HandlersGoOn
  BY <1>3 DEF HandlersGoOn
<1>4. ASSUME NEW c \in Conns,
             \/ handler' = [handler EXCEPT ![c] = Ended(@)]
             \/ handler' = [handler EXCEPT ![c] = Resumed(@)]
             \/ handler' = [handler EXCEPT ![c].pc = "write"]
             \/ \E f \in Frame : handler' = [handler EXCEPT ![c].pc = "handle", ![c].frame = f]
      PROVE  HandlersGoOn
  <2>1. EpochsOf(<<>>) = {}
    BY <1>1, EpochQueues
  <2>2. \A d \in Conns \ {c} : handler'[d] = handler[d]
    BY <1>1, <1>4
  <2>3. /\ handler'[c].epoch = handler[c].epoch /\ handler'[c].pc # "idle"
        /\ handler'[c].out = <<>> \/ handler'[c].out = handler[c].out
    <3>1. CASE handler' = [handler EXCEPT ![c] = Ended(@)]
      BY <1>1, <3>1 DEF Ended, HandlerType
    <3>2. CASE handler' = [handler EXCEPT ![c] = Resumed(@)]
      BY <1>1, <3>2 DEF Resumed, HandlerType
    <3>3. CASE handler' = [handler EXCEPT ![c].pc = "write"]
      BY <1>1, <3>3 DEF HandlerType
    <3>4. CASE \E f \in Frame : handler' = [handler EXCEPT ![c].pc = "handle", ![c].frame = f]
      BY <1>1, <3>4 DEF HandlerType
    <3> QED BY <1>4, <3>1, <3>2, <3>3, <3>4
  <2> QED BY <2>1, <2>2, <2>3 DEF HandlersGoOn
<1>5. ASSUME NEW c \in Conns, HandlerStep(c), ~AcceptNew(c), ~Resume(c)
      PROVE  reader' = reader /\ SameEpoch(sess, sess') /\ HandlersGoOn
  <2>1. CASE \/ DialTargetFails(c) \/ RefuseResume(c) \/ ResumeTooLate(c)
             \/ SendReplyFails(c) \/ ServerReadFrame(c) \/ ServerReadError(c) \/ BeginTargetWrite(c)
             \/ DuplicateData(c) \/ MisplacedData(c) \/ DuplicateFin(c) \/ EarlyFin(c)
             \/ HandleAck(c) \/ HandleAckFails(c)
    <3>1. /\ reader' = reader
          /\ \/ sess' = sess
             \/ \E x : \/ sess' = Disconnect(sess, x) \/ sess' = CloseTerminal(sess, x)
                       \/ sess' = AdvanceS2CAck(sess, x)
      BY <2>1 DEF DialTargetFails, RefuseResume, ResumeTooLate, SendReplyFails,
                  ServerReadFrame, ServerReadError, BeginTargetWrite, DuplicateData, MisplacedData,
                  DuplicateFin, EarlyFin, HandleAck, HandleAckFails, AnswerAck, ProtocolError
    <3>2. net.up[c] # <<>> => Head(net.up[c]) \in Frame
      BY StreamTypes, ReceivedType
    <3>3. \/ handler' = handler
          \/ handler' = [handler EXCEPT ![c] = Ended(@)]
          \/ handler' = [handler EXCEPT ![c] = Resumed(@)]
          \/ handler' = [handler EXCEPT ![c].pc = "write"]
          \/ \E f \in Frame : handler' = [handler EXCEPT ![c].pc = "handle", ![c].frame = f]
      BY <2>1, <3>2
         DEF DialTargetFails, RefuseResume, ResumeTooLate, SendReplyFails,
             ServerReadFrame, ServerReadError, BeginTargetWrite, DuplicateData, MisplacedData,
             DuplicateFin, EarlyFin, HandleAck, HandleAckFails, AnswerAck, ProtocolError
    <3>4. SameEpoch(sess, sess')
      BY <1>1, <1>2, <3>1
    <3>5. HandlersGoOn
      BY <1>3, <1>4, <3>3
    <3> QED BY <3>1, <3>4, <3>5
  <2>2. CASE SendReply(c)
    <3>1. /\ sess' = sess /\ reader' = reader /\ handler[c].pc = "reply"
          /\ \E x \in {"run", "reply"} :
               handler' = [handler EXCEPT ![c].out = Tail(handler[c].out), ![c].pc = x]
      BY <2>2 DEF SendReply
    <3>2. EpochsOf(Tail(handler[c].out)) \subseteq EpochsOf(handler[c].out)
      BY <1>1, <3>1, EpochQueues DEF ServerPcs
    <3>3. /\ \A d \in Conns \ {c} : handler'[d] = handler[d]
          /\ handler'[c].epoch = handler[c].epoch /\ handler'[c].pc # "idle"
          /\ handler'[c].out = Tail(handler[c].out)
      BY <1>1, <3>1 DEF HandlerType
    <3>4. HandlersGoOn
      BY <3>2, <3>3 DEF HandlersGoOn
    <3> QED BY <1>2, <3>1, <3>4
  <2>3. CASE FinishTargetWrite(c)
    <3>1. /\ reader' = reader /\ handler' = [handler EXCEPT ![c] = Resumed(@)]
          /\ \E x : sess' = [sess EXCEPT !.c2sRx = x]
      BY <2>3 DEF FinishTargetWrite
    <3>2. SameEpoch(sess, sess')
      BY <1>1, <3>1 DEF SessType, SameEpoch
    <3> QED BY <1>4, <3>1, <3>2
  <2>4. CASE TargetWriteFails(c)
    <3>1. PICK k \in 0..(Len(handler[c].frame.payload) - 1) :
            sess' = CloseTerminal([sess EXCEPT !.c2sRx = sess.c2sRx + k], "target_closed")
      BY <2>4 DEF TargetWriteFails
    <3>2. reader' = reader /\ handler' = [handler EXCEPT ![c] = Resumed(@)]
      BY <2>4 DEF TargetWriteFails
    <3> DEFINE rx == sess.c2sRx + k
               s  == [sess EXCEPT !.c2sRx = rx]
    <3>3. rx \in Nat
      <4>1. Len(handler[c].frame.payload) \in Nat
        BY <1>1, FrameTypesKnown
      <4>2. k \in Nat
        BY <4>1
      <4> QED BY <1>1, <4>2 DEF SessType
    <3>4. sess' = CloseTerminal(s, "target_closed")
      BY <3>1
    <3> HIDE DEF rx
    <3>5. s \in SessType /\ s.epoch = sess.epoch /\ s.active = sess.active /\ s.state = sess.state
      BY <1>1, <3>3 DEF SessType
    <3> HIDE DEF s
    <3>6. SameEpoch(s, sess')
      BY <1>2, <3>4, <3>5
    <3>7. SameEpoch(sess, sess')
      BY <3>5, <3>6 DEF SameEpoch
    <3> QED BY <1>4, <3>2, <3>7
  <2>5. CASE HandleFin(c)
    <3> DEFINE s == [sess EXCEPT !.c2sFin = TRUE]
    <3>1. /\ reader' = reader
          /\ \/ handler' = [handler EXCEPT ![c] = Ended(@)]
             \/ handler' = [handler EXCEPT ![c] = Resumed(@)]
          /\ sess' = s \/ sess' = Disconnect(s, c)
      BY <2>5 DEF HandleFin
    <3>2. s \in SessType /\ s.epoch = sess.epoch /\ s.active = sess.active /\ s.state = sess.state
      BY <1>1 DEF SessType
    <3> HIDE DEF s
    <3>3. SameEpoch(s, sess')
      BY <1>2, <3>1, <3>2
    <3>4. SameEpoch(sess, sess')
      BY <3>2, <3>3 DEF SameEpoch
    <3> QED BY <1>4, <3>1, <3>4
  <2> QED BY <1>5, <2>1, <2>2, <2>3, <2>4, <2>5 DEF HandlerStep
<1>6. ASSUME ReaderStep \/ TimerFires \/ TimerCallback
      PROVE  reader'.frame.type # "accept" /\ SameEpoch(sess, sess') /\ HandlersGoOn
  <2>1. handler' = handler
    BY <1>6 DEF ReaderStep, ReadTarget, TargetEOF, SendTargetData, SendTargetFin, ReaderStops,
                TimerFires, TimerCallback
  <2>2. HandlersGoOn
    BY <1>3, <2>1
  <2>3. NoFrame.type # "accept" /\ \A pc : ReaderIdle(pc).frame.type # "accept"
    BY NotAccepts DEF ReaderIdle
  <2>4. CASE ReadTarget
    <3>1. /\ \E x, y : sess' = [sess EXCEPT !.s2cNext = x, !.s2cBuf = y]
          /\ reader' = reader \/ \E x : reader' = [pc |-> "send", conn |-> sess.active,
                                                   frame |-> Data(sess.epoch, sess.s2cNext, x)]
      BY <2>4 DEF ReadTarget
    <3>2. SameEpoch(sess, sess')
      BY <1>1, <3>1 DEF SessType, SameEpoch
    <3>3. reader'.frame.type # "accept"
      BY <3>1, NotAccepts
    <3> QED BY <2>2, <3>2, <3>3
  <2>5. CASE TargetEOF
    <3>1. /\ sess' = [sess EXCEPT !.s2cFin = TRUE]
          /\ reader'.frame = IF sess.active = None THEN NoFrame ELSE Fin(sess.epoch, sess.s2cNext)
      BY <2>5 DEF TargetEOF
    <3>2. SameEpoch(sess, sess')
      BY <1>1, <3>1 DEF SessType, SameEpoch
    <3> QED BY <2>2, <3>1, <3>2, NotAccepts
  <2>6. CASE SendTargetData \/ SendTargetFin \/ ReaderStops
    <3>1. /\ sess' = sess \/ \E x : sess' = Disconnect(sess, x) \/ sess' = CloseTerminal(sess, x)
          /\ \E pc : reader' = ReaderIdle(pc)
      BY <2>6 DEF SendTargetData, SendTargetFin, ReaderStops
    <3> QED BY <1>1, <1>2, <2>2, <2>3, <3>1
  <2>7. CASE TimerFires
    <3>1. reader' = reader /\ sess' = [sess EXCEPT !.ttl = "expired", !.callback = TRUE]
      BY <2>7 DEF TimerFires
    <3>2. SameEpoch(sess, sess')
      BY <1>1, <3>1 DEF SessType, SameEpoch
    <3> QED BY <2>2, <3>1, <3>2
  <2>8. CASE TimerCallback
    <3> DEFINE s == CloseTerminal(sess, "resume_timeout")
    <3>1. s \in SessType /\ SameEpoch(sess, s)
      BY <1>1, <1>2, SessMethods DEF Codes
    <3>2. reader' = reader /\ sess' = [s EXCEPT !.callback = FALSE]
      BY <2>8 DEF TimerCallback
    <3> HIDE DEF s
    <3>3. sess'.epoch = s.epoch /\ sess'.active = s.active /\ sess'.state = s.state
      BY <3>1, <3>2 DEF SessType
    <3>4. SameEpoch(sess, sess')
      BY <3>1, <3>3 DEF SameEpoch
    <3> QED BY <2>2, <3>2, <3>4
  <2> QED BY <1>6, <2>4, <2>5, <2>6, <2>7, <2>8 DEF ReaderStep
<1>7. ASSUME NEW c \in Conns, AcceptNew(c) \/ Resume(c) PROVE reader'.frame.type # "accept"
  <2>1. reader \in ReaderType
    BY DEF IInv, ServerInv, ServerTypeOK
  <2>2. reader' = reader \/ reader' = [reader EXCEPT !.pc = "read"]
    BY <1>7 DEF AcceptNew, Resume
  <2> QED BY <2>1, <2>2 DEF ReaderType
<1>8. ASSUME NEW c \in Conns, HandlerStep(c)
      PROVE  /\ reader'.frame.type # "accept"
             /\ AcceptNew(c) \/ Resume(c) \/ (SameEpoch(sess, sess') /\ HandlersGoOn)
  BY <1>5, <1>7, <1>8
<1> QED BY <1>6, <1>8 DEF ServerNext

\* A reply that is sent was pending before.
LEMMA SentWasPending ==
  ASSUME IInv, NEW c \in Conns, SendReply(c)
  PROVE  \A d \in Conns : /\ Pending(net', handler', d) \subseteq Pending(net, handler, d)
                          /\ net'.clientEnd[d] = net.clientEnd[d] /\ net'.up[d] = net.up[d]
<1> DEFINE f == Head(handler[c].out)
<1>1. /\ net \in NetType /\ handler \in [Conns -> HandlerType] /\ handler[c] \in HandlerType
      /\ \A d \in Conns : net.down[d] \in Seq(Frame) /\ handler[d].out \in Seq(Frame)
  BY StreamTypes DEF IInv, ServerInv, ServerTypeOK, NetType
<1>2. /\ handler[c].out # <<>> /\ net' = ServerSend(net, c, f)
      /\ \E x \in {"run", "reply"} :
           handler' = [handler EXCEPT ![c].out = Tail(handler[c].out), ![c].pc = x]
  BY DEF SendReply, IInv, ServerInv, ServerPcs
<1>3. f \in Frame
  BY <1>1, <1>2, TailLeft
<1>4. /\ EpochsOf(Tail(handler[c].out)) \subseteq EpochsOf(handler[c].out)
      /\ f.type = "accept" => f.epoch \in EpochsOf(handler[c].out)
  BY <1>1, <1>2, EpochQueues
<1> HIDE DEF f
<1>5. /\ handler'[c].out = Tail(handler[c].out)
      /\ \A d \in Conns \ {c} : handler'[d] = handler[d]
  BY <1>1, <1>2 DEF HandlerType
<1>6. /\ net'.up = net.up /\ net'.clientEnd = net.clientEnd
      /\ net'.down = net.down \/ net'.down = [net.down EXCEPT ![c] = Append(net.down[c], f)]
  BY <1>1, <1>2 DEF ServerSend, NetType
<1>7. EpochsOf(net'.down[c]) \subseteq EpochsOf(net.down[c]) \cup EpochsOf(handler[c].out)
  <2>1. EpochsOf(Append(net.down[c], f)) \subseteq EpochsOf(net.down[c]) \cup EpochsOf(handler[c].out)
    BY <1>1, <1>3, <1>4, EpochQueues
  <2>2. net'.down[c] = net.down[c] \/ net'.down[c] = Append(net.down[c], f)
    BY <1>1, <1>6 DEF NetType
  <2> QED BY <2>1, <2>2
<1>8. \A d \in Conns \ {c} : net'.down[d] = net.down[d]
  BY <1>1, <1>6 DEF NetType
<1> QED BY <1>4, <1>5, <1>6, <1>7, <1>8 DEF Pending

\* The hello that opens or resumes the session: its connection gets an epoch
\* of its own, and one accept with it.
LEMMA HelloGivesEpoch ==
  ASSUME IInv, EpochInv, NEW c \in Conns, AcceptNew(c) \/ Resume(c)
  PROVE  /\ sess'.epoch = sess.epoch + 1 /\ sess'.active = c /\ sess'.state = "live"
         /\ handler[c].pc = "idle" /\ handler'[c].pc # "idle" /\ handler'[c].epoch = sess'.epoch
         /\ EpochsOf(handler'[c].out) \subseteq {sess'.epoch}
         /\ \A d \in Conns \ {c} : handler'[d] = handler[d]
         /\ net.up[c] # <<>>
<1>1. /\ sess \in SessType /\ handler \in [Conns -> HandlerType] /\ net \in NetType
      /\ handler[c] \in HandlerType
  BY StreamTypes DEF IInv, ServerInv, ServerTypeOK
<1>2. handler[c].pc = "idle" /\ net.up[c] # <<>>
  BY DEF AcceptNew, Resume, HelloArrives
<1>3. ASSUME NEW f \in Frame PROVE EpochsOf(<<f>>) \subseteq {f.epoch}
  <2>1. Len(<<f>>) = 1 /\ <<f>>[1] = f
    OBVIOUS
  <2> QED BY <2>1 DEF EpochsOf
<1>4. CASE AcceptNew(c)
  <2>1. sess.epoch = 0
    BY <1>4 DEF AcceptNew, EpochInv, ServerEpochs
  <2>2. /\ sess' = [sess EXCEPT !.state = "live", !.epoch = 1, !.active = c]
        /\ handler' = [handler EXCEPT ![c].pc = "reply", ![c].epoch = 1, ![c].out = <<Accept(1, 0, 0)>>]
    BY <1>4 DEF AcceptNew
  <2>3. sess'.epoch = 1 /\ sess'.active = c /\ sess'.state = "live"
    BY <1>1, <2>2 DEF SessType
  <2>4. /\ handler'[c].pc # "idle" /\ handler'[c].epoch = 1 /\ handler'[c].out = <<Accept(1, 0, 0)>>
        /\ \A d \in Conns \ {c} : handler'[d] = handler[d]
    BY <1>1, <2>2 DEF HandlerType
  <2>5. Accept(1, 0, 0) \in Frame /\ Accept(1, 0, 0).epoch = 1
    BY AcceptType DEF Accept, NoFrame
  <2>6. EpochsOf(handler'[c].out) \subseteq {1}
    BY <1>3, <2>4, <2>5
  <2> QED BY <1>2, <2>1, <2>3, <2>4, <2>6
<1>5. CASE Resume(c)
  <2> DEFINE hello  == Head(net.up[c])
             s      == AdvanceS2CAck(sess, hello.serverToClientRx)
             epoch  == NextEpoch(sess)
             accept == Accept(epoch, s.c2sRx, s.s2cAck)
             chunks == DataChunks(epoch, s.s2cBufFrom, s.s2cBuf)
             fin    == IF sess.s2cFin THEN <<Fin(epoch, sess.s2cNext)>> ELSE <<>>
             out    == <<accept>> \o chunks \o fin
  <2>1. /\ ~AdvanceS2CAckFails(sess, hello.serverToClientRx) /\ sess.state = "live"
        /\ \E slipped : sess' = [s EXCEPT !.epoch = epoch, !.active = c, !.ttl = "off",
                                          !.callback = @ \/ slipped]
        /\ handler' = [handler EXCEPT ![c].pc = "reply", ![c].epoch = epoch, ![c].out = out]
    BY <1>5 DEF Resume, ResumeRefused
  <2>2. hello.serverToClientRx \in Nat
    BY <1>2, StreamTypes, ReceivedType, FrameTypesKnown
  <2>3. Window(sess.s2cBuf, sess.s2cBufFrom, sess.s2cAck, sess.s2cNext)
    BY StreamTypes DEF IInv, ServerInv, ServerReplayWindow, Window, SessType
  <2>4. s \in SessType /\ s.state = sess.state
    BY <1>1, <2>1, <2>2, <2>3, AdvanceS2CAckWindow
  <2>5. epoch = sess.epoch + 1 /\ epoch \in Nat /\ sess.s2cNext \in Nat
    BY <1>1 DEF NextEpoch, SessType
  <2> HIDE DEF hello, s, epoch
  <2>6. s.s2cBufFrom \in Nat /\ s.s2cBuf \in Seq(Nat) /\ s.c2sRx \in Nat /\ s.s2cAck \in Nat
    BY <2>4 DEF SessType
  <2>7. accept \in Frame /\ accept.epoch = epoch
    <3>1. accept \in Frame
      BY <2>5, <2>6, AcceptType
    <3>2. accept.epoch = epoch
      BY DEF Accept, NoFrame
    <3> QED BY <3>1, <3>2
  <2>8. chunks \in Seq(Frame) /\ EpochsOf(chunks) = {}
    BY <2>5, <2>6, DataChunksType, NotAccepts
  <2>9. fin \in Seq(Frame) /\ EpochsOf(fin) = {}
    <3> DEFINE f == Fin(epoch, sess.s2cNext)
    <3>1. f \in Frame /\ f.type # "accept"
      BY <2>5, OffsetFrameType, NotAccepts
    <3> HIDE DEF f
    <3>2. Len(<<f>>) = 1 /\ <<f>>[1] = f /\ <<f>> \in Seq(Frame) /\ <<>> \in Seq(Frame)
      BY <3>1
    <3>3. EpochsOf(<<f>>) = {}
      BY <3>1, <3>2 DEF EpochsOf
    <3>4. EpochsOf(<<>>) = {}
      BY <3>2, EpochQueues
    <3>5. fin = <<f>> \/ fin = <<>>
      BY DEF f
    <3> QED BY <3>2, <3>3, <3>4, <3>5
  <2>10. EpochsOf(out) \subseteq {epoch}
    <3> HIDE DEF accept, chunks, fin
    <3>1. <<accept>> \in Seq(Frame) /\ EpochsOf(<<accept>>) \subseteq {epoch}
      BY <1>3, <2>7
    <3>2. <<accept>> \o chunks \in Seq(Frame) /\ EpochsOf(<<accept>> \o chunks) \subseteq {epoch}
      BY <2>8, <3>1, ConcatProperties, EpochQueues
    <3> QED BY <2>9, <3>2, EpochQueues
  <2> HIDE DEF out
  <2>11. sess'.epoch = epoch /\ sess'.active = c /\ sess'.state = "live"
    BY <2>1, <2>4 DEF SessType
  <2>12. /\ handler'[c].pc # "idle" /\ handler'[c].epoch = epoch /\ handler'[c].out = out
         /\ \A d \in Conns \ {c} : handler'[d] = handler[d]
    BY <1>1, <2>1 DEF HandlerType
  <2> QED BY <1>2, <2>5, <2>10, <2>11, <2>12
<1> QED BY <1>4, <1>5

LEMMA ServerKeepsEpochs ==
  ASSUME IInv, EpochInv, ServerNext, UNCHANGED clientVars
  PROVE  EpochInv'
<1>1. rt' = rt /\ act' = act
  BY DEF clientVars
<1>2. /\ reader'.frame.type # "accept"
      /\ \/ \E c \in Conns : AcceptNew(c) \/ Resume(c)
         \/ SameEpoch(sess, sess') /\ HandlersGoOn
  BY ServerEpochsMove DEF EpochInv
<1>3. /\ rt.epoch \in Nat /\ sess.epoch \in Nat
      /\ \A c \in Conns : handler[c].epoch \in Nat
      /\ rt.active # None => rt.active \in Conns
      /\ act.pc = "hello" => act.conn \in Conns
  BY StreamTypes DEF IInv, ClientInv, ClientPcs, RtType
<1>4. CASE \E c \in Conns : AcceptNew(c) \/ Resume(c)
  <2>1. PICK c \in Conns : AcceptNew(c) \/ Resume(c)
    BY <1>4
  <2>2. /\ sess'.epoch = sess.epoch + 1 /\ sess'.active = c /\ sess'.state = "live"
        /\ handler[c].pc = "idle" /\ handler'[c].pc # "idle" /\ handler'[c].epoch = sess'.epoch
        /\ EpochsOf(handler'[c].out) \subseteq {sess'.epoch}
        /\ \A d \in Conns \ {c} : handler'[d] = handler[d]
        /\ net.up[c] # <<>>
    BY <2>1, HelloGivesEpoch
  <2>3. ~SendReply(c) /\ \A d \in Conns : ~SendReply(d)
    <3>1. ASSUME NEW d \in Conns, SendReply(d) PROVE FALSE
      <4>1. sess' = sess
        BY <3>1 DEF SendReply
      <4> QED BY <1>3, <2>2, <4>1
    <3> QED BY <3>1
  <2>4. Calm(net, net')
    BY <2>3, ServerIsCalm DEF EpochInv
  <2>5. Pending(net, handler, c) = {} /\ net.clientEnd[c] # "none"
    BY <2>2 DEF EpochInv, ServerEpochs
  <2>6. Pending(net', handler', c) \subseteq {sess'.epoch}
    BY <2>2, <2>4, <2>5 DEF Calm, Pending
  <2>7. \A d \in Conns \ {c} : Pending(net', handler', d) \subseteq Pending(net, handler, d)
    BY <2>2, <2>4 DEF Calm, Pending
  <2>8. \A d \in Conns : net'.clientEnd[d] = "none" =>
          net.clientEnd[d] = "none" /\ (net.up[d] = <<>> => net'.up[d] = <<>>)
    BY <2>4 DEF Calm
  <2>9. \A d \in Conns : handler'[d].epoch <= sess'.epoch
    <3>1. ASSUME NEW d \in Conns, d # c PROVE handler'[d].epoch <= sess'.epoch
      <4>1. handler'[d].epoch = handler[d].epoch /\ handler[d].epoch <= sess.epoch
        BY <2>2, <3>1 DEF EpochInv, ServerEpochs
      <4> QED BY <1>3, <2>2, <4>1
    <3>2. handler'[c].epoch <= sess'.epoch
      BY <1>3, <2>2
    <3> QED BY <3>1, <3>2
  <2>10. \A d \in Conns :
           /\ Pending(net', handler', d) \subseteq {handler'[d].epoch}
           /\ handler'[d].pc = "idle" \/ net'.clientEnd[d] = "none"
                => Pending(net', handler', d) = {}
           /\ net'.clientEnd[d] = "none" => net'.up[d] = <<>>
    <3>1. ASSUME NEW d \in Conns, d # c
          PROVE  /\ Pending(net', handler', d) \subseteq {handler'[d].epoch}
                 /\ handler'[d].pc = "idle" \/ net'.clientEnd[d] = "none"
                      => Pending(net', handler', d) = {}
                 /\ net'.clientEnd[d] = "none" => net'.up[d] = <<>>
      BY <2>2, <2>7, <2>8, <3>1 DEF EpochInv, ServerEpochs
    <3> QED BY <2>2, <2>5, <2>6, <2>8, <3>1
  <2>11. ServerEpochs(net', sess', handler')
    BY <2>2, <2>9, <2>10 DEF ServerEpochs
  <2>12. rt.epoch < sess'.epoch
    <3>1. rt.epoch <= sess.epoch
      BY DEF EpochInv, ClientEpochs
    <3> QED BY <1>3, <2>2, <3>1
  <2>13. rt'.active # None => handler'[rt'.active].epoch = rt'.epoch /\ handler'[rt'.active].pc # "idle"
    BY <1>1, <1>3, <2>2 DEF EpochInv, ClientEpochs
  <2>14. act'.pc = "hello" => \A e \in Pending(net', handler', act'.conn) : e > rt'.epoch
    <3>1. CASE act.conn = c
      BY <1>1, <1>3, <2>2, <2>6, <2>12, <3>1
    <3>2. CASE act.conn # c
      BY <1>1, <1>3, <2>7, <3>2 DEF EpochInv, ClientEpochs
    <3> QED BY <3>1, <3>2
  <2>15. rt'.epoch <= sess'.epoch
    BY <1>1, <1>3, <2>2, <2>12
  <2>16. ClientEpochs(net', rt', act', sess', handler')
    BY <2>13, <2>14, <2>15 DEF ClientEpochs
  <2> QED BY <1>2, <2>11, <2>16 DEF EpochInv
<1>5. CASE SameEpoch(sess, sess') /\ HandlersGoOn
  <2>1. \A c \in Conns :
          /\ Pending(net', handler', c) \subseteq Pending(net, handler, c)
          /\ net'.clientEnd[c] = "none" =>
               net.clientEnd[c] = "none" /\ (net.up[c] = <<>> => net'.up[c] = <<>>)
    <3>1. CASE Calm(net, net')
      BY <1>5, <3>1 DEF Calm, Pending, HandlersGoOn
    <3>2. CASE \E c \in Conns : SendReply(c)
      BY <3>2, SentWasPending
    <3> QED BY <3>1, <3>2, ServerIsCalm DEF EpochInv
  <2>2. \A c \in Conns : /\ handler'[c].epoch = handler[c].epoch
                         /\ handler'[c].pc = "idle" => handler[c].pc = "idle"
    BY <1>5 DEF HandlersGoOn
  <2>3. /\ sess'.epoch = sess.epoch /\ sess'.active \in {sess.active, None}
        /\ sess'.active # None => sess'.state = sess.state
        /\ sess'.state = "none" => sess.state = "none"
    BY <1>5 DEF SameEpoch
  <2>4. ServerEpochs(net', sess', handler')
    BY <2>1, <2>2, <2>3, ServerEpochsStay DEF EpochInv
  <2>5. ClientEpochs(net', rt', act', sess', handler')
    BY <1>1, <2>1, <2>2, <2>3, ClientEpochsStay DEF EpochInv
  <2> QED BY <1>2, <2>4, <2>5 DEF EpochInv
<1> QED BY <1>2, <1>4, <1>5

LEMMA InitEpochs ==
  ASSUME Init
  PROVE  EpochInv
<1>1. /\ rt.epoch = 0 /\ rt.active = None /\ act.pc = "idle"
      /\ sess.epoch = 0 /\ sess.active = None /\ reader.frame = NoFrame
      /\ \A c \in Conns : /\ handler[c].epoch = 0 /\ handler[c].out = <<>>
                          /\ net.up[c] = <<>> /\ net.down[c] = <<>>
  BY DEF Init, NetInit, ClientInit, ServerInit, ActIdle
<1>2. <<>> \in Seq(Frame)
  OBVIOUS
<1>3. EpochsOf(<<>>) = {}
  BY <1>2, EpochQueues
<1>4. \A c \in Conns : Pending(net, handler, c) = {}
  BY <1>1, <1>3 DEF Pending
<1> QED BY <1>1, <1>4, NotAccepts DEF EpochInv, ServerEpochs, ClientEpochs

LEMMA NextEpochs ==
  ASSUME IInv, EpochInv, [Next]_vars
  PROVE  EpochInv'
<1>1. CASE ClientStep
  BY <1>1, ClientKeepsEpochs DEF ClientStep
<1>2. CASE ServerStep
  BY <1>2, ServerKeepsEpochs DEF ServerStep
<1>3. CASE PathBreaks
  <2>1. PICK c \in Conns : Break(c)
    BY <1>3 DEF PathBreaks
  <2>2. /\ rt' = rt /\ act' = act /\ sess' = sess /\ handler' = handler /\ reader' = reader
    BY <1>3 DEF PathBreaks, clientVars, serverVars
  <2>3. /\ net'.up = [net.up EXCEPT ![c] = <<>>] /\ net'.down = [net.down EXCEPT ![c] = <<>>]
        /\ net'.clientEnd = net.clientEnd /\ net \in NetType
    BY <2>1, StreamTypes DEF Break, NetType
  <2>4. <<>> \in Seq(Frame)
    OBVIOUS
  <2>5. EpochsOf(<<>>) = {}
    BY <2>4, EpochQueues
  <2>6. Calm(net, net')
    BY <2>3, <2>5 DEF Calm, NetType
  <2>7. \A d \in Conns :
          /\ Pending(net', handler', d) \subseteq Pending(net, handler, d)
          /\ net'.clientEnd[d] = "none" =>
               net.clientEnd[d] = "none" /\ (net.up[d] = <<>> => net'.up[d] = <<>>)
    BY <2>2, <2>6 DEF Calm, Pending
  <2> QED BY <2>2, <2>7, ServerEpochsStay, ClientEpochsStay DEF EpochInv
<1>4. CASE Terminated \/ UNCHANGED vars
  BY <1>4 DEF Terminated, vars, clientVars, serverVars, EpochInv, ServerEpochs, ClientEpochs, Pending
<1> QED BY <1>1, <1>2, <1>3, <1>4 DEF Next

THEOREM EpochsInvariant == Spec => []EpochInv
<1>1. Init => EpochInv
  BY InitEpochs
<1>2. IInv /\ EpochInv /\ [Next]_vars => EpochInv'
  BY NextEpochs
<1> QED BY <1>1, <1>2, Invariance, PTL DEF Spec

\* No client is ahead of its server, and when both think the same connection
\* active they agree on the epoch, whatever accepts and hellos are under way.
THEOREM EpochsAgreed == Spec => []EpochsAgree
<1>1. IInv /\ EpochInv => EpochsAgree
  <2> SUFFICES ASSUME IInv, EpochInv PROVE EpochsAgree
    OBVIOUS
  <2>1. rt.epoch <= sess.epoch
    BY DEF EpochInv, ClientEpochs
  <2>2. ASSUME rt.active # None, rt.active = sess.active PROVE rt.epoch = sess.epoch
    BY <2>2 DEF EpochInv, ServerEpochs, ClientEpochs
  <2> QED BY <2>1, <2>2 DEF EpochsAgree
<1> QED BY <1>1, Invariance, EpochsInvariant, PTL

\* commitActivation does not compare epochs, and need not: a client only ever
\* activates a connection that the server accepted after the last one.
THEOREM ActivationsAreLater == Spec => ActivationsAdvance
<1>1. IInv /\ EpochInv /\ [Next]_vars => [rt'.active \notin {None, rt.active} => rt'.epoch > rt.epoch]_vars
  <2> SUFFICES ASSUME IInv, EpochInv, Next, rt'.active \notin {None, rt.active}
               PROVE  rt'.epoch > rt.epoch
    OBVIOUS
  <2>1. ASSUME NEW c \in Conns, CommitActivation(c) PROVE rt'.epoch > rt.epoch
    BY <2>1, CommitAdvances
  <2>2. CASE ClientStep
    <3>1. \A c \in Conns : \A by : Connect(by, c) => rt' = rt
      BY DEF Connect
    <3> QED BY <2>1, <2>2, <3>1, ClientEpochsMove DEF ClientStep
  <2>3. CASE ServerStep \/ PathBreaks \/ Terminated
    BY <2>3 DEF ServerStep, PathBreaks, Terminated, vars, clientVars
  <2> QED BY <2>2, <2>3 DEF Next
<1> QED BY <1>1, Invariance, EpochsInvariant, PTL DEF Spec, ActivationsAdvance
=============================================================================
