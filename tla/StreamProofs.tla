----------------------------- MODULE StreamProofs -----------------------------
(***************************************************************************)
(* What the two ends of a tunnel know of each other, for any connections,  *)
(* sizes and streams: a data frame carries the bytes that its offset says, *)
(* wherever it is; an acknowledgement was earned; a fin stands at the end  *)
(* of its stream.  Hence an acknowledged byte has been written, target and *)
(* stdout receive a prefix of what was read at the other end, and each     *)
(* direction implements ByteStream, until two writers meet.                *)
(***************************************************************************)
EXTENDS TunnelProofs

\* The frames that a sender may have on its way: next bytes were read from its
\* source, fin says whether that has ended, rx bytes came from the other end.
Frames(next, fin, rx) ==
  {f \in Frame :
     /\ f.type = "data" => Slice(f.payload, f.offset) /\ f.offset + Len(f.payload) <= next
     /\ f.type = "fin" => fin /\ f.offset = next
     /\ f.type = "ack" => f.offset <= rx
     /\ f.type = "accept" => f.clientToServerRx <= rx
     /\ f.type = "hello" => f.serverToClientRx <= rx}

UpFrames == Frames(rt.c2sNext, rt.c2sFin, rt.s2cRx)
DownFrames == Frames(sess.s2cNext, sess.s2cFin, sess.c2sRx)

AllIn(q, S) == \A i \in 1..Len(q) : q[i] \in S

Flight(n, U, D) == \A c \in Conns : AllIn(n.up[c], U) /\ AllIn(n.down[c], D)

-----------------------------------------------------------------------------
(* Frames. *)

\* What may be on its way stays so while the sender goes on.
LEMMA FramesGrow ==
  ASSUME NEW next \in Nat, NEW next2 \in Nat, next <= next2,
         NEW fin \in BOOLEAN, NEW fin2 \in BOOLEAN, fin => fin2 /\ next2 = next,
         NEW rx \in Nat, NEW rx2 \in Nat, rx <= rx2
  PROVE  Frames(next, fin, rx) \subseteq Frames(next2, fin2, rx2)
<1> SUFFICES ASSUME NEW f \in Frames(next, fin, rx) PROVE f \in Frames(next2, fin2, rx2)
  OBVIOUS
<1>1. f \in Frame /\ f.offset \in Nat /\ f.clientToServerRx \in Nat /\ f.serverToClientRx \in Nat
      /\ f.payload \in Seq(Nat)
  BY DEF Frames, Frame
<1>2. Len(f.payload) \in Nat
  BY <1>1, LenProperties
<1> QED BY <1>1, <1>2 DEF Frames

\* The frames that both ends build.
LEMMA PlainFrames ==
  ASSUME NEW next, NEW fin, NEW rx
  PROVE  /\ NoFrame \in Frames(next, fin, rx) /\ Error \in Frames(next, fin, rx)
         /\ \A epoch \in Nat, code \in Codes : Close(epoch, code) \in Frames(next, fin, rx)
<1>1. NoFrame \in Frame /\ Error \in Frame
  BY NoFrameType, EndFrameType DEF Codes
<1>2. \A epoch \in Nat, code \in Codes : Close(epoch, code) \in Frame
  BY EndFrameType
<1>3. NoFrame \in Frames(next, fin, rx)
  BY <1>1 DEF Frames, NoFrame
<1>4. Error \in Frames(next, fin, rx)
  BY <1>1 DEF Frames, Error, NoFrame
<1>5. ASSUME NEW epoch \in Nat, NEW code \in Codes
      PROVE  Close(epoch, code) \in Frames(next, fin, rx)
  <2>1. Close(epoch, code) \in Frame /\ Close(epoch, code).type = "close"
    BY <1>2 DEF Close, NoFrame
  <2> QED BY <2>1 DEF Frames
<1> QED BY <1>3, <1>4, <1>5

LEMMA OffsetFrames ==
  ASSUME NEW next, NEW fin, NEW rx \in Nat, NEW epoch \in Nat, NEW o \in Nat
  PROVE  /\ o <= rx => Ack(epoch, o) \in Frames(next, fin, rx)
         /\ fin /\ o = next => Fin(epoch, o) \in Frames(next, fin, rx)
         /\ o <= rx => \A b \in Nat : Accept(epoch, o, b) \in Frames(next, fin, rx)
         /\ o <= rx => \A resume \in BOOLEAN, a \in Nat : Hello(resume, a, o) \in Frames(next, fin, rx)
<1>1. o <= rx => Ack(epoch, o) \in Frames(next, fin, rx)
  <2>1. Ack(epoch, o) \in Frame /\ Ack(epoch, o).type = "ack" /\ Ack(epoch, o).offset = o
    BY OffsetFrameType DEF Ack, NoFrame
  <2> QED BY <2>1 DEF Frames
<1>2. fin /\ o = next => Fin(epoch, o) \in Frames(next, fin, rx)
  <2>1. Fin(epoch, o) \in Frame /\ Fin(epoch, o).type = "fin" /\ Fin(epoch, o).offset = o
    BY OffsetFrameType DEF Fin, NoFrame
  <2> QED BY <2>1 DEF Frames
<1>3. ASSUME o <= rx, NEW b \in Nat
      PROVE  Accept(epoch, o, b) \in Frames(next, fin, rx)
  <2>1. /\ Accept(epoch, o, b) \in Frame /\ Accept(epoch, o, b).type = "accept"
        /\ Accept(epoch, o, b).clientToServerRx = o
    BY AcceptType DEF Accept, NoFrame
  <2> QED BY <1>3, <2>1 DEF Frames
<1>4. ASSUME o <= rx, NEW resume \in BOOLEAN, NEW a \in Nat
      PROVE  Hello(resume, a, o) \in Frames(next, fin, rx)
  <2>1. /\ Hello(resume, a, o) \in Frame /\ Hello(resume, a, o).type = "hello"
        /\ Hello(resume, a, o).serverToClientRx = o
    BY HelloType DEF Hello, NoFrame
  <2> QED BY <1>4, <2>1 DEF Frames
<1> QED BY <1>1, <1>2, <1>3, <1>4

LEMMA DataFrames ==
  ASSUME NEW next \in Nat, NEW fin, NEW rx, NEW epoch \in Nat, NEW o \in Nat, NEW p \in Seq(Nat),
         Slice(p, o), o + Len(p) <= next
  PROVE  Data(epoch, o, p) \in Frames(next, fin, rx)
<1>1. Data(epoch, o, p) \in Frame
  BY DataType
<1>2. Data(epoch, o, p).type = "data" /\ Data(epoch, o, p).offset = o /\ Data(epoch, o, p).payload = p
  BY DEF Data, NoFrame
<1> QED BY <1>1, <1>2 DEF Frames

\* A replay is cut from the buffer in place.
LEMMA ChunksInPlace ==
  ASSUME NEW next \in Nat, NEW fin, NEW rx, NEW epoch \in Nat, NEW o \in Nat, NEW buf \in Seq(Nat),
         Slice(buf, o), o + Len(buf) <= next
  PROVE  AllIn(DataChunks(epoch, o, buf), Frames(next, fin, rx))
<1> DEFINE n == (Len(buf) + MaxPayload - 1) \div MaxPayload
           from(i) == (i - 1) * MaxPayload
           upto(i) == IF from(i) + MaxPayload < Len(buf) THEN from(i) + MaxPayload ELSE Len(buf)
<1>1. n \in Nat /\ Len(buf) \in Nat
  BY MaxPayloadAssumption
<1>2. ASSUME NEW i \in 1..n
      PROVE  Data(epoch, o + from(i), SubSeq(buf, from(i) + 1, upto(i))) \in Frames(next, fin, rx)
  <2>1. from(i) \in Nat
    BY <1>1, <1>2, MaxPayloadAssumption
  <2>2. upto(i) \in Nat /\ upto(i) <= Len(buf)
    BY <1>1, <2>1, MaxPayloadAssumption
  <2>3. from(i) <= Len(buf)
    <3>1. (i - 1) * MaxPayload <= (n - 1) * MaxPayload
      <4> DEFINE d == n - i
      <4>1. d \in Nat /\ n - 1 = (i - 1) + d
        BY <1>1, <1>2
      <4> HIDE DEF n, d
      <4>2. d * MaxPayload \in Nat /\ (i - 1) * MaxPayload \in Nat
        BY <1>2, <4>1, MaxPayloadAssumption
      <4>3. ((i - 1) + d) * MaxPayload = (i - 1) * MaxPayload + d * MaxPayload
        BY <1>2, <4>1, MaxPayloadAssumption
      <4> QED BY <4>1, <4>2, <4>3
    <3>2. n * MaxPayload <= Len(buf) + MaxPayload - 1
      BY <1>1, MaxPayloadAssumption
    <3>3. (n - 1) * MaxPayload = n * MaxPayload - MaxPayload
      BY <1>1, MaxPayloadAssumption
    <3> QED BY <1>1, <1>2, <3>1, <3>2, <3>3, MaxPayloadAssumption
  <2>4. from(i) <= upto(i)
    BY <1>1, <2>1, <2>3, MaxPayloadAssumption
  <2> DEFINE p == SubSeq(buf, from(i) + 1, upto(i))
  <2> HIDE DEF from, upto
  <2>5. /\ p \in Seq(Nat) /\ Len(p) = upto(i) - from(i)
        /\ \A j \in 1..Len(p) : p[j] = buf[from(i) + j]
    <3>1. /\ Len(p) = upto(i) - from(i) /\ p \in Seq(Nat)
          /\ \A j \in 1..(upto(i) - from(i)) : p[j] = buf[(from(i) + 1) + j - 1]
      <4>1. \A j \in (from(i) + 1)..upto(i) : buf[j] \in Nat
        BY <1>1, <2>1, <2>2, SMTT(30)
      <4>2. from(i) + 1 \in Int /\ upto(i) \in Int
        BY <2>1, <2>2
      <4>3. /\ p \in Seq(Nat)
            /\ Len(p) = IF from(i) + 1 <= upto(i) THEN upto(i) - (from(i) + 1) + 1 ELSE 0
            /\ \A j \in 1..(upto(i) - (from(i) + 1) + 1) : p[j] = buf[(from(i) + 1) + j - 1]
        BY <4>1, <4>2, SubSeqProperties, SMTT(30)
      <4> HIDE DEF p
      <4>4. upto(i) - (from(i) + 1) + 1 = upto(i) - from(i)
        BY <2>1, <2>2
      <4> QED BY <2>1, <2>2, <2>4, <4>3, <4>4
    <3> HIDE DEF p
    <3>2. \A j \in 1..(upto(i) - from(i)) : (from(i) + 1) + j - 1 = from(i) + j
      BY <2>1, <2>2
    <3> QED BY <3>1, <3>2
  <2> HIDE DEF p
  <2>6. Slice(p, o + from(i))
    <3> SUFFICES ASSUME NEW j \in 1..Len(p) PROVE p[j] = (o + from(i)) + j
      BY <2>5 DEF Slice
    <3>1. from(i) + j \in 1..Len(buf) /\ j \in Nat
      <4>1. j \in Nat /\ 1 <= j /\ j <= upto(i) - from(i)
        BY <2>1, <2>2, <2>5
      <4>2. \A a, b, k, m \in Nat : 1 <= k /\ k <= b - a /\ b <= m => a + k \in 1..m
        OBVIOUS
      <4> HIDE DEF n
      <4> QED BY <1>1, <2>1, <2>2, <4>1, <4>2
    <3>2. buf[from(i) + j] = o + (from(i) + j)
      BY <3>1 DEF Slice
    <3>3. o + (from(i) + j) = (o + from(i)) + j
      BY <2>1, <3>1
    <3>4. p[j] = buf[from(i) + j]
      BY <2>5
    <3> QED BY <3>2, <3>3, <3>4
  <2>7. o + from(i) \in Nat /\ (o + from(i)) + Len(p) <= next
    BY <1>1, <2>1, <2>2, <2>5
  <2> QED BY <2>5, <2>6, <2>7, DataFrames DEF p
<1>3. DataChunks(epoch, o, buf)
        = [i \in 1..n |-> Data(epoch, o + from(i), SubSeq(buf, from(i) + 1, upto(i)))]
  BY DEF DataChunks
<1> HIDE DEF n, from, upto
<1>4. Len(DataChunks(epoch, o, buf)) = n
  BY <1>1, <1>3
<1> QED BY <1>2, <1>3, <1>4 DEF AllIn
-----------------------------------------------------------------------------
(* Queues of frames. *)

LEMMA QueueMoves ==
  ASSUME NEW q \in Seq(Frame), NEW S, AllIn(q, S)
  PROVE  /\ AllIn(<<>>, S)
         /\ \A f \in Frame : f \in S => AllIn(Append(q, f), S)
         /\ q # <<>> => Head(q) \in S /\ AllIn(Tail(q), S)
         /\ \A r \in Seq(Frame) : AllIn(r, S) => AllIn(q \o r, S)
<1>1. AllIn(<<>>, S)
  <2>1. Len(<<>>) = 0
    BY EmptySeq
  <2> QED BY <2>1 DEF AllIn
<1>2. ASSUME NEW f \in Frame, f \in S PROVE AllIn(Append(q, f), S)
  <2>1. /\ Len(Append(q, f)) = Len(q) + 1 /\ Append(q, f)[Len(q) + 1] = f
        /\ \A i \in 1..Len(q) : Append(q, f)[i] = q[i]
    BY AppendProperties
  <2>2. Len(q) \in Nat
    BY LenProperties
  <2> QED BY <1>2, <2>1, <2>2 DEF AllIn
<1>3. ASSUME q # <<>> PROVE Head(q) \in S /\ AllIn(Tail(q), S)
  <2>1. /\ Len(Tail(q)) = Len(q) - 1
        /\ \A i \in 1..Len(Tail(q)) : Tail(q)[i] = q[i + 1]
    BY <1>3, HeadTailProperties
  <2>2. Len(q) \in Nat /\ Len(q) # 0
    BY <1>3, LenProperties, EmptySeq
  <2>3. Head(q) = q[1]
    BY <1>3
  <2> QED BY <2>1, <2>2, <2>3 DEF AllIn
<1>4. ASSUME NEW r \in Seq(Frame), AllIn(r, S) PROVE AllIn(q \o r, S)
  <2>1. /\ Len(q \o r) = Len(q) + Len(r)
        /\ \A i \in 1..(Len(q) + Len(r)) : (q \o r)[i] = IF i <= Len(q) THEN q[i] ELSE r[i - Len(q)]
    BY ConcatProperties
  <2>2. Len(q) \in Nat /\ Len(r) \in Nat
    BY LenProperties
  <2>3. ASSUME NEW i \in 1..(Len(q) + Len(r)) PROVE (q \o r)[i] \in S
    <3>1. CASE i <= Len(q)
      BY <2>1, <2>2, <3>1 DEF AllIn
    <3>2. CASE ~(i <= Len(q))
      <4>1. i - Len(q) \in 1..Len(r)
        BY <2>2, <3>2
      <4> QED BY <1>4, <2>1, <3>2, <4>1 DEF AllIn
    <3> QED BY <3>1, <3>2
  <2> QED BY <2>1, <2>3 DEF AllIn
<1> QED BY <1>1, <1>2, <1>3, <1>4

LEMMA FlightGrows ==
  ASSUME NEW n, NEW U, NEW D, NEW V, NEW E, Flight(n, U, D), U \subseteq V, D \subseteq E
  PROVE  Flight(n, V, E)
BY DEF Flight, AllIn

\* What happens to the queues of a connection.
LEMMA ConnectionFlight ==
  ASSUME NEW n \in NetType, NEW c \in Conns, NEW U, NEW D, Flight(n, U, D)
  PROVE  /\ Flight(Open(n, c), U, D) /\ Flight(ClientClose(n, c), U, D) /\ Flight(ServerClose(n, c), U, D)
         /\ \A f \in Frame : f \in U => Flight(ClientSend(n, c, f), U, D)
         /\ \A f \in Frame : f \in D => Flight(ServerSend(n, c, f), U, D)
         /\ n.down[c] # <<>> => Head(n.down[c]) \in D /\ Flight(ClientRecv(n, c), U, D)
         /\ n.up[c] # <<>> => Head(n.up[c]) \in U /\ Flight(ServerRecv(n, c), U, D)
<1>1. n.up \in [Conns -> Seq(Frame)] /\ n.down \in [Conns -> Seq(Frame)]
  BY DEF NetType
<1>2. AllIn(n.up[c], U) /\ AllIn(n.down[c], D) /\ n.up[c] \in Seq(Frame) /\ n.down[c] \in Seq(Frame)
  BY <1>1 DEF Flight
<1>3. AllIn(<<>>, U) /\ AllIn(<<>>, D)
  BY <1>2, QueueMoves
<1>4. Open(n, c).up = n.up /\ Open(n, c).down = n.down
  BY DEF NetType, Open
<1>5. ClientClose(n, c).up = n.up /\ ClientClose(n, c).down = [n.down EXCEPT ![c] = <<>>]
  BY DEF NetType, ClientClose
<1>6. ServerClose(n, c).up = [n.up EXCEPT ![c] = <<>>] /\ ServerClose(n, c).down = n.down
  BY DEF NetType, ServerClose
<1>7. ASSUME NEW f \in Frame, f \in U PROVE Flight(ClientSend(n, c, f), U, D)
  <2>1. CASE ~Carries(n, c)
    BY <2>1 DEF ClientSend
  <2>2. CASE Carries(n, c)
    <3>1. ClientSend(n, c, f).up = [n.up EXCEPT ![c] = Append(@, f)] /\ ClientSend(n, c, f).down = n.down
      BY <2>2 DEF NetType, ClientSend
    <3>2. AllIn(Append(n.up[c], f), U)
      BY <1>2, <1>7, QueueMoves
    <3> QED BY <1>1, <3>1, <3>2 DEF Flight
  <2> QED BY <2>1, <2>2
<1>8. ASSUME NEW f \in Frame, f \in D PROVE Flight(ServerSend(n, c, f), U, D)
  <2>1. CASE ~Carries(n, c)
    BY <2>1 DEF ServerSend
  <2>2. CASE Carries(n, c)
    <3>1. ServerSend(n, c, f).down = [n.down EXCEPT ![c] = Append(@, f)] /\ ServerSend(n, c, f).up = n.up
      BY <2>2 DEF NetType, ServerSend
    <3>2. AllIn(Append(n.down[c], f), D)
      BY <1>2, <1>8, QueueMoves
    <3> QED BY <1>1, <3>1, <3>2 DEF Flight
  <2> QED BY <2>1, <2>2
<1>9. ASSUME n.down[c] # <<>> PROVE Head(n.down[c]) \in D /\ Flight(ClientRecv(n, c), U, D)
  <2>1. ClientRecv(n, c).up = n.up /\ ClientRecv(n, c).down = [n.down EXCEPT ![c] = Tail(@)]
    BY DEF NetType, ClientRecv
  <2>2. Head(n.down[c]) \in D /\ AllIn(Tail(n.down[c]), D)
    BY <1>2, <1>9, QueueMoves
  <2> QED BY <1>1, <2>1, <2>2 DEF Flight
<1>10. ASSUME n.up[c] # <<>> PROVE Head(n.up[c]) \in U /\ Flight(ServerRecv(n, c), U, D)
  <2>1. ServerRecv(n, c).down = n.down /\ ServerRecv(n, c).up = [n.up EXCEPT ![c] = Tail(@)]
    BY DEF NetType, ServerRecv
  <2>2. Head(n.up[c]) \in U /\ AllIn(Tail(n.up[c]), U)
    BY <1>2, <1>10, QueueMoves
  <2> QED BY <1>1, <2>1, <2>2 DEF Flight
<1>11. Flight(Open(n, c), U, D)
  BY <1>4 DEF Flight
<1>12. Flight(ClientClose(n, c), U, D)
  BY <1>1, <1>3, <1>5 DEF Flight
<1>13. Flight(ServerClose(n, c), U, D)
  BY <1>1, <1>3, <1>6 DEF Flight
<1> QED BY <1>7, <1>8, <1>9, <1>10, <1>11, <1>12, <1>13

\* finish and closeTerminal close what is active, one after a close frame.
LEMMA EndFlight ==
  ASSUME NEW n \in NetType, NEW U, NEW next, NEW fin, NEW rx, Flight(n, U, Frames(next, fin, rx))
  PROVE  /\ \A r \in RtType : Flight(FinishNet(n, r), U, Frames(next, fin, rx))
         /\ \A s \in SessType, code \in Codes :
              Flight(CloseTerminalNet(n, s, code), U, Frames(next, fin, rx))
<1> DEFINE D == Frames(next, fin, rx)
<1>1. ASSUME NEW r \in RtType PROVE Flight(FinishNet(n, r), U, D)
  <2>1. r.active \in Conns \cup {None}
    BY DEF RtType
  <2> HIDE DEF D
  <2>2. CASE r.active = None
    BY <2>2 DEF FinishNet, D
  <2>3. CASE r.active \in Conns
    BY <2>3, ConnectionFlight DEF FinishNet, D
  <2> QED BY <2>1, <2>2, <2>3
<1>2. ASSUME NEW s \in SessType, NEW code \in Codes PROVE Flight(CloseTerminalNet(n, s, code), U, D)
  <2>1. s.active \in Conns \cup {None} /\ s.epoch \in Nat
    BY DEF SessType
  <2>2. Close(s.epoch, code) \in D /\ Close(s.epoch, code) \in Frame
    BY <2>1, PlainFrames, EndFrameType
  <2> HIDE DEF D
  <2>3. CASE s.state # "live" \/ s.active = None
    BY <2>3 DEF CloseTerminalNet, D
  <2>4. CASE ~(s.state # "live" \/ s.active = None)
    <3> DEFINE m == ServerSend(n, s.active, Close(s.epoch, code))
    <3>1. m \in NetType /\ Flight(m, U, D)
      BY <2>1, <2>2, <2>4, SendType, ConnectionFlight DEF D
    <3> HIDE DEF m
    <3>2. Flight(ServerClose(m, s.active), U, D)
      BY <2>1, <2>4, <3>1, ConnectionFlight
    <3> QED BY <2>4, <3>2 DEF CloseTerminalNet, m
  <2> QED BY <2>3, <2>4
<1> QED BY <1>1, <1>2
-----------------------------------------------------------------------------
(* The invariant. *)

\* The frames that goroutines hold are as good as those on their way, and what
\* is being written came as data.
ClientHolds ==
  /\ AllIn(act.out, UpFrames) /\ stdin.frame \in UpFrames
  /\ \A c \in Conns : recv[c].frame \in DownFrames /\ (recv[c].pc = "write" => recv[c].frame.type = "data")

ServerHolds ==
  /\ reader.frame \in DownFrames
  /\ \A c \in Conns : /\ AllIn(handler[c].out, DownFrames)
                      /\ handler[c].frame \in UpFrames
                      /\ handler[c].pc = "write" => handler[c].frame.type = "data"

\* A source that has ended is not read again; its fin stands at its end.
StdinEnds ==
  /\ rt.c2sFin => rt.c2sFinAt = rt.c2sNext /\ stdin.pc \notin {"wait", "read", "send"}
  /\ stdin.pc \in {"finWait", "finSend"} => rt.c2sFin
TargetEnds == sess.s2cFin => reader.pc \notin {"off", "read", "send"} /\ sess.state # "none"

\* What is acknowledged was received, what was received was written.
AcksEarned ==
  /\ rt.c2sAck <= sess.c2sRx /\ sess.c2sRx <= Len(target.in)
  /\ sess.s2cAck <= rt.s2cRx /\ rt.s2cRx <= Len(stdout.data)

\* Until two writers have met, the sink has a prefix of the stream, and
\* whoever writes does so at its end.
TargetInPlace ==
  ~targetOverlap =>
    /\ Slice(target.in, 0) /\ Len(target.in) = sess.c2sRx /\ sess.c2sRx <= rt.c2sNext
    /\ target.eof => rt.c2sFin /\ sess.c2sRx = rt.c2sNext
    /\ \A c \in Conns : handler[c].pc = "write" => handler[c].frame.offset = sess.c2sRx
StdoutInPlace ==
  ~stdoutOverlap =>
    /\ Slice(stdout.data, 0) /\ Len(stdout.data) = rt.s2cRx /\ rt.s2cRx <= sess.s2cNext
    /\ stdout.eof => sess.s2cFin /\ rt.s2cRx = sess.s2cNext
    /\ \A c \in Conns : recv[c].pc = "write" => recv[c].frame.offset = rt.s2cRx

StreamInv ==
  /\ Flight(net, UpFrames, DownFrames)
  /\ ClientHolds /\ ServerHolds /\ StdinEnds /\ TargetEnds /\ AcksEarned
  /\ TargetInPlace /\ StdoutInPlace
-----------------------------------------------------------------------------
(* What the client's steps have in common. *)

\* What the client may have on its way only becomes more.
LEMMA UpFramesGrow ==
  ASSUME IInv, IInv', rt.c2sNext <= rt'.c2sNext, rt.s2cRx <= rt'.s2cRx,
         rt.c2sFin => rt'.c2sFin /\ rt'.c2sNext = rt.c2sNext
  PROVE  UpFrames \subseteq UpFrames'
<1>1. rt \in RtType /\ rt' \in RtType
  BY DEF IInv, ClientInv, ClientTypeOK
<1>2. /\ rt.c2sNext \in Nat /\ rt'.c2sNext \in Nat /\ rt.s2cRx \in Nat /\ rt'.s2cRx \in Nat
      /\ rt.c2sFin \in BOOLEAN /\ rt'.c2sFin \in BOOLEAN
  BY <1>1 DEF RtType
<1>3. Frames(rt.c2sNext, rt.c2sFin, rt.s2cRx) \subseteq Frames(rt'.c2sNext, rt'.c2sFin, rt'.s2cRx)
  BY <1>2, FramesGrow
<1> QED BY <1>3 DEF UpFrames

\* What a client step has to show.
LEMMA ClientStreamParts ==
  ASSUME IInv, IInv', StreamInv, UNCHANGED serverVars,
         rt.c2sNext <= rt'.c2sNext, rt.s2cRx <= rt'.s2cRx,
         rt.c2sFin => rt'.c2sFin /\ rt'.c2sNext = rt.c2sNext,
         rt'.c2sAck <= sess.c2sRx, rt'.s2cRx <= Len(stdout'.data),
         Flight(net', UpFrames', DownFrames), ClientHolds', StdinEnds', StdoutInPlace'
  PROVE  StreamInv'
<1>1. /\ sess' = sess /\ handler' = handler /\ reader' = reader
      /\ target' = target /\ targetOverlap' = targetOverlap
  BY DEF serverVars
<1>2. DownFrames' = DownFrames
  BY <1>1 DEF DownFrames
<1>3. rt.s2cRx \in Nat /\ rt'.s2cRx \in Nat /\ sess.s2cAck \in Nat /\ sess.c2sRx \in Nat
      /\ rt.c2sNext \in Nat /\ rt'.c2sNext \in Nat
  BY StreamTypes DEF IInv, ClientInv, ClientTypeOK, RtType
<1>4. UpFrames \subseteq UpFrames'
  BY UpFramesGrow
<1>5. Flight(net', UpFrames', DownFrames')
  BY <1>2
<1>6. ServerHolds'
  BY <1>1, <1>2, <1>4 DEF StreamInv, ServerHolds
<1>7. TargetEnds'
  BY <1>1 DEF StreamInv, TargetEnds
<1>8. AcksEarned'
  BY <1>1, <1>3 DEF StreamInv, AcksEarned
<1>9. TargetInPlace'
  BY <1>1, <1>3 DEF StreamInv, TargetInPlace
<1> QED BY <1>5, <1>6, <1>7, <1>8, <1>9 DEF StreamInv

\* The two streams have not moved in t; nor has what is acknowledged.
SameStreams(r, t) ==
  /\ t.c2sNext = r.c2sNext /\ t.s2cRx = r.s2cRx
  /\ t.c2sFin = r.c2sFin /\ t.c2sFinAt = r.c2sFinAt

SameOffsets(r, t) == SameStreams(r, t) /\ t.c2sAck = r.c2sAck

LEMMA OffsetsStay ==
  ASSUME NEW r \in RtType
  PROVE  /\ \A c \in Conns : SameOffsets(r, DropActive(r, c))
         /\ \A err \in Outcomes : SameOffsets(r, Finish(r, err))
<1>1. ASSUME NEW c \in Conns PROVE SameOffsets(r, DropActive(r, c))
  BY DEF DropActive, SameOffsets, SameStreams, RtType
<1>2. ASSUME NEW err \in Outcomes PROVE SameOffsets(r, Finish(r, err))
  BY DEF Finish, SameOffsets, SameStreams, RtType
<1> QED BY <1>1, <1>2

\* The receiveLoops hold frames as they should, and a write that begins does
\* so at the end of what was written.
RecvHolds(rc) ==
  \A c \in Conns :
    /\ rc[c].frame \in DownFrames
    /\ rc[c].pc = "write" =>
         /\ rc[c].frame.type = "data"
         /\ rc[c].frame.offset = rt.s2cRx \/ (recv[c].pc = "write" /\ rc[c].frame = recv[c].frame)

StdinHolds(si) ==
  /\ si.frame \in UpFrames
  /\ rt.c2sFin => si.pc \notin {"wait", "read", "send"}
  /\ si.pc \in {"finWait", "finSend"} => rt.c2sFin

\* The steps that neither read nor write.
LEMMA ClientCalm ==
  ASSUME IInv, IInv', StreamInv, UNCHANGED serverVars, stdout' = stdout, stdoutOverlap' = stdoutOverlap,
         SameStreams(rt, rt'), rt'.c2sAck <= sess.c2sRx, Flight(net', UpFrames, DownFrames),
         AllIn(act'.out, UpFrames), StdinHolds(stdin'), RecvHolds(recv')
  PROVE  StreamInv'
<1>1. /\ rt'.c2sNext = rt.c2sNext /\ rt'.s2cRx = rt.s2cRx
      /\ rt'.c2sFin = rt.c2sFin /\ rt'.c2sFinAt = rt.c2sFinAt /\ sess' = sess
  BY DEF SameStreams, serverVars
<1>2. UpFrames' = UpFrames /\ DownFrames' = DownFrames
  BY <1>1 DEF UpFrames, DownFrames
<1>3. rt.c2sNext \in Nat /\ rt.s2cRx \in Nat
  BY StreamTypes
<1>4. ClientHolds'
  BY <1>2 DEF ClientHolds, RecvHolds, StdinHolds
<1>5. StdinEnds'
  BY <1>1 DEF StreamInv, StdinEnds, StdinHolds
<1>6. StdoutInPlace'
  BY <1>1 DEF StreamInv, StdoutInPlace, RecvHolds
<1>7. rt'.c2sAck <= sess.c2sRx /\ rt'.s2cRx <= Len(stdout'.data)
  BY <1>1 DEF StreamInv, AcksEarned
<1>8. Flight(net', UpFrames', DownFrames)
  BY <1>2
<1>9. rt.c2sNext <= rt'.c2sNext /\ rt.s2cRx <= rt'.s2cRx /\ (rt.c2sFin => rt'.c2sFin /\ rt'.c2sNext = rt.c2sNext)
  BY <1>1, <1>3
<1> QED BY <1>4, <1>5, <1>6, <1>7, <1>8, <1>9, ClientStreamParts

\* Nor take an acknowledgement.
LEMMA ClientQuiet ==
  ASSUME IInv, IInv', StreamInv, UNCHANGED serverVars, stdout' = stdout, stdoutOverlap' = stdoutOverlap,
         SameOffsets(rt, rt'), Flight(net', UpFrames, DownFrames),
         AllIn(act'.out, UpFrames), StdinHolds(stdin'), RecvHolds(recv')
  PROVE  StreamInv'
<1>1. SameStreams(rt, rt') /\ rt'.c2sAck <= sess.c2sRx
  BY DEF SameOffsets, StreamInv, AcksEarned
<1> QED BY <1>1, ClientCalm

LEMMA HoldsStay ==
  ASSUME IInv, StreamInv
  PROVE  /\ Flight(net, UpFrames, DownFrames) /\ AllIn(act.out, UpFrames)
         /\ AllIn(<<>>, UpFrames) /\ AllIn(ActIdle.out, UpFrames)
         /\ StdinHolds(stdin) /\ RecvHolds(recv) /\ SameOffsets(rt, rt)
<1>1. AllIn(<<>>, UpFrames)
  BY EmptySeq DEF AllIn
<1> QED BY <1>1 DEF StreamInv, ClientHolds, StdinEnds, StdinHolds, RecvHolds, SameOffsets, SameStreams, ActIdle

-----------------------------------------------------------------------------
(* The client's quiet steps. *)

LEMMA RecvHoldsKept ==
  ASSUME IInv, StreamInv, NEW c \in Conns
  PROVE  RecvHolds([recv EXCEPT ![c] = Stopped(@)]) /\ RecvHolds([recv EXCEPT ![c] = Waiting(@)])
<1>1. recv \in [Conns -> RecvType] /\ RecvHolds(recv)
  BY HoldsStay DEF IInv, ClientInv, ClientTypeOK
<1>2. NoFrame \in DownFrames
  BY PlainFrames DEF DownFrames
<1>3. Stopped(recv[c]).pc = "done" /\ Stopped(recv[c]).frame = NoFrame
  BY <1>1 DEF RecvType, Stopped
<1>4. Waiting(recv[c]).pc = "run" /\ Waiting(recv[c]).frame = NoFrame
  BY <1>1 DEF RecvType, Waiting
<1>5. RecvHolds([recv EXCEPT ![c] = Stopped(@)])
  BY <1>1, <1>2, <1>3 DEF RecvHolds
<1> QED BY <1>1, <1>2, <1>4, <1>5 DEF RecvHolds

LEMMA StdinIdleHolds ==
  ASSUME NEW pc, rt.c2sFin => pc \notin {"wait", "read", "send"},
         pc \in {"finWait", "finSend"} => rt.c2sFin
  PROVE  StdinHolds(StdinIdle(pc))
<1>1. NoFrame \in UpFrames
  BY PlainFrames DEF UpFrames
<1> QED BY <1>1 DEF StdinHolds, StdinIdle

\* The connections after a client step that sends nothing but an error frame.
LEMMA ClientNetStays ==
  ASSUME IInv, StreamInv, NEW c \in Conns
  PROVE  /\ Flight(ClientClose(net, c), UpFrames, DownFrames)
         /\ Flight(ClientSend(net, c, Error), UpFrames, DownFrames)
         /\ ClientSend(net, c, Error) \in NetType
         /\ \A f \in UpFrames : Flight(ClientSend(net, c, f), UpFrames, DownFrames)
         /\ net.down[c] # <<>> =>
              Head(net.down[c]) \in DownFrames /\ Flight(ClientRecv(net, c), UpFrames, DownFrames)
<1>1. net \in NetType /\ Flight(net, UpFrames, DownFrames)
  BY StreamTypes, HoldsStay
<1>2. Error \in UpFrames /\ Error \in Frame /\ UpFrames \subseteq Frame
  BY PlainFrames, EndFrameType DEF UpFrames, Frames, Codes
<1>3. ClientSend(net, c, Error) \in NetType
  BY <1>1, <1>2, SendType
<1> QED BY <1>1, <1>2, <1>3, ConnectionFlight

LEMMA ConnectStreams ==
  ASSUME IInv, IInv', StreamInv, UNCHANGED serverVars,
         NEW by \in {"proxy", "reconnect", "switch"}, NEW c \in Conns, Connect(by, c)
  PROVE  StreamInv'
<1> DEFINE hello == Hello(by # "proxy", rt.c2sAck, rt.s2cRx)
<1>1. net \in NetType /\ Flight(net, UpFrames, DownFrames) /\ rt.c2sAck \in Nat /\ rt.s2cRx \in Nat
  BY StreamTypes, HoldsStay
<1>2. hello \in Frame
  BY <1>1, HelloType
<1>3. hello \in UpFrames
  <2>1. \A resume \in BOOLEAN : Hello(resume, rt.c2sAck, rt.s2cRx) \in Frames(rt.c2sNext, rt.c2sFin, rt.s2cRx)
    BY <1>1, OffsetFrames
  <2> QED BY <2>1 DEF UpFrames
<1>4. /\ net' = ClientSend(Open(net, c), c, hello) /\ act'.out = <<>> /\ rt' = rt
      /\ stdin' = stdin /\ recv' = recv /\ stdout' = stdout /\ stdoutOverlap' = stdoutOverlap
  BY DEF Connect
<1> HIDE DEF hello
<1>5. Open(net, c) \in NetType /\ Flight(Open(net, c), UpFrames, DownFrames)
  BY <1>1, ConnectionType, ConnectionFlight
<1>6. Flight(net', UpFrames, DownFrames)
  BY <1>2, <1>3, <1>4, <1>5, ConnectionFlight
<1> QED BY <1>4, <1>6, HoldsStay, ClientQuiet

LEMMA HelloEndsStreams ==
  ASSUME IInv, IInv', StreamInv, UNCHANGED serverVars, NEW c \in Conns,
         HelloFails(c) \/ RefuseCommit(c) \/ HelloDeadline(c)
  PROVE  StreamInv'
<1>1. /\ net' = ClientClose(net, c) /\ act' = ActIdle /\ rt' = rt
      /\ stdin' = stdin /\ recv' = recv /\ stdout' = stdout /\ stdoutOverlap' = stdoutOverlap
  BY DEF HelloFails, RefuseCommit, HelloDeadline, ActivationEnds
<1> QED BY <1>1, ClientNetStays, HoldsStay, ClientQuiet

\* The steps that touch no connection, replay nothing and read nothing.
LEMMA ReconnectLoopStreams ==
  ASSUME IInv, IInv', StreamInv, UNCHANGED serverVars,
         CheckDown \/ DialFails \/ DeadlineReset \/ ResumeTimeout \/ Cancel
  PROVE  StreamInv'
<1>1. /\ act' = act /\ stdin' = stdin /\ recv' = recv /\ stdout' = stdout
      /\ stdoutOverlap' = stdoutOverlap
  BY DEF CheckDown, DialFails, DeadlineReset, ResumeTimeout, Cancel
<1>2. \/ rt' = rt /\ net' = net
      \/ \E err \in Outcomes : rt' = Finish(rt, err) /\ net' = FinishNet(net, rt)
  BY DEF CheckDown, DialFails, DeadlineReset, ResumeTimeout, Cancel, Outcomes
<1>3. Flight(FinishNet(net, rt), UpFrames, DownFrames)
  <2>1. net \in NetType /\ rt \in RtType /\ Flight(net, UpFrames, DownFrames)
    BY StreamTypes, HoldsStay
  <2> QED BY <2>1, EndFlight DEF DownFrames
<1>4. SameOffsets(rt, rt') /\ Flight(net', UpFrames, DownFrames)
  BY <1>2, <1>3, HoldsStay, StreamTypes, OffsetsStay
<1> QED BY <1>1, <1>4, HoldsStay, ClientQuiet

LEMMA HeartbeatDropStreams ==
  ASSUME IInv, IInv', StreamInv, UNCHANGED serverVars, NEW c \in Conns, HeartbeatDrop(c)
  PROVE  StreamInv'
<1>1. /\ net' = ClientClose(net, c) /\ act' = act /\ rt' = DropActive(rt, c)
      /\ stdin' = stdin /\ recv' = recv /\ stdout' = stdout /\ stdoutOverlap' = stdoutOverlap
  BY DEF HeartbeatDrop
<1>2. SameOffsets(rt, rt')
  BY <1>1, StreamTypes, OffsetsStay
<1> QED BY <1>1, <1>2, ClientNetStays, HoldsStay, ClientQuiet

LEMMA ExitStreams ==
  ASSUME IInv, IInv', StreamInv, UNCHANGED serverVars, Exit
  PROVE  StreamInv'
<1>1. /\ act' = ActIdle /\ rt' = rt /\ stdin' = StdinIdle("done")
      /\ recv' = [c \in Conns |-> Stopped(recv[c])]
      /\ stdout' = stdout /\ stdoutOverlap' = stdoutOverlap
  BY DEF Exit
<1>2. net'.up = net.up /\ net'.down = [c \in Conns |-> <<>>]
  BY StreamTypes DEF Exit, NetType
<1>3. Flight(net', UpFrames, DownFrames)
  <2>1. AllIn(<<>>, DownFrames)
    BY EmptySeq DEF AllIn
  <2> QED BY <1>2, <2>1, HoldsStay DEF Flight
<1>4. RecvHolds(recv')
  <2>1. recv \in [Conns -> RecvType] /\ NoFrame \in DownFrames
    BY PlainFrames DEF IInv, ClientInv, ClientTypeOK, DownFrames
  <2>2. \A c \in Conns : Stopped(recv[c]).pc = "done" /\ Stopped(recv[c]).frame = NoFrame
    BY <2>1 DEF RecvType, Stopped
  <2> QED BY <1>1, <2>1, <2>2 DEF RecvHolds
<1>5. StdinHolds(stdin')
  BY <1>1, StdinIdleHolds
<1> QED BY <1>1, <1>3, <1>4, <1>5, HoldsStay, ClientQuiet

LEMMA TakeSnapshotStreams ==
  ASSUME IInv, IInv', StreamInv, UNCHANGED serverVars, TakeSnapshot
  PROVE  StreamInv'
<1> DEFINE epoch == recv[act.conn].epoch
           chunks == DataChunks(epoch, rt.c2sBufFrom, rt.c2sBuf)
           fin   == IF rt.c2sFin THEN <<Fin(epoch, rt.c2sFinAt)>> ELSE <<>>
<1>1. /\ net' = net /\ rt' = rt /\ stdin' = stdin /\ recv' = recv /\ stdout' = stdout
      /\ stdoutOverlap' = stdoutOverlap
      /\ act' = ActIdle \/ act'.out = chunks \o fin
  BY StreamTypes DEF TakeSnapshot, ActivationEnds, ActType
<1>2. epoch \in Nat
  BY StreamTypes DEF IInv, ClientInv, ClientPcs, TakeSnapshot
<1>3. /\ rt.c2sBuf \in Seq(Nat) /\ rt.c2sBufFrom \in Nat /\ rt.c2sNext \in Nat /\ rt.s2cRx \in Nat
      /\ rt.c2sFinAt \in Nat /\ rt.c2sFin \in BOOLEAN
      /\ Slice(rt.c2sBuf, rt.c2sBufFrom) /\ rt.c2sBufFrom + Len(rt.c2sBuf) = rt.c2sNext
      /\ rt.c2sFin => rt.c2sFinAt = rt.c2sNext
  BY StreamTypes DEF IInv, ClientInv, ClientReplayWindow, RtType, StreamInv, StdinEnds
<1>4. chunks \in Seq(Frame) /\ AllIn(chunks, UpFrames)
  <2> HIDE DEF epoch
  <2>1. DataChunks(epoch, rt.c2sBufFrom, rt.c2sBuf) \in Seq(Frame)
    BY <1>2, <1>3, DataChunksType
  <2>2. AllIn(DataChunks(epoch, rt.c2sBufFrom, rt.c2sBuf), Frames(rt.c2sNext, rt.c2sFin, rt.s2cRx))
    <3>1. rt.c2sBufFrom + Len(rt.c2sBuf) <= rt.c2sNext
      BY <1>3
    <3> QED BY <1>2, <1>3, <3>1, ChunksInPlace
  <2> QED BY <2>1, <2>2 DEF UpFrames
<1>5. fin \in Seq(Frame) /\ AllIn(fin, UpFrames)
  <2>1. CASE rt.c2sFin
    <3>1. Fin(epoch, rt.c2sFinAt) \in Frame
      BY <1>2, <1>3, OffsetFrameType
    <3>2. Fin(epoch, rt.c2sFinAt) \in UpFrames
      BY <1>2, <1>3, <2>1, OffsetFrames DEF UpFrames
    <3>3. fin = <<Fin(epoch, rt.c2sFinAt)>>
      BY <2>1
    <3> QED BY <3>1, <3>2, <3>3 DEF AllIn
  <2>2. CASE ~rt.c2sFin
    <3>1. fin = <<>>
      BY <2>2
    <3> QED BY <3>1, EmptySeq DEF AllIn
  <2> QED BY <2>1, <2>2
<1> HIDE DEF chunks, fin
<1>6. AllIn(chunks \o fin, UpFrames)
  BY <1>4, <1>5, QueueMoves
<1>7. AllIn(act'.out, UpFrames)
  BY <1>1, <1>6, HoldsStay
<1> QED BY <1>1, <1>7, HoldsStay, ClientQuiet

LEMMA SendReplayStreams ==
  ASSUME IInv, IInv', StreamInv, UNCHANGED serverVars, SendReplay \/ SendReplayFails
  PROVE  StreamInv'
<1>1. /\ act.conn \in Conns /\ act.out \in Seq(Frame) /\ act.out # <<>>
      /\ stdin' = stdin /\ recv' = recv /\ stdout' = stdout /\ stdoutOverlap' = stdoutOverlap
  BY StreamTypes DEF SendReplay, SendReplayFails, IInv, ClientInv, ClientPcs
<1>2. Head(act.out) \in UpFrames /\ AllIn(Tail(act.out), UpFrames)
  BY <1>1, HoldsStay, QueueMoves
<1>3. act'.out \in {<<>>, Tail(act.out)}
  BY StreamTypes DEF SendReplay, SendReplayFails, ActivationEnds, ActIdle, ActType
<1>4. AllIn(act'.out, UpFrames)
  BY <1>2, <1>3, HoldsStay
<1>5. \/ rt' = rt /\ net' = ClientSend(net, act.conn, Head(act.out))
      \/ rt' = DropActive(rt, act.conn) /\ net' = ClientClose(net, act.conn)
  BY DEF SendReplay, SendReplayFails
<1>6. SameOffsets(rt, rt') /\ Flight(net', UpFrames, DownFrames)
  BY <1>1, <1>2, <1>5, StreamTypes, OffsetsStay, HoldsStay, ClientNetStays
<1> QED BY <1>1, <1>4, <1>6, HoldsStay, ClientQuiet

LEMMA StdinTakesStreams ==
  ASSUME IInv, IInv', StreamInv, UNCHANGED serverVars, StdinWait \/ StdinFinTake
  PROVE  StreamInv'
<1>1. /\ net' = net /\ rt' = rt /\ act' = act /\ recv' = recv /\ stdout' = stdout
      /\ stdoutOverlap' = stdoutOverlap
  BY DEF StdinWait, StdinFinTake
<1>2. StdinHolds(stdin')
  <2>1. StdinHolds(stdin) /\ stdin \in StdinType
    BY HoldsStay, StreamTypes
  <2>2. CASE StdinWait
    <3>1. stdin.pc = "wait" /\ stdin'.pc = "read" /\ stdin'.frame = stdin.frame
      BY <2>1, <2>2 DEF StdinWait, StdinType
    <3> QED BY <2>1, <3>1 DEF StdinHolds
  <2>3. CASE StdinFinTake
    <3>1. /\ stdin.pc = "finWait" /\ rt.active \in Conns /\ stdin'.pc = "finSend"
          /\ stdin'.frame = Fin(recv[rt.active].epoch, rt.c2sFinAt)
      BY <2>3, StreamTypes DEF StdinFinTake, RtType
    <3>2. rt.c2sFin /\ rt.c2sFinAt = rt.c2sNext
      BY <2>1, <3>1 DEF StdinHolds, StreamInv, StdinEnds
    <3>3. Fin(recv[rt.active].epoch, rt.c2sFinAt) \in UpFrames
      BY <3>1, <3>2, StreamTypes, OffsetFrames DEF UpFrames
    <3> QED BY <3>1, <3>2, <3>3 DEF StdinHolds
  <2> QED BY <2>2, <2>3
<1> QED BY <1>1, <1>2, HoldsStay, ClientQuiet

LEMMA StdinSendsStreams ==
  ASSUME IInv, IInv', StreamInv, UNCHANGED serverVars, StdinSend \/ StdinFinSend
  PROVE  StreamInv'
<1>1. /\ act' = act /\ recv' = recv /\ stdout' = stdout /\ stdoutOverlap' = stdoutOverlap
      /\ stdin.conn \in Conns
  BY DEF StdinSend, StdinFinSend, IInv, ClientInv, ClientPcs
<1>2. StdinHolds(stdin) /\ stdin.frame \in UpFrames
  BY HoldsStay DEF StdinHolds
<1>3. StdinHolds(stdin')
  <2>1. CASE StdinSend
    <3>1. stdin' = StdinIdle("wait") /\ ~rt.c2sFin
      BY <1>2, <2>1 DEF StdinSend, StdinSends, StdinHolds
    <3> QED BY <3>1, StdinIdleHolds
  <2>2. CASE StdinFinSend
    <3>1. (stdin' = StdinIdle("done") \/ stdin' = StdinIdle("finWait")) /\ rt.c2sFin
      BY <1>2, <2>2 DEF StdinFinSend, StdinSends, StdinHolds
    <3> QED BY <3>1, StdinIdleHolds
  <2> QED BY <2>1, <2>2
<1>4. \/ rt' = rt /\ net' = ClientSend(net, stdin.conn, stdin.frame)
      \/ rt' = DropActive(rt, stdin.conn) /\ net' = ClientClose(net, stdin.conn)
  BY DEF StdinSend, StdinFinSend, StdinSends
<1>5. SameOffsets(rt, rt') /\ Flight(net', UpFrames, DownFrames)
  BY <1>1, <1>2, <1>4, StreamTypes, OffsetsStay, HoldsStay, ClientNetStays
<1> QED BY <1>1, <1>3, <1>5, HoldsStay, ClientQuiet

LEMMA StdinStopsStreams ==
  ASSUME IInv, IInv', StreamInv, UNCHANGED serverVars, StdinError \/ StdinStops
  PROVE  StreamInv'
<1>1. /\ act' = act /\ recv' = recv /\ stdout' = stdout /\ stdoutOverlap' = stdoutOverlap
      /\ stdin' = StdinIdle("done")
      /\ \/ rt' = rt /\ net' = net
         \/ rt' = Finish(rt, "stdin_error") /\ net' = FinishNet(net, rt)
  BY DEF StdinError, StdinStops
<1>2. Flight(FinishNet(net, rt), UpFrames, DownFrames)
  <2>1. net \in NetType /\ rt \in RtType /\ Flight(net, UpFrames, DownFrames)
    BY StreamTypes, HoldsStay
  <2> QED BY <2>1, EndFlight DEF DownFrames
<1>3. SameOffsets(rt, rt') /\ Flight(net', UpFrames, DownFrames)
  BY <1>1, <1>2, StreamTypes, OffsetsStay, HoldsStay DEF Outcomes
<1>4. StdinHolds(stdin')
  BY <1>1, StdinIdleHolds
<1> QED BY <1>1, <1>3, <1>4, HoldsStay, ClientQuiet

LEMMA RecvFrameStreams ==
  ASSUME IInv, IInv', StreamInv, UNCHANGED serverVars, NEW c \in Conns,
         RecvFrame(c) \/ BeginStdoutWrite(c)
  PROVE  StreamInv'
<1>1. /\ rt' = rt /\ act' = act /\ stdin' = stdin /\ stdout' = stdout /\ stdoutOverlap' = stdoutOverlap
  BY DEF RecvFrame, BeginStdoutWrite
<1>2. RecvHolds(recv) /\ recv \in [Conns -> RecvType]
  BY HoldsStay DEF IInv, ClientInv, ClientTypeOK
<1>3. CASE RecvFrame(c)
  <2>1. net.down[c] # <<>> /\ net' = ClientRecv(net, c)
    BY <1>3 DEF RecvFrame
  <2>2. Head(net.down[c]) \in DownFrames /\ Flight(net', UpFrames, DownFrames)
    BY <2>1, ClientNetStays
  <2>3. \/ recv' = recv
        \/ recv' = [recv EXCEPT ![c].pc = "handle", ![c].frame = Head(net.down[c])]
    BY <1>3 DEF RecvFrame
  <2>4. RecvHolds(recv')
    BY <1>2, <2>2, <2>3 DEF RecvHolds, RecvType
  <2> QED BY <1>1, <2>2, <2>4, HoldsStay, ClientQuiet
<1>4. CASE BeginStdoutWrite(c)
  <2>1. /\ net' = net /\ recv' = [recv EXCEPT ![c].pc = "write"]
        /\ recv[c].frame.type = "data" /\ recv[c].frame.offset = rt.s2cRx
    BY <1>4 DEF BeginStdoutWrite, Receiving, IsNextData
  <2>2. RecvHolds(recv')
    BY <1>2, <2>1 DEF RecvHolds, RecvType
  <2> QED BY <1>1, <2>1, <2>2, HoldsStay, ClientQuiet
<1> QED BY <1>3, <1>4

\* A receiveLoop that finishes the runtime.
LEMMA FinishLoopStreams ==
  ASSUME IInv, IInv', StreamInv, UNCHANGED serverVars, NEW c \in Conns,
         NEW n \in NetType, Flight(n, UpFrames, DownFrames), NEW err \in Outcomes, FinishLoop(c, n, err),
         UNCHANGED <<proxy, act, reconnect, stdin, stdout, stdoutOverlap>>
  PROVE  StreamInv'
<1>1. rt' = Finish(rt, err) /\ net' = FinishNet(n, rt) /\ recv' = [recv EXCEPT ![c] = Stopped(@)]
  BY DEF FinishLoop
<1>2. Flight(net', UpFrames, DownFrames)
  BY <1>1, StreamTypes, EndFlight DEF DownFrames
<1>3. SameOffsets(rt, rt')
  BY <1>1, StreamTypes, OffsetsStay
<1>4. RecvHolds(recv')
  BY <1>1, RecvHoldsKept
<1> QED BY <1>2, <1>3, <1>4, HoldsStay, ClientQuiet

LEMMA RecvEndsStreams ==
  ASSUME IInv, IInv', StreamInv, UNCHANGED serverVars, NEW c \in Conns,
         RecvMisplaced(c) \/ RecvMisplacedFin(c) \/ RecvClose(c)
  PROVE  StreamInv'
<1>1. UNCHANGED <<proxy, act, reconnect, stdin, stdout, stdoutOverlap>>
  BY DEF RecvMisplaced, RecvMisplacedFin, RecvClose
<1>2. net \in NetType /\ Flight(net, UpFrames, DownFrames)
  BY StreamTypes, HoldsStay
<1>3. CASE RecvMisplaced(c)
  <2>1. PICK err \in {"gap", "partial_duplicate"} : FinishLoop(c, ClientSend(net, c, Error), err)
    BY <1>3 DEF RecvMisplaced
  <2> HIDE DEF Error
  <2>2. err \in Outcomes
    BY DEF Outcomes
  <2> QED BY <1>1, <2>1, <2>2, ClientNetStays, FinishLoopStreams
<1>4. CASE RecvMisplacedFin(c) \/ RecvClose(c)
  <2>1. PICK err \in Outcomes : FinishLoop(c, net, err)
    BY <1>4 DEF RecvMisplacedFin, RecvClose, Outcomes
  <2> QED BY <1>1, <1>2, <2>1, FinishLoopStreams
<1> QED BY <1>3, <1>4

LEMMA RecvErrorStreams ==
  ASSUME IInv, IInv', StreamInv, UNCHANGED serverVars, NEW c \in Conns, RecvError(c)
  PROVE  StreamInv'
<1>1. /\ rt' = DropActive(rt, c) /\ net' = ClientClose(net, c)
      /\ recv' = [recv EXCEPT ![c] = Stopped(@)]
      /\ act' = act /\ stdin' = stdin /\ stdout' = stdout /\ stdoutOverlap' = stdoutOverlap
  BY DEF RecvError
<1>2. RecvHolds(recv')
  BY <1>1, RecvHoldsKept
<1>3. SameOffsets(rt, rt')
  BY <1>1, StreamTypes, OffsetsStay
<1> QED BY <1>1, <1>2, <1>3, ClientNetStays, HoldsStay, ClientQuiet

\* An acknowledgement of what has been written is as it should be.
LEMMA ClientAcks ==
  ASSUME IInv, NEW c \in Conns, NEW rx \in Nat, NEW o \in Nat, o <= rx
  PROVE  /\ Ack(recv[c].epoch, o) \in Frame
         /\ \A next, fin : Ack(recv[c].epoch, o) \in Frames(next, fin, rx)
BY StreamTypes, OffsetFrames, OffsetFrameType

LEMMA RecvDuplicateStreams ==
  ASSUME IInv, IInv', StreamInv, UNCHANGED serverVars, NEW c \in Conns, RecvDuplicate(c)
  PROVE  StreamInv'
<1>1. UNCHANGED <<proxy, act, reconnect, stdin, stdout, stdoutOverlap>>
  BY DEF RecvDuplicate
<1>2. CASE FinishLoop(c, net, "ack_send")
  <2>1. net \in NetType /\ Flight(net, UpFrames, DownFrames) /\ "ack_send" \in Outcomes
    BY StreamTypes, HoldsStay DEF Outcomes
  <2> QED BY <1>1, <1>2, <2>1, FinishLoopStreams
<1>3. CASE /\ net' = ClientSend(net, c, Ack(recv[c].epoch, rt.s2cRx))
           /\ recv' = [recv EXCEPT ![c] = Waiting(@)]
           /\ rt' = rt
  <2>1. Ack(recv[c].epoch, rt.s2cRx) \in UpFrames
    <3>1. rt.s2cRx \in Nat /\ rt.s2cRx <= rt.s2cRx
      BY StreamTypes
    <3> QED BY <3>1, ClientAcks DEF UpFrames
  <2>2. RecvHolds(recv')
    BY <1>3, RecvHoldsKept
  <2> QED BY <1>1, <1>3, <2>1, <2>2, ClientNetStays, HoldsStay, ClientQuiet
<1> QED BY <1>2, <1>3 DEF RecvDuplicate

-----------------------------------------------------------------------------
(* The client's steps that read, write or take an acknowledgement. *)

LEMMA AckTaken ==
  ASSUME NEW r \in RtType, NEW o
  PROVE  /\ SameStreams(r, AdvanceC2SAck(r, o)) /\ AdvanceC2SAck(r, o).c2sAck \in {r.c2sAck, o}
         /\ AdvanceC2SAck(r, o).active = r.active
BY DEF AdvanceC2SAck, SameStreams, RtType

LEMMA RecvAckStreams ==
  ASSUME IInv, IInv', StreamInv, UNCHANGED serverVars, NEW c \in Conns, RecvAck(c)
  PROVE  StreamInv'
<1>1. UNCHANGED <<proxy, act, reconnect, stdin, stdout, stdoutOverlap>>
  BY DEF RecvAck
<1>2. net \in NetType /\ Flight(net, UpFrames, DownFrames)
  BY StreamTypes, HoldsStay
<1>3. CASE FinishLoop(c, net, "ack_ahead")
  BY <1>1, <1>2, <1>3, FinishLoopStreams DEF Outcomes
<1>4. CASE /\ rt' = AdvanceC2SAck(rt, recv[c].frame.offset)
           /\ recv' = [recv EXCEPT ![c] = Waiting(@)]
           /\ net' = net
  <2>1. recv[c].frame \in DownFrames /\ recv[c].frame.type = "ack"
    BY DEF StreamInv, ClientHolds, RecvAck, Receiving
  <2>2. recv[c].frame.offset <= sess.c2sRx
    BY <2>1 DEF DownFrames, Frames
  <2>3. SameStreams(rt, rt') /\ rt'.c2sAck <= sess.c2sRx
    BY <1>4, <2>2, StreamTypes, AckTaken DEF StreamInv, AcksEarned
  <2>4. RecvHolds(recv')
    BY <1>4, RecvHoldsKept
  <2> QED BY <1>1, <1>2, <1>4, <2>3, <2>4, HoldsStay, ClientCalm
<1> QED BY <1>3, <1>4 DEF RecvAck

LEMMA CommitStreams ==
  ASSUME IInv, IInv', StreamInv, UNCHANGED serverVars, NEW c \in Conns, CommitActivation(c)
  PROVE  StreamInv'
<1> DEFINE f == Head(net.down[c])
           n == ClientRecv(net, c)
           r == AdvanceC2SAck(rt, f.clientToServerRx)
<1>1. /\ net.down[c] # <<>> /\ f.type = "accept" /\ stdin' = stdin /\ stdout' = stdout
      /\ stdoutOverlap' = stdoutOverlap
      /\ rt' = [r EXCEPT !.active = c, !.session = TRUE, !.epoch = f.epoch]
      /\ recv' = [recv EXCEPT ![c].pc = "run", ![c].epoch = f.epoch]
      /\ net' = IF rt.active = None THEN n ELSE ClientClose(n, rt.active)
      /\ act' = [act EXCEPT !.pc = "snapshot"]
  BY DEF CommitActivation, AcceptArrives
<1>2. f \in DownFrames /\ Flight(n, UpFrames, DownFrames) /\ n \in NetType
  BY <1>1, StreamTypes, ClientNetStays, ReceivedType
<1>3. f.clientToServerRx <= sess.c2sRx
  BY <1>1, <1>2 DEF DownFrames, Frames
<1>4. SameStreams(rt, r) /\ r.c2sAck \in {rt.c2sAck, f.clientToServerRx}
  BY StreamTypes, AckTaken
<1>5. f \in Frame /\ f.clientToServerRx \in Nat /\ ~AdvanceC2SAckFails(rt, f.clientToServerRx)
  BY <1>1, StreamTypes, ReceivedType, FrameTypesKnown DEF CommitActivation, CommitRefused
<1>6. r \in RtType
  <2>1. Window(rt.c2sBuf, rt.c2sBufFrom, rt.c2sAck, rt.c2sNext)
    BY StreamTypes DEF IInv, ClientInv, ClientReplayWindow, Window, RtType
  <2> QED BY <1>5, <2>1, StreamTypes, AdvanceC2SAckWindow
<1> HIDE DEF f, n, r
<1>7. SameStreams(rt, rt') /\ rt'.c2sAck <= sess.c2sRx
  <2>1. SameStreams(r, rt') /\ rt'.c2sAck = r.c2sAck
    BY <1>1, <1>6 DEF RtType, SameStreams
  <2> QED BY <1>3, <1>4, <2>1 DEF SameStreams, StreamInv, AcksEarned
<1>8. Flight(net', UpFrames, DownFrames)
  <2>1. rt.active \in Conns \cup {None}
    BY StreamTypes DEF RtType
  <2> QED BY <1>1, <1>2, <2>1, ConnectionFlight
<1>9. RecvHolds(recv')
  <2>1. RecvHolds(recv) /\ recv \in [Conns -> RecvType]
    BY HoldsStay DEF IInv, ClientInv, ClientTypeOK
  <2>2. \A d \in Conns : recv'[d].frame = recv[d].frame /\ recv'[d].pc \in {recv[d].pc, "run"}
    BY <1>1, <2>1 DEF RecvType
  <2> QED BY <2>1, <2>2 DEF RecvHolds
<1>10. AllIn(act'.out, UpFrames)
  <2>1. act'.out = act.out
    BY <1>1, StreamTypes DEF ActType
  <2> QED BY <2>1, HoldsStay
<1> QED BY <1>1, <1>7, <1>8, <1>9, <1>10, HoldsStay, ClientCalm

\* stdin's part of what the client holds, once more bytes are read or it ends.
LEMMA StdinMoves ==
  ASSUME IInv, IInv', StreamInv, UNCHANGED serverVars,
         UNCHANGED <<net, proxy, act, reconnect, recv, stdout, stdoutOverlap>>, ~rt.c2sFin,
         rt.c2sNext <= rt'.c2sNext, rt'.c2sAck = rt.c2sAck, rt'.s2cRx = rt.s2cRx,
         stdin'.frame \in UpFrames', StdinEnds'
  PROVE  StreamInv'
<1>1. rt \in RtType /\ rt' \in RtType /\ sess' = sess
  BY DEF IInv, ClientInv, ClientTypeOK, serverVars
<1>2. UpFrames \subseteq UpFrames'
  <2>1. rt.s2cRx <= rt'.s2cRx
    BY <1>1 DEF RtType
  <2> QED BY <2>1, UpFramesGrow
<1>3. DownFrames' = DownFrames
  BY <1>1 DEF DownFrames
<1>4. ClientHolds'
  BY <1>2, <1>3 DEF StreamInv, ClientHolds, AllIn
<1>5. Flight(net', UpFrames', DownFrames)
  BY <1>2, HoldsStay, FlightGrows
<1>6. StdoutInPlace'
  BY <1>1 DEF StreamInv, StdoutInPlace
<1>7. rt'.c2sAck <= sess.c2sRx /\ rt'.s2cRx <= Len(stdout'.data) /\ rt.s2cRx <= rt'.s2cRx
  BY <1>1 DEF StreamInv, AcksEarned, RtType
<1> QED BY <1>4, <1>5, <1>6, <1>7, ClientStreamParts

LEMMA StdinReadStreams ==
  ASSUME IInv, IInv', StreamInv, UNCHANGED serverVars, StdinRead
  PROVE  StreamInv'
<1>1. PICK n \in 1..Chunk :
        LET bytes == [i \in 1..n |-> rt.c2sNext + i]
        IN  /\ rt' = [rt EXCEPT !.c2sNext = @ + n, !.c2sBuf = @ \o bytes]
            /\ stdin' = [stdin EXCEPT !.pc = "send",
                           !.frame = Data(recv[stdin.conn].epoch, rt.c2sNext, bytes)]
  BY DEF StdinRead
<1> DEFINE bytes == [i \in 1..n |-> rt.c2sNext + i]
<1>2. stdin.pc = "read" /\ stdin.conn \in Conns /\ stdin \in StdinType /\ rt \in RtType
  BY StreamTypes DEF StdinRead, IInv, ClientInv, ClientPcs
<1>3. n \in Nat /\ rt.c2sNext \in Nat
  BY <1>2, ChunkAssumption DEF RtType
<1>4. bytes \in Seq(Nat) /\ Len(bytes) = n /\ Slice(bytes, rt.c2sNext)
  BY <1>3 DEF Slice
<1> HIDE DEF bytes
<1>5. /\ rt' = [rt EXCEPT !.c2sNext = @ + n, !.c2sBuf = @ \o bytes]
      /\ stdin' = [stdin EXCEPT !.pc = "send", !.frame = Data(recv[stdin.conn].epoch, rt.c2sNext, bytes)]
  BY <1>1 DEF bytes
<1>6. /\ rt'.c2sNext = rt.c2sNext + n /\ rt'.c2sAck = rt.c2sAck /\ rt'.s2cRx = rt.s2cRx
      /\ rt'.c2sFin = rt.c2sFin
      /\ stdin'.pc = "send" /\ stdin'.frame = Data(recv[stdin.conn].epoch, rt.c2sNext, bytes)
  BY <1>2, <1>5 DEF RtType, StdinType
<1>7. ~rt.c2sFin
  BY <1>2 DEF StreamInv, StdinEnds
<1>8. stdin'.frame \in UpFrames'
  <2>1. recv[stdin.conn].epoch \in Nat /\ rt'.c2sNext \in Nat /\ rt.c2sNext + Len(bytes) <= rt'.c2sNext
    BY <1>2, <1>3, <1>4, <1>6, StreamTypes, SMTT(30)
  <2>2. Data(recv[stdin.conn].epoch, rt.c2sNext, bytes) \in Frames(rt'.c2sNext, rt'.c2sFin, rt'.s2cRx)
    BY <1>3, <1>4, <2>1, DataFrames
  <2> QED BY <1>6, <2>2 DEF UpFrames
<1>9. StdinEnds'
  BY <1>6, <1>7 DEF StdinEnds
<1>10. rt.c2sNext <= rt'.c2sNext
  BY <1>3, <1>6
<1> QED BY <1>6, <1>7, <1>8, <1>9, <1>10, StdinMoves DEF StdinRead

LEMMA StdinEOFStreams ==
  ASSUME IInv, IInv', StreamInv, UNCHANGED serverVars, StdinEOF
  PROVE  StreamInv'
<1>1. /\ rt' = [rt EXCEPT !.c2sFin = TRUE, !.c2sFinAt = rt.c2sNext] /\ stdin.pc = "read"
      /\ stdin' = StdinIdle("finWait") /\ rt \in RtType
  BY StreamTypes DEF StdinEOF, MarkClientFin
<1>2. ~rt.c2sFin
  BY <1>1 DEF StreamInv, StdinEnds
<1>3. /\ rt'.c2sNext = rt.c2sNext /\ rt'.c2sAck = rt.c2sAck /\ rt'.s2cRx = rt.s2cRx
      /\ rt'.c2sFin /\ rt'.c2sFinAt = rt'.c2sNext /\ rt.c2sNext <= rt'.c2sNext
  BY <1>1 DEF RtType
<1>4. stdin'.pc = "finWait" /\ stdin'.frame \in UpFrames'
  BY <1>1, PlainFrames DEF StdinIdle, UpFrames
<1>5. StdinEnds'
  BY <1>3, <1>4 DEF StdinEnds
<1> QED BY <1>2, <1>3, <1>4, <1>5, StdinMoves DEF StdinEOF

\* The step of stdout's writer c, which wrote p.
LEMMA StdoutMoves ==
  ASSUME IInv, IInv', StreamInv, UNCHANGED serverVars, act' = act, stdin' = stdin,
         NEW c \in Conns, recv[c].pc = "write", NEW p \in Seq(Nat),
         Len(p) <= Len(recv[c].frame.payload), \A i \in 1..Len(p) : p[i] = recv[c].frame.payload[i],
         stdout' = [stdout EXCEPT !.data = @ \o p],
         rt'.s2cRx = rt.s2cRx + Len(p), rt'.c2sNext = rt.c2sNext, rt'.c2sAck = rt.c2sAck,
         rt'.c2sFin = rt.c2sFin, rt'.c2sFinAt = rt.c2sFinAt,
         stdoutOverlap' = (stdoutOverlap \/ OthersWriting(c)),
         recv' = [recv EXCEPT ![c] = Stopped(@)] \/ recv' = [recv EXCEPT ![c] = Waiting(@)],
         Flight(net', UpFrames', DownFrames)
  PROVE  StreamInv'
<1> DEFINE f == recv[c].frame
<1>1. /\ rt.s2cRx \in Nat /\ rt.c2sNext \in Nat /\ sess.s2cNext \in Nat /\ stdout \in StdoutType
      /\ stdout.data \in Seq(Nat) /\ Len(stdout.data) \in Nat /\ Len(p) \in Nat
      /\ recv \in [Conns -> RecvType] /\ sess' = sess
  BY StreamTypes, LenProperties DEF IInv, ClientInv, ClientTypeOK, serverVars
<1>2. f \in DownFrames /\ f.type = "data" /\ f.offset \in Nat /\ Len(f.payload) \in Nat
  BY StreamTypes, FrameTypesKnown DEF StreamInv, ClientHolds
<1>3. Slice(f.payload, f.offset) /\ f.offset + Len(f.payload) <= sess.s2cNext
  BY <1>2 DEF DownFrames, Frames
<1>4. /\ stdout'.data = stdout.data \o p /\ stdout'.eof = stdout.eof
      /\ Len(stdout'.data) = Len(stdout.data) + Len(p)
  <2>1. stdout'.data = stdout.data \o p /\ stdout'.eof = stdout.eof
    BY <1>1 DEF StdoutType
  <2> QED BY <1>1, <2>1, ConcatProperties
<1>5. UpFrames \subseteq UpFrames'
  BY <1>1, UpFramesGrow
<1>6. recv'[c].pc \in {"done", "run"} /\ \A d \in Conns \ {c} : recv'[d] = recv[d]
  BY <1>1 DEF RecvType, Stopped, Waiting
<1>7. ClientHolds'
  <2>1. DownFrames' = DownFrames
    BY <1>1 DEF DownFrames
  <2>2. RecvHolds(recv')
    BY RecvHoldsKept
  <2> QED BY <1>5, <2>1, <2>2 DEF StreamInv, ClientHolds, AllIn, RecvHolds
<1>8. StdinEnds'
  BY DEF StreamInv, StdinEnds
<1>9. StdoutInPlace'
  <2> SUFFICES ASSUME ~stdoutOverlap'
               PROVE  /\ Slice(stdout'.data, 0) /\ Len(stdout'.data) = rt'.s2cRx
                      /\ rt'.s2cRx <= sess.s2cNext
                      /\ stdout'.eof => sess.s2cFin /\ rt'.s2cRx = sess.s2cNext
                      /\ \A d \in Conns : recv'[d].pc # "write"
    BY <1>1 DEF StdoutInPlace
  <2>1. ~stdoutOverlap /\ ~OthersWriting(c)
    OBVIOUS
  <2>2. /\ Slice(stdout.data, 0) /\ Len(stdout.data) = rt.s2cRx /\ f.offset = rt.s2cRx
        /\ stdout.eof => sess.s2cFin /\ rt.s2cRx = sess.s2cNext
    BY <2>1 DEF StreamInv, StdoutInPlace
  <2>3. rt'.s2cRx <= sess.s2cNext
    BY <1>1, <1>2, <1>3, <2>2
  <2>4. Slice(p, 0 + Len(stdout.data))
    <3> SUFFICES ASSUME NEW i \in 1..Len(p) PROVE p[i] = (0 + Len(stdout.data)) + i
      BY DEF Slice
    <3>1. i \in 1..Len(f.payload) /\ p[i] = f.payload[i]
      BY <1>1, <1>2
    <3>2. DOMAIN f.payload = 1..Len(f.payload)
      BY <1>2, FrameTypesKnown, LenProperties DEF DownFrames, Frames
    <3>3. f.payload[i] = f.offset + i
      BY <1>3, <3>1, <3>2 DEF Slice
    <3> QED BY <1>1, <2>2, <3>1, <3>3
  <2>5. Slice(stdout'.data, 0)
    BY <1>1, <1>4, <2>2, <2>4, SliceConcat
  <2>6. stdout'.eof => sess.s2cFin /\ rt'.s2cRx = sess.s2cNext
    BY <1>1, <1>2, <1>3, <1>4, <2>2
  <2>7. \A d \in Conns : recv'[d].pc # "write"
    BY <1>6, <2>1 DEF OthersWriting
  <2> QED BY <1>1, <1>4, <2>2, <2>3, <2>5, <2>6, <2>7
<1>10. /\ rt'.c2sAck <= sess.c2sRx /\ rt'.s2cRx <= Len(stdout'.data)
       /\ rt.s2cRx <= rt'.s2cRx /\ rt.c2sNext <= rt'.c2sNext
  BY <1>1, <1>4 DEF StreamInv, AcksEarned
<1> QED BY <1>7, <1>8, <1>9, <1>10, ClientStreamParts

LEMMA FinishStdoutWriteStreams ==
  ASSUME IInv, IInv', StreamInv, UNCHANGED serverVars, NEW c \in Conns, FinishStdoutWrite(c)
  PROVE  StreamInv'
<1> DEFINE p  == recv[c].frame.payload
           rx == rt.s2cRx + Len(p)
<1>1. p \in Seq(Nat) /\ Len(p) \in Nat /\ rt \in RtType /\ rt.s2cRx \in Nat /\ rt.c2sNext \in Nat
  BY StreamTypes, FrameTypesKnown
<1>2. /\ recv[c].pc = "write" /\ act' = act /\ stdin' = stdin
      /\ stdout' = [stdout EXCEPT !.data = @ \o p] /\ rt' = [rt EXCEPT !.s2cRx = rx]
      /\ stdoutOverlap' = (stdoutOverlap \/ OthersWriting(c))
      /\ net' = ClientSend(net, c, Ack(recv[c].epoch, rx))
      /\ recv' = [recv EXCEPT ![c] = Waiting(@)]
  BY DEF FinishStdoutWrite
<1> HIDE DEF p
<1>3. rx \in Nat /\ rt.s2cRx <= rx
  BY <1>1
<1> HIDE DEF rx
<1>4. /\ rt'.s2cRx = rx /\ rt'.c2sNext = rt.c2sNext /\ rt'.c2sAck = rt.c2sAck
      /\ rt'.c2sFin = rt.c2sFin /\ rt'.c2sFinAt = rt.c2sFinAt
  BY <1>1, <1>2 DEF RtType
<1>5. Flight(net', UpFrames', DownFrames)
  <2>1. UpFrames \subseteq UpFrames'
    BY <1>1, <1>3, <1>4, UpFramesGrow
  <2>2. net \in NetType /\ Flight(net, UpFrames', DownFrames)
    BY <2>1, HoldsStay, StreamTypes, FlightGrows
  <2>3. Ack(recv[c].epoch, rx) \in Frame /\ Ack(recv[c].epoch, rx) \in UpFrames'
    <3>1. rx <= rx
      BY <1>3
    <3> QED BY <1>3, <1>4, <3>1, ClientAcks DEF UpFrames
  <2> QED BY <1>2, <2>2, <2>3, ConnectionFlight
<1>6. rt'.s2cRx = rt.s2cRx + Len(p) /\ Len(p) <= Len(p)
  BY <1>1, <1>4 DEF rx
<1>7. \A i \in 1..Len(p) : p[i] = p[i]
  OBVIOUS
<1> QED BY <1>1, <1>2, <1>4, <1>5, <1>6, <1>7, StdoutMoves DEF p

LEMMA StdoutWriteFailsStreams ==
  ASSUME IInv, IInv', StreamInv, UNCHANGED serverVars, NEW c \in Conns, StdoutWriteFails(c)
  PROVE  StreamInv'
<1> DEFINE q == recv[c].frame.payload
<1>1. PICK k \in 0..(Len(q) - 1) :
        LET rx == rt.s2cRx + k
            r  == [rt EXCEPT !.s2cRx = rx]
            w  == ClientSend(ClientSend(net, c, Ack(recv[c].epoch, rx)), c, Error)
        IN  /\ stdout' = [stdout EXCEPT !.data = @ \o SubSeq(q, 1, k)]
            /\ stdoutOverlap' = (stdoutOverlap \/ OthersWriting(c))
            /\ rt' = Finish(r, "stdout_error")
            /\ net' = FinishNet(w, r)
  BY DEF StdoutWriteFails
<1> DEFINE rx == rt.s2cRx + k
           r  == [rt EXCEPT !.s2cRx = rx]
           m  == ClientSend(net, c, Ack(recv[c].epoch, rx))
           p  == SubSeq(q, 1, k)
<1>2. q \in Seq(Nat) /\ Len(q) \in Nat /\ rt \in RtType /\ rt.s2cRx \in Nat /\ rt.c2sNext \in Nat
  BY StreamTypes, FrameTypesKnown
<1>3. k \in Nat /\ k <= Len(q) /\ rx \in Nat /\ rt.s2cRx <= rx
  BY <1>2
<1>4. p \in Seq(Nat) /\ Len(p) = k /\ \A i \in 1..Len(p) : p[i] = q[i]
  <2>1. \A i \in 1..k : q[i] \in Nat
    <3> HIDE DEF q
    <3> QED BY <1>2, <1>3
  <2>2. /\ p \in Seq(Nat) /\ Len(p) = IF 1 <= k THEN k - 1 + 1 ELSE 0
        /\ \A i \in 1..(k - 1 + 1) : p[i] = q[1 + i - 1]
    BY <1>3, <2>1, SubSeqProperties
  <2> HIDE DEF p
  <2>3. Len(p) = k
    BY <1>3, <2>2
  <2>4. \A i \in 1..k : i \in 1..(k - 1 + 1) /\ 1 + i - 1 = i
    BY <1>3
  <2> QED BY <2>2, <2>3, <2>4
<1>5. /\ recv[c].pc = "write" /\ act' = act /\ stdin' = stdin
      /\ recv' = [recv EXCEPT ![c] = Stopped(@)]
  BY DEF StdoutWriteFails
<1>6. /\ stdout' = [stdout EXCEPT !.data = @ \o p]
      /\ stdoutOverlap' = (stdoutOverlap \/ OthersWriting(c))
      /\ rt' = Finish(r, "stdout_error") /\ net' = FinishNet(ClientSend(m, c, Error), r)
  BY <1>1
<1> HIDE DEF rx, m, p, Error
<1>7. /\ r \in RtType /\ r.s2cRx = rx /\ r.c2sNext = rt.c2sNext /\ r.c2sAck = rt.c2sAck
      /\ r.c2sFin = rt.c2sFin /\ r.c2sFinAt = rt.c2sFinAt
  BY <1>2, <1>3 DEF RtType
<1> HIDE DEF r
<1>8. /\ rt'.s2cRx = rx /\ rt'.c2sNext = rt.c2sNext /\ rt'.c2sAck = rt.c2sAck
      /\ rt'.c2sFin = rt.c2sFin /\ rt'.c2sFinAt = rt.c2sFinAt
  BY <1>6, <1>7, OffsetsStay DEF Outcomes, SameOffsets, SameStreams
<1>9. Flight(net', UpFrames', DownFrames)
  <2>1. UpFrames \subseteq UpFrames'
    BY <1>2, <1>3, <1>8, UpFramesGrow
  <2>2. net \in NetType /\ Flight(net, UpFrames', DownFrames)
    BY <2>1, HoldsStay, StreamTypes, FlightGrows
  <2>3. Ack(recv[c].epoch, rx) \in Frame /\ Ack(recv[c].epoch, rx) \in UpFrames'
    <3>1. rx <= rx
      BY <1>3
    <3> QED BY <1>3, <1>8, <3>1, ClientAcks DEF UpFrames
  <2>4. Error \in Frame /\ Error \in UpFrames'
    BY EndFrameType, PlainFrames DEF UpFrames, Codes
  <2>5. m \in NetType /\ Flight(m, UpFrames', DownFrames)
    BY <2>2, <2>3, SendType, ConnectionFlight DEF m
  <2>6. ClientSend(m, c, Error) \in NetType /\ Flight(ClientSend(m, c, Error), UpFrames', DownFrames)
    BY <2>4, <2>5, SendType, ConnectionFlight
  <2> QED BY <1>6, <1>7, <2>6, EndFlight DEF DownFrames
<1>10. rt'.s2cRx = rt.s2cRx + Len(p) /\ Len(p) <= Len(q)
  BY <1>3, <1>4, <1>8 DEF rx
<1> QED BY <1>4, <1>5, <1>6, <1>8, <1>9, <1>10, StdoutMoves

LEMMA RecvFinStreams ==
  ASSUME IInv, IInv', StreamInv, UNCHANGED serverVars, NEW c \in Conns, RecvFin(c)
  PROVE  StreamInv'
<1>1. /\ rt' = rt /\ act' = act /\ stdin' = stdin /\ stdoutOverlap' = stdoutOverlap
      /\ stdout' = [stdout EXCEPT !.eof = TRUE]
      /\ net' = ClientSend(net, c, Ack(recv[c].epoch, rt.s2cRx))
      /\ recv' = [recv EXCEPT ![c] = Waiting(@)] /\ sess' = sess
      /\ recv[c].frame.type = "fin" /\ recv[c].frame.offset = rt.s2cRx
  BY DEF RecvFin, Receiving, FinIsHere, serverVars
<1>2. UpFrames' = UpFrames /\ DownFrames' = DownFrames
  BY <1>1 DEF UpFrames, DownFrames
<1>3. RecvHolds(recv')
  BY <1>1, RecvHoldsKept
<1>4. ClientHolds' /\ StdinEnds'
  BY <1>1, <1>2, <1>3 DEF StreamInv, ClientHolds, StdinEnds, RecvHolds
<1>5. Ack(recv[c].epoch, rt.s2cRx) \in UpFrames
  <2>1. rt.s2cRx \in Nat /\ rt.s2cRx <= rt.s2cRx
    BY StreamTypes
  <2> QED BY <2>1, ClientAcks DEF UpFrames
<1>6. Flight(net', UpFrames', DownFrames)
  BY <1>1, <1>2, <1>5, ClientNetStays
<1>7. stdout'.data = stdout.data /\ stdout'.eof
  BY <1>1 DEF IInv, ClientInv, ClientTypeOK, StdoutType
<1>8. sess.s2cFin /\ rt.s2cRx = sess.s2cNext
  BY <1>1 DEF StreamInv, ClientHolds, DownFrames, Frames
<1>9. StdoutInPlace'
  BY <1>1, <1>3, <1>7, <1>8 DEF StreamInv, StdoutInPlace, RecvHolds
<1>10. rt'.c2sAck <= sess.c2sRx /\ rt'.s2cRx <= Len(stdout'.data) /\ rt.s2cRx <= rt'.s2cRx
       /\ rt.c2sNext <= rt'.c2sNext
  BY <1>1, <1>7, StreamTypes DEF StreamInv, AcksEarned
<1> QED BY <1>1, <1>4, <1>6, <1>9, <1>10, ClientStreamParts

LEMMA ClientStreams ==
  ASSUME IInv, IInv', StreamInv, UNCHANGED serverVars, ClientNext
  PROVE  StreamInv'
<1>1. ASSUME NEW c \in Conns, RecvStep(c) PROVE StreamInv'
  BY <1>1, RecvFrameStreams, RecvErrorStreams, RecvDuplicateStreams, RecvEndsStreams,
     FinishStdoutWriteStreams, StdoutWriteFailsStreams, RecvAckStreams, RecvFinStreams
  DEF RecvStep
<1>2. CASE ActivationStep
  BY <1>2, TakeSnapshotStreams, SendReplayStreams, HelloEndsStreams, CommitStreams DEF ActivationStep
<1>3. CASE StdinStep
  BY <1>3, StdinTakesStreams, StdinReadStreams, StdinSendsStreams, StdinEOFStreams, StdinStopsStreams
  DEF StdinStep
<1>4. CASE ReconnectStep
  BY <1>4, ReconnectLoopStreams, ConnectStreams, HelloEndsStreams DEF ReconnectStep
<1>5. ASSUME NEW c \in Conns, HeartbeatDrop(c) \/ Connect("proxy", c) \/ Connect("switch", c)
      PROVE  StreamInv'
  BY <1>5, HeartbeatDropStreams, ConnectStreams
<1> QED BY <1>1, <1>2, <1>3, <1>4, <1>5, ReconnectLoopStreams, ExitStreams DEF ClientNext
-----------------------------------------------------------------------------
(* What the server's steps have in common. *)

\* What the server may have on its way only becomes more.
LEMMA DownFramesGrow ==
  ASSUME IInv, IInv', sess.s2cNext <= sess'.s2cNext, sess.c2sRx <= sess'.c2sRx,
         sess.s2cFin => sess'.s2cFin /\ sess'.s2cNext = sess.s2cNext
  PROVE  DownFrames \subseteq DownFrames'
<1>1. sess \in SessType /\ sess' \in SessType
  BY DEF IInv, ServerInv, ServerTypeOK
<1>2. /\ sess.s2cNext \in Nat /\ sess'.s2cNext \in Nat /\ sess.c2sRx \in Nat /\ sess'.c2sRx \in Nat
      /\ sess.s2cFin \in BOOLEAN /\ sess'.s2cFin \in BOOLEAN
  BY <1>1 DEF SessType
<1>3. Frames(sess.s2cNext, sess.s2cFin, sess.c2sRx) \subseteq Frames(sess'.s2cNext, sess'.s2cFin, sess'.c2sRx)
  BY <1>2, FramesGrow
<1> QED BY <1>3 DEF DownFrames

\* What a server step has to show.
LEMMA ServerStreamParts ==
  ASSUME IInv, IInv', StreamInv, UNCHANGED clientVars,
         sess.s2cNext <= sess'.s2cNext, sess.c2sRx <= sess'.c2sRx,
         sess.s2cFin => sess'.s2cFin /\ sess'.s2cNext = sess.s2cNext,
         sess'.s2cAck <= rt.s2cRx, sess'.c2sRx <= Len(target'.in),
         Flight(net', UpFrames, DownFrames'), ServerHolds', TargetEnds', TargetInPlace'
  PROVE  StreamInv'
<1>1. /\ rt' = rt /\ act' = act /\ stdin' = stdin /\ recv' = recv
      /\ stdout' = stdout /\ stdoutOverlap' = stdoutOverlap
  BY DEF clientVars
<1>2. UpFrames' = UpFrames
  BY <1>1 DEF UpFrames
<1>3. rt.s2cRx \in Nat /\ rt.c2sAck \in Nat /\ sess.c2sRx \in Nat /\ sess'.c2sRx \in Nat
      /\ sess.s2cNext \in Nat /\ sess'.s2cNext \in Nat
  BY StreamTypes DEF IInv, ServerInv, ServerTypeOK, SessType
<1>4. DownFrames \subseteq DownFrames'
  BY DownFramesGrow
<1>5. Flight(net', UpFrames', DownFrames')
  BY <1>2
<1>6. ClientHolds'
  BY <1>1, <1>2, <1>4 DEF StreamInv, ClientHolds
<1>7. StdinEnds'
  BY <1>1 DEF StreamInv, StdinEnds
<1>8. AcksEarned'
  BY <1>1, <1>3 DEF StreamInv, AcksEarned
<1>9. StdoutInPlace'
  BY <1>1, <1>3 DEF StreamInv, StdoutInPlace
<1> QED BY <1>5, <1>6, <1>7, <1>8, <1>9 DEF StreamInv

\* The two streams have not moved in t; nor has what is acknowledged.
SameServed(s, t) ==
  /\ t.s2cNext = s.s2cNext /\ t.c2sRx = s.c2sRx /\ t.s2cFin = s.s2cFin
  /\ s.state # "none" => t.state # "none"

SameSession(s, t) == SameServed(s, t) /\ t.s2cAck = s.s2cAck

LEMMA SessionsStay ==
  ASSUME NEW s \in SessType
  PROVE  /\ \A c \in Conns : SameSession(s, Disconnect(s, c))
         /\ \A code \in Codes : SameSession(s, CloseTerminal(s, code))
<1>1. ASSUME NEW c \in Conns PROVE SameSession(s, Disconnect(s, c))
  BY DEF Disconnect, SameSession, SameServed, SessType
<1>2. ASSUME NEW code \in Codes PROVE SameSession(s, CloseTerminal(s, code))
  BY DEF CloseTerminal, SameSession, SameServed, SessType
<1> QED BY <1>1, <1>2

HandlersHold(hs) ==
  \A c \in Conns :
    /\ AllIn(hs[c].out, DownFrames) /\ hs[c].frame \in UpFrames
    /\ hs[c].pc = "write" =>
         /\ hs[c].frame.type = "data"
         /\ hs[c].frame.offset = sess.c2sRx \/ (handler[c].pc = "write" /\ hs[c].frame = handler[c].frame)

ReaderHolds(rd) ==
  rd.frame \in DownFrames /\ (sess.s2cFin => rd.pc \notin {"off", "read", "send"})

\* The steps that neither read nor write.
LEMMA ServerCalm ==
  ASSUME IInv, IInv', StreamInv, UNCHANGED clientVars, target' = target, targetOverlap' = targetOverlap,
         SameServed(sess, sess'), sess'.s2cAck <= rt.s2cRx, Flight(net', UpFrames, DownFrames),
         HandlersHold(handler'), ReaderHolds(reader')
  PROVE  StreamInv'
<1>1. /\ sess'.s2cNext = sess.s2cNext /\ sess'.c2sRx = sess.c2sRx /\ sess'.s2cFin = sess.s2cFin
      /\ sess.state # "none" => sess'.state # "none"
      /\ rt' = rt
  BY DEF SameServed, clientVars
<1>2. UpFrames' = UpFrames /\ DownFrames' = DownFrames
  BY <1>1 DEF UpFrames, DownFrames
<1>3. sess.s2cNext \in Nat /\ sess.c2sRx \in Nat
  BY StreamTypes
<1>4. ServerHolds'
  BY <1>2 DEF ServerHolds, HandlersHold, ReaderHolds
<1>5. TargetEnds'
  BY <1>1 DEF StreamInv, TargetEnds, ReaderHolds
<1>6. TargetInPlace'
  BY <1>1 DEF StreamInv, TargetInPlace, HandlersHold
<1>7. sess'.c2sRx <= Len(target'.in)
  BY <1>1 DEF StreamInv, AcksEarned
<1>8. Flight(net', UpFrames, DownFrames')
  BY <1>2
<1>9. /\ sess.s2cNext <= sess'.s2cNext /\ sess.c2sRx <= sess'.c2sRx
      /\ sess.s2cFin => sess'.s2cFin /\ sess'.s2cNext = sess.s2cNext
  BY <1>1, <1>3
<1> QED BY <1>4, <1>5, <1>6, <1>7, <1>8, <1>9, ServerStreamParts

\* Nor take an acknowledgement.
LEMMA ServerQuiet ==
  ASSUME IInv, IInv', StreamInv, UNCHANGED clientVars, target' = target, targetOverlap' = targetOverlap,
         SameSession(sess, sess'), Flight(net', UpFrames, DownFrames),
         HandlersHold(handler'), ReaderHolds(reader')
  PROVE  StreamInv'
<1>1. SameServed(sess, sess') /\ sess'.s2cAck <= rt.s2cRx
  BY DEF SameSession, StreamInv, AcksEarned
<1> QED BY <1>1, ServerCalm

LEMMA ServerStays ==
  ASSUME IInv, StreamInv
  PROVE  /\ Flight(net, UpFrames, DownFrames) /\ HandlersHold(handler) /\ ReaderHolds(reader)
         /\ SameSession(sess, sess) /\ handler \in [Conns -> HandlerType] /\ AllIn(<<>>, DownFrames)
<1>1. handler \in [Conns -> HandlerType]
  BY DEF IInv, ServerInv, ServerTypeOK
<1>2. AllIn(<<>>, DownFrames)
  BY EmptySeq DEF AllIn
<1> QED BY <1>1, <1>2 DEF StreamInv, ServerHolds, TargetEnds, HandlersHold, ReaderHolds, SameSession, SameServed

LEMMA HandlersHoldKept ==
  ASSUME IInv, StreamInv, NEW c \in Conns
  PROVE  HandlersHold([handler EXCEPT ![c] = Ended(@)]) /\ HandlersHold([handler EXCEPT ![c] = Resumed(@)])
<1>1. handler \in [Conns -> HandlerType] /\ HandlersHold(handler) /\ AllIn(<<>>, DownFrames)
  BY ServerStays
<1>2. NoFrame \in UpFrames
  BY PlainFrames DEF UpFrames
<1>3. Ended(handler[c]).pc = "done" /\ Ended(handler[c]).frame = NoFrame /\ Ended(handler[c]).out = <<>>
  BY <1>1 DEF HandlerType, Ended
<1>4. /\ Resumed(handler[c]).pc = "run" /\ Resumed(handler[c]).frame = NoFrame
      /\ Resumed(handler[c]).out = handler[c].out
  BY <1>1 DEF HandlerType, Resumed
<1>5. HandlersHold([handler EXCEPT ![c] = Ended(@)])
  BY <1>1, <1>2, <1>3 DEF HandlersHold
<1> QED BY <1>1, <1>2, <1>4, <1>5 DEF HandlersHold

\* The connections after a server step that sends nothing but an error frame.
LEMMA ServerNetStays ==
  ASSUME NEW n \in NetType, Flight(n, UpFrames, DownFrames), NEW c \in Conns
  PROVE  /\ ServerClose(n, c) \in NetType /\ Flight(ServerClose(n, c), UpFrames, DownFrames)
         /\ ServerSend(n, c, Error) \in NetType /\ Flight(ServerSend(n, c, Error), UpFrames, DownFrames)
         /\ \A f \in DownFrames :
              ServerSend(n, c, f) \in NetType /\ Flight(ServerSend(n, c, f), UpFrames, DownFrames)
         /\ n.up[c] # <<>> => /\ Head(n.up[c]) \in UpFrames /\ ServerRecv(n, c) \in NetType
                              /\ Flight(ServerRecv(n, c), UpFrames, DownFrames)
<1>1. Error \in DownFrames /\ Error \in Frame /\ DownFrames \subseteq Frame
  BY PlainFrames, EndFrameType DEF DownFrames, Frames, Codes
<1> HIDE DEF Error
<1>2. n.up[c] # <<>> => ServerRecv(n, c) \in NetType
  BY ReceivedType
<1>3. ServerSend(n, c, Error) \in NetType /\ \A f \in DownFrames : ServerSend(n, c, f) \in NetType
  BY <1>1, SendType
<1> QED BY <1>1, <1>2, <1>3, ConnectionType, ConnectionFlight

-----------------------------------------------------------------------------
(* The server's quiet steps. *)

LEMMA RefusedHelloStreams ==
  ASSUME IInv, IInv', StreamInv, UNCHANGED clientVars, NEW c \in Conns,
         DialTargetFails(c) \/ RefuseResume(c) \/ ResumeTooLate(c)
  PROVE  StreamInv'
<1> DEFINE n == ServerRecv(net, c)
<1>1. /\ handler' = [handler EXCEPT ![c] = Ended(@)] /\ reader' = reader
      /\ target' = target /\ targetOverlap' = targetOverlap /\ net.up[c] # <<>>
      /\ sess' = sess \/ sess' = CloseTerminal(sess, "resume_timeout")
      /\ \/ net' = ServerClose(ServerSend(ServerSend(n, c, Error), c, Error), c)
         \/ net' = ServerClose(ServerSend(n, c, Error), c)
  BY DEF DialTargetFails, RefuseResume, ResumeTooLate, HelloArrives
<1>2. n \in NetType /\ Flight(n, UpFrames, DownFrames)
  BY <1>1, StreamTypes, ServerStays, ServerNetStays
<1> HIDE DEF n, Error
<1>3. Flight(net', UpFrames, DownFrames)
  <2>1. ServerSend(n, c, Error) \in NetType /\ Flight(ServerSend(n, c, Error), UpFrames, DownFrames)
    BY <1>2, ServerNetStays
  <2>2. /\ ServerSend(ServerSend(n, c, Error), c, Error) \in NetType
        /\ Flight(ServerSend(ServerSend(n, c, Error), c, Error), UpFrames, DownFrames)
    BY <2>1, ServerNetStays
  <2> QED BY <1>1, <2>1, <2>2, ServerNetStays
<1>4. SameSession(sess, sess')
  BY <1>1, StreamTypes, ServerStays, SessionsStay DEF Codes
<1>5. HandlersHold(handler') /\ ReaderHolds(reader')
  BY <1>1, HandlersHoldKept, ServerStays
<1> QED BY <1>1, <1>3, <1>4, <1>5, ServerQuiet

LEMMA SendReplyStreams ==
  ASSUME IInv, IInv', StreamInv, UNCHANGED clientVars, NEW c \in Conns, SendReply(c)
  PROVE  StreamInv'
<1> DEFINE out == handler[c].out
<1>1. /\ sess' = sess /\ reader' = reader /\ target' = target /\ targetOverlap' = targetOverlap
      /\ handler[c].pc = "reply"
      /\ net' = ServerSend(net, c, Head(out))
      /\ handler' = [handler EXCEPT ![c].out = Tail(@),
                                    ![c].pc = IF Len(handler[c].out) = 1 THEN "run" ELSE @]
  BY DEF SendReply
<1>2. out \in Seq(Frame) /\ out # <<>> /\ AllIn(out, DownFrames)
  BY <1>1, StreamTypes DEF IInv, ServerInv, ServerPcs, StreamInv, ServerHolds
<1>3. Head(out) \in DownFrames /\ AllIn(Tail(out), DownFrames)
  BY <1>2, QueueMoves
<1>4. Flight(net', UpFrames, DownFrames)
  BY <1>1, <1>3, StreamTypes, ServerStays, ServerNetStays
<1>5. HandlersHold(handler')
  <2>1. handler \in [Conns -> HandlerType] /\ HandlersHold(handler)
    BY ServerStays
  <2>2. /\ handler'[c].out = Tail(out) /\ handler'[c].frame = handler[c].frame /\ handler'[c].pc # "write"
        /\ \A d \in Conns \ {c} : handler'[d] = handler[d]
    BY <1>1, <2>1 DEF HandlerType
  <2> QED BY <1>3, <2>1, <2>2 DEF HandlersHold
<1> QED BY <1>1, <1>4, <1>5, ServerStays, ServerQuiet

LEMMA SendReplyFailsStreams ==
  ASSUME IInv, IInv', StreamInv, UNCHANGED clientVars, NEW c \in Conns, SendReplyFails(c)
  PROVE  StreamInv'
<1>1. /\ handler' = [handler EXCEPT ![c] = Ended(@)] /\ reader' = reader
      /\ target' = target /\ targetOverlap' = targetOverlap
      /\ \/ /\ sess' = CloseTerminal(sess, "protocol_error")
            /\ net' = ServerClose(CloseTerminalNet(net, sess, "protocol_error"), c)
         \/ sess' = Disconnect(sess, c) /\ net' = ServerClose(net, c)
  BY DEF SendReplyFails
<1>2. /\ net \in NetType /\ sess \in SessType /\ Flight(net, UpFrames, DownFrames)
      /\ "protocol_error" \in Codes
  BY StreamTypes, ServerStays DEF Codes
<1>3. /\ CloseTerminalNet(net, sess, "protocol_error") \in NetType
      /\ Flight(CloseTerminalNet(net, sess, "protocol_error"), UpFrames, DownFrames)
  BY <1>2, CloseTerminalNetType, EndFlight DEF DownFrames
<1>4. Flight(net', UpFrames, DownFrames)
  BY <1>1, <1>2, <1>3, ServerNetStays
<1>5. SameSession(sess, sess')
  BY <1>1, <1>2, SessionsStay
<1>6. HandlersHold(handler') /\ ReaderHolds(reader')
  BY <1>1, HandlersHoldKept, ServerStays
<1> QED BY <1>1, <1>4, <1>5, <1>6, ServerQuiet

LEMMA ReadFrameStreams ==
  ASSUME IInv, IInv', StreamInv, UNCHANGED clientVars, NEW c \in Conns,
         ServerReadFrame(c) \/ BeginTargetWrite(c)
  PROVE  StreamInv'
<1>1. sess' = sess /\ reader' = reader /\ target' = target /\ targetOverlap' = targetOverlap
  BY DEF ServerReadFrame, BeginTargetWrite
<1>2. HandlersHold(handler) /\ handler \in [Conns -> HandlerType]
  BY ServerStays
<1>3. CASE ServerReadFrame(c)
  <2>1. /\ net.up[c] # <<>> /\ net' = ServerRecv(net, c)
        /\ \/ handler' = handler
           \/ handler' = [handler EXCEPT ![c].pc = "handle", ![c].frame = Head(net.up[c])]
    BY <1>3 DEF ServerReadFrame
  <2>2. Head(net.up[c]) \in UpFrames /\ Flight(net', UpFrames, DownFrames)
    BY <2>1, StreamTypes, ServerStays, ServerNetStays
  <2>3. HandlersHold(handler')
    <3>1. CASE handler' = handler
      BY <1>2, <3>1
    <3>2. CASE handler' = [handler EXCEPT ![c].pc = "handle", ![c].frame = Head(net.up[c])]
      <4>1. /\ handler'[c].pc = "handle" /\ handler'[c].frame = Head(net.up[c])
            /\ handler'[c].out = handler[c].out /\ \A d \in Conns \ {c} : handler'[d] = handler[d]
        BY <1>2, <3>2 DEF HandlerType
      <4> QED BY <1>2, <2>2, <4>1 DEF HandlersHold
    <3> QED BY <2>1, <3>1, <3>2
  <2> QED BY <1>1, <2>2, <2>3, ServerStays, ServerQuiet
<1>4. CASE BeginTargetWrite(c)
  <2>1. /\ net' = net /\ handler' = [handler EXCEPT ![c].pc = "write"]
        /\ handler[c].frame.type = "data" /\ handler[c].frame.offset = sess.c2sRx
    BY <1>4 DEF BeginTargetWrite, Handling
  <2>2. HandlersHold(handler')
    BY <1>2, <2>1 DEF HandlersHold, HandlerType
  <2> QED BY <1>1, <2>1, <2>2, ServerStays, ServerQuiet
<1> QED BY <1>3, <1>4

LEMMA ReadErrorStreams ==
  ASSUME IInv, IInv', StreamInv, UNCHANGED clientVars, NEW c \in Conns, ServerReadError(c)
  PROVE  StreamInv'
<1>1. /\ handler' = [handler EXCEPT ![c] = Ended(@)] /\ reader' = reader
      /\ target' = target /\ targetOverlap' = targetOverlap
      /\ sess' = sess \/ sess' = Disconnect(sess, c)
      /\ net' = ServerClose(net, c)
  BY DEF ServerReadError
<1>2. SameSession(sess, sess')
  BY <1>1, StreamTypes, ServerStays, SessionsStay
<1>3. Flight(net', UpFrames, DownFrames)
  BY <1>1, StreamTypes, ServerStays, ServerNetStays
<1>4. HandlersHold(handler') /\ ReaderHolds(reader')
  BY <1>1, HandlersHoldKept, ServerStays
<1> QED BY <1>1, <1>2, <1>3, <1>4, ServerQuiet

LEMMA ProtocolErrorStreams ==
  ASSUME IInv, IInv', StreamInv, UNCHANGED clientVars, NEW c \in Conns, ProtocolError(c),
         UNCHANGED <<reader, target, targetOverlap>>
  PROVE  StreamInv'
<1>1. /\ sess' = Disconnect(sess, c) /\ handler' = [handler EXCEPT ![c] = Ended(@)]
      /\ net' = ServerClose(ServerSend(net, c, Error), c)
  BY DEF ProtocolError
<1> HIDE DEF Error
<1>2. SameSession(sess, sess')
  BY <1>1, StreamTypes, SessionsStay
<1>3. Flight(net', UpFrames, DownFrames)
  <2>1. ServerSend(net, c, Error) \in NetType /\ Flight(ServerSend(net, c, Error), UpFrames, DownFrames)
    BY StreamTypes, ServerStays, ServerNetStays
  <2> QED BY <1>1, <2>1, ServerNetStays
<1>4. HandlersHold(handler') /\ ReaderHolds(reader')
  BY <1>1, HandlersHoldKept, ServerStays
<1> QED BY <1>2, <1>3, <1>4, ServerQuiet

\* An acknowledgement of what has been written is as it should be.
LEMMA ServerAcks ==
  ASSUME IInv, NEW c \in Conns, NEW rx \in Nat, NEW o \in Nat, o <= rx
  PROVE  /\ Ack(handler[c].epoch, o) \in Frame
         /\ \A next, fin : Ack(handler[c].epoch, o) \in Frames(next, fin, rx)
BY StreamTypes, OffsetFrames, OffsetFrameType

LEMMA AnswersStreams ==
  ASSUME IInv, IInv', StreamInv, UNCHANGED clientVars, NEW c \in Conns,
         \/ DuplicateData(c) \/ MisplacedData(c) \/ HandleAckFails(c) \/ DuplicateFin(c) \/ EarlyFin(c)
  PROVE  StreamInv'
<1>1. /\ UNCHANGED <<reader, target, targetOverlap>>
      /\ \/ ProtocolError(c)
         \/ /\ net' = ServerSend(net, c, Ack(handler[c].epoch, sess.c2sRx))
            /\ handler' = [handler EXCEPT ![c] = Resumed(@)]
            /\ sess' = sess
  BY DEF DuplicateData, MisplacedData, HandleAckFails, DuplicateFin, EarlyFin, AnswerAck
<1>2. CASE /\ net' = ServerSend(net, c, Ack(handler[c].epoch, sess.c2sRx))
           /\ handler' = [handler EXCEPT ![c] = Resumed(@)]
           /\ sess' = sess
  <2>1. Ack(handler[c].epoch, sess.c2sRx) \in DownFrames
    <3>1. sess.c2sRx \in Nat /\ sess.c2sRx <= sess.c2sRx
      BY StreamTypes
    <3> QED BY <3>1, ServerAcks DEF DownFrames
  <2>2. Flight(net', UpFrames, DownFrames)
    BY <1>2, <2>1, StreamTypes, ServerStays, ServerNetStays
  <2>3. HandlersHold(handler') /\ ReaderHolds(reader') /\ SameSession(sess, sess')
    BY <1>1, <1>2, HandlersHoldKept, ServerStays
  <2> QED BY <1>1, <2>2, <2>3, ServerQuiet
<1> QED BY <1>1, <1>2, ProtocolErrorStreams

LEMMA ReaderSendsStreams ==
  ASSUME IInv, IInv', StreamInv, UNCHANGED clientVars, SendTargetData \/ ReaderStops
  PROVE  StreamInv'
<1>1. handler' = handler /\ target' = target /\ targetOverlap' = targetOverlap
  BY DEF SendTargetData, ReaderStops
<1>2. ReaderHolds(reader')
  <2>1. NoFrame \in DownFrames
    BY PlainFrames DEF DownFrames
  <2>2. (reader' = ReaderIdle("read") /\ reader.pc = "send") \/ reader' = ReaderIdle("done")
    BY DEF SendTargetData, ReaderStops
  <2> QED BY <2>1, <2>2, ServerStays DEF ReaderHolds, ReaderIdle
<1>3. CASE ReaderStops
  BY <1>1, <1>2, <1>3, ServerStays, ServerQuiet DEF ReaderStops
<1>4. CASE SendTargetData
  <2>1. reader.conn \in Conns /\ reader.frame \in DownFrames
    BY <1>4, ServerStays DEF SendTargetData, IInv, ServerInv, ServerPcs, ReaderHolds
  <2>2. \/ net' = ServerSend(net, reader.conn, reader.frame) /\ sess' = sess
        \/ net' = net /\ sess' = Disconnect(sess, reader.conn)
    BY <1>4 DEF SendTargetData
  <2>3. Flight(net', UpFrames, DownFrames)
    BY <2>1, <2>2, StreamTypes, ServerStays, ServerNetStays
  <2>4. SameSession(sess, sess')
    BY <2>1, <2>2, StreamTypes, ServerStays, SessionsStay
  <2> QED BY <1>1, <1>2, <2>3, <2>4, ServerStays, ServerQuiet
<1> QED BY <1>3, <1>4

LEMMA ReaderFinStreams ==
  ASSUME IInv, IInv', StreamInv, UNCHANGED clientVars, SendTargetFin
  PROVE  StreamInv'
<1> DEFINE n == IF reader.conn = None THEN net ELSE ServerSend(net, reader.conn, reader.frame)
<1>1. /\ net' = CloseTerminalNet(n, sess, "target_closed")
      /\ sess' = CloseTerminal(sess, "target_closed") /\ reader' = ReaderIdle("done")
      /\ handler' = handler /\ target' = target /\ targetOverlap' = targetOverlap
  BY DEF SendTargetFin
<1>2. reader.conn \in Conns \cup {None} /\ reader.frame \in DownFrames
  BY ServerStays DEF IInv, ServerInv, ServerTypeOK, ReaderType, ReaderHolds
<1>3. n \in NetType /\ Flight(n, UpFrames, DownFrames)
  BY <1>2, StreamTypes, ServerStays, ServerNetStays
<1> HIDE DEF n
<1>4. Flight(net', UpFrames, DownFrames) /\ SameSession(sess, sess')
  BY <1>1, <1>3, StreamTypes, EndFlight, SessionsStay DEF DownFrames, Codes
<1>5. ReaderHolds(reader')
  BY <1>1, PlainFrames DEF ReaderHolds, ReaderIdle, DownFrames
<1> QED BY <1>1, <1>4, <1>5, ServerStays, ServerQuiet

LEMMA TimerStreams ==
  ASSUME IInv, IInv', StreamInv, UNCHANGED clientVars, TimerFires \/ TimerCallback
  PROVE  StreamInv'
<1>1. /\ reader' = reader /\ handler' = handler /\ target' = target /\ targetOverlap' = targetOverlap
      /\ net' = net \/ net' = CloseTerminalNet(net, sess, "resume_timeout")
      /\ \/ sess' = [sess EXCEPT !.ttl = "expired", !.callback = TRUE]
         \/ sess' = [CloseTerminal(sess, "resume_timeout") EXCEPT !.callback = FALSE]
  BY DEF TimerFires, TimerCallback
<1>2. /\ net \in NetType /\ sess \in SessType /\ Flight(net, UpFrames, DownFrames)
      /\ "resume_timeout" \in Codes
  BY StreamTypes, ServerStays DEF Codes
<1>3. Flight(net', UpFrames, DownFrames)
  BY <1>1, <1>2, EndFlight DEF DownFrames
<1>4. SameSession(sess, sess')
  <2>1. /\ CloseTerminal(sess, "resume_timeout") \in SessType
        /\ SameSession(sess, CloseTerminal(sess, "resume_timeout"))
    BY <1>2, SessMethods, SessionsStay
  <2> QED BY <1>1, <1>2, <2>1 DEF SameSession, SameServed, SessType
<1> QED BY <1>1, <1>3, <1>4, ServerStays, ServerQuiet

-----------------------------------------------------------------------------
(* The server's steps that read, write or take an acknowledgement. *)

LEMMA AcceptNewStreams ==
  ASSUME IInv, IInv', StreamInv, UNCHANGED clientVars, NEW c \in Conns, AcceptNew(c)
  PROVE  StreamInv'
<1> DEFINE f == Accept(1, 0, 0)
<1>1. /\ target' = target /\ targetOverlap' = targetOverlap /\ sess.state = "none"
      /\ sess' = [sess EXCEPT !.state = "live", !.epoch = 1, !.active = c]
      /\ reader' = [reader EXCEPT !.pc = "read"] /\ net' = ServerRecv(net, c) /\ net.up[c] # <<>>
      /\ handler' = [handler EXCEPT ![c].pc = "reply", ![c].epoch = 1, ![c].out = <<f>>]
  BY DEF AcceptNew, HelloArrives
<1> HIDE DEF f
<1>2. f \in DownFrames
  <2>1. sess.c2sRx \in Nat /\ 0 <= sess.c2sRx
    BY StreamTypes
  <2>2. f \in Frames(sess.s2cNext, sess.s2cFin, sess.c2sRx)
    BY <2>1, OffsetFrames DEF f
  <2> QED BY <2>2 DEF DownFrames
<1>3. SameSession(sess, sess')
  BY <1>1, StreamTypes DEF SessType, SameSession, SameServed
<1>4. Flight(net', UpFrames, DownFrames)
  BY <1>1, StreamTypes, ServerStays, ServerNetStays
<1>5. ReaderHolds(reader')
  <2>1. ~sess.s2cFin
    BY <1>1 DEF StreamInv, TargetEnds
  <2>2. reader \in ReaderType
    BY DEF IInv, ServerInv, ServerTypeOK
  <2>3. reader'.frame = reader.frame
    BY <1>1, <2>2 DEF ReaderType
  <2> QED BY <2>1, <2>3, ServerStays DEF ReaderHolds
<1>6. HandlersHold(handler')
  <2>1. handler \in [Conns -> HandlerType] /\ HandlersHold(handler)
    BY ServerStays
  <2>2. /\ handler'[c].pc = "reply" /\ handler'[c].frame = handler[c].frame /\ handler'[c].out = <<f>>
        /\ \A d \in Conns \ {c} : handler'[d] = handler[d]
    BY <1>1, <2>1 DEF HandlerType
  <2>3. AllIn(<<f>>, DownFrames)
    BY <1>2 DEF AllIn
  <2> QED BY <2>1, <2>2, <2>3 DEF HandlersHold
<1> QED BY <1>1, <1>3, <1>4, <1>5, <1>6, ServerQuiet

LEMMA AckServed ==
  ASSUME NEW s \in SessType, NEW o
  PROVE  SameServed(s, AdvanceS2CAck(s, o)) /\ AdvanceS2CAck(s, o).s2cAck \in {s.s2cAck, o}
BY DEF AdvanceS2CAck, SameServed, SessType

LEMMA ResumeStreams ==
  ASSUME IInv, IInv', StreamInv, UNCHANGED clientVars, NEW c \in Conns, Resume(c)
  PROVE  StreamInv'
<1> DEFINE hello  == Head(net.up[c])
           s      == AdvanceS2CAck(sess, hello.serverToClientRx)
           epoch  == NextEpoch(sess)
           accept == Accept(epoch, s.c2sRx, s.s2cAck)
           chunks == DataChunks(epoch, s.s2cBufFrom, s.s2cBuf)
           fin    == IF sess.s2cFin THEN <<Fin(epoch, sess.s2cNext)>> ELSE <<>>
           n      == ServerRecv(net, c)
           out    == <<accept>> \o chunks \o fin
<1>1. /\ net.up[c] # <<>> /\ hello.type = "hello" /\ ~AdvanceS2CAckFails(sess, hello.serverToClientRx)
      /\ target' = target /\ targetOverlap' = targetOverlap /\ reader' = reader
      /\ \E callback : sess' = [s EXCEPT !.epoch = epoch, !.active = c, !.ttl = "off",
                                         !.callback = callback]
      /\ handler' = [handler EXCEPT ![c].pc = "reply", ![c].epoch = epoch, ![c].out = out]
      /\ net' = IF sess.active = None THEN n ELSE ServerClose(n, sess.active)
  BY DEF Resume, HelloArrives, ResumeRefused
<1>2. /\ hello \in UpFrames /\ hello \in Frame /\ hello.serverToClientRx \in Nat
      /\ n \in NetType /\ Flight(n, UpFrames, DownFrames)
  BY <1>1, StreamTypes, ServerStays, ServerNetStays, ReceivedType, FrameTypesKnown
<1>3. hello.serverToClientRx <= rt.s2cRx
  BY <1>1, <1>2 DEF UpFrames, Frames
<1>4. SameServed(sess, s) /\ s.s2cAck \in {sess.s2cAck, hello.serverToClientRx}
  BY StreamTypes, AckServed
<1>5. s \in SessType /\ Window(s.s2cBuf, s.s2cBufFrom, s.s2cAck, s.s2cNext)
  <2>1. Window(sess.s2cBuf, sess.s2cBufFrom, sess.s2cAck, sess.s2cNext)
    BY StreamTypes DEF IInv, ServerInv, ServerReplayWindow, Window, SessType
  <2> QED BY <1>1, <1>2, <2>1, StreamTypes, AdvanceS2CAckWindow
<1> HIDE DEF hello, s, n
<1>6. SameServed(sess, sess') /\ sess'.s2cAck <= rt.s2cRx
  <2>1. SameServed(s, sess') /\ sess'.s2cAck = s.s2cAck
    BY <1>1, <1>5 DEF SessType, SameServed
  <2> QED BY <1>3, <1>4, <2>1 DEF SameServed, StreamInv, AcksEarned
<1>7. Flight(net', UpFrames, DownFrames)
  <2>1. sess.active \in Conns \cup {None}
    BY StreamTypes DEF SessType
  <2> QED BY <1>1, <1>2, <2>1, ServerNetStays
<1>8. /\ epoch \in Nat /\ s.c2sRx = sess.c2sRx /\ s.s2cAck \in Nat
      /\ s.s2cNext = sess.s2cNext /\ sess.c2sRx \in Nat /\ sess.s2cNext \in Nat
      /\ s.s2cBuf \in Seq(Nat) /\ s.s2cBufFrom \in Nat /\ Slice(s.s2cBuf, s.s2cBufFrom)
      /\ s.s2cBufFrom + Len(s.s2cBuf) <= sess.s2cNext
  BY <1>4, <1>5, StreamTypes DEF NextEpoch, SameServed, Window, SessType
<1> HIDE DEF epoch
<1>9. <<accept>> \in Seq(Frame) /\ AllIn(<<accept>>, DownFrames)
  <2>1. accept \in Frame
    BY <1>8, AcceptType
  <2>2. accept \in Frames(sess.s2cNext, sess.s2cFin, sess.c2sRx)
    <3>1. sess.c2sRx <= sess.c2sRx
      BY <1>8
    <3>2. \A b \in Nat : Accept(epoch, sess.c2sRx, b) \in Frames(sess.s2cNext, sess.s2cFin, sess.c2sRx)
      BY <1>8, <3>1, OffsetFrames
    <3> QED BY <1>8, <3>2
  <2> HIDE DEF accept
  <2> QED BY <2>1, <2>2 DEF AllIn, DownFrames
<1>10. chunks \in Seq(Frame) /\ AllIn(chunks, DownFrames)
  <2>1. DataChunks(epoch, s.s2cBufFrom, s.s2cBuf) \in Seq(Frame)
    BY <1>8, DataChunksType
  <2>2. AllIn(DataChunks(epoch, s.s2cBufFrom, s.s2cBuf), Frames(sess.s2cNext, sess.s2cFin, sess.c2sRx))
    BY <1>8, ChunksInPlace
  <2> QED BY <2>1, <2>2 DEF DownFrames
<1>11. fin \in Seq(Frame) /\ AllIn(fin, DownFrames)
  <2>1. CASE sess.s2cFin
    <3>1. Fin(epoch, sess.s2cNext) \in Frame
      BY <1>8, OffsetFrameType
    <3>2. Fin(epoch, sess.s2cNext) \in DownFrames
      BY <1>8, <2>1, OffsetFrames DEF DownFrames
    <3>3. fin = <<Fin(epoch, sess.s2cNext)>>
      BY <2>1
    <3> QED BY <3>1, <3>2, <3>3 DEF AllIn
  <2>2. CASE ~sess.s2cFin
    <3>1. fin = <<>>
      BY <2>2
    <3> QED BY <3>1, EmptySeq DEF AllIn
  <2> QED BY <2>1, <2>2
<1> HIDE DEF accept, chunks, fin
<1>12. AllIn(out, DownFrames)
  <2>1. <<accept>> \o chunks \in Seq(Frame) /\ AllIn(<<accept>> \o chunks, DownFrames)
    BY <1>9, <1>10, QueueMoves, ConcatProperties
  <2> QED BY <1>11, <2>1, QueueMoves
<1> HIDE DEF out
<1>13. HandlersHold(handler')
  <2>1. handler \in [Conns -> HandlerType] /\ HandlersHold(handler)
    BY ServerStays
  <2>2. /\ handler'[c].pc = "reply" /\ handler'[c].frame = handler[c].frame /\ handler'[c].out = out
        /\ \A d \in Conns \ {c} : handler'[d] = handler[d]
    BY <1>1, <2>1 DEF HandlerType
  <2> QED BY <1>12, <2>1, <2>2 DEF HandlersHold
<1>14. ReaderHolds(reader')
  BY <1>1, ServerStays
<1> QED BY <1>1, <1>6, <1>7, <1>13, <1>14, ServerCalm

LEMMA HandleAckStreams ==
  ASSUME IInv, IInv', StreamInv, UNCHANGED clientVars, NEW c \in Conns, HandleAck(c)
  PROVE  StreamInv'
<1>1. /\ net' = net /\ reader' = reader /\ target' = target /\ targetOverlap' = targetOverlap
      /\ sess' = AdvanceS2CAck(sess, handler[c].frame.offset)
      /\ handler' = [handler EXCEPT ![c] = Resumed(@)] /\ handler[c].frame.type = "ack"
  BY DEF HandleAck, Handling
<1>2. handler[c].frame.offset <= rt.s2cRx
  BY <1>1 DEF StreamInv, ServerHolds, UpFrames, Frames
<1>3. SameServed(sess, sess') /\ sess'.s2cAck <= rt.s2cRx
  BY <1>1, <1>2, StreamTypes, AckServed DEF StreamInv, AcksEarned
<1>4. HandlersHold(handler') /\ ReaderHolds(reader')
  BY <1>1, HandlersHoldKept, ServerStays
<1> QED BY <1>1, <1>3, <1>4, ServerStays, ServerCalm

\* The reader's part of what the server holds, once more bytes are read or the
\* target's stream ends.
LEMMA ReaderMoves ==
  ASSUME IInv, IInv', StreamInv, UNCHANGED clientVars,
         UNCHANGED <<net, handler, target, targetOverlap>>, ~sess.s2cFin,
         sess.s2cNext <= sess'.s2cNext, sess'.s2cAck = sess.s2cAck, sess'.c2sRx = sess.c2sRx,
         reader'.frame = reader.frame \/ reader'.frame \in DownFrames', TargetEnds'
  PROVE  StreamInv'
<1>1. sess.c2sRx \in Nat /\ rt' = rt
  BY StreamTypes DEF clientVars
<1>2. DownFrames \subseteq DownFrames'
  BY <1>1, DownFramesGrow
<1>3. UpFrames' = UpFrames
  BY <1>1 DEF UpFrames
<1>4. ServerHolds'
  BY <1>2, <1>3 DEF StreamInv, ServerHolds, AllIn
<1>5. Flight(net', UpFrames, DownFrames')
  BY <1>2, ServerStays, FlightGrows
<1>6. TargetInPlace'
  BY <1>1 DEF StreamInv, TargetInPlace
<1>7. sess'.s2cAck <= rt.s2cRx /\ sess'.c2sRx <= Len(target'.in) /\ sess.c2sRx <= sess'.c2sRx
  BY <1>1 DEF StreamInv, AcksEarned
<1> QED BY <1>4, <1>5, <1>6, <1>7, ServerStreamParts

LEMMA ReadTargetStreams ==
  ASSUME IInv, IInv', StreamInv, UNCHANGED clientVars, ReadTarget
  PROVE  StreamInv'
<1>1. PICK n \in 1..Chunk :
        LET bytes == [i \in 1..n |-> sess.s2cNext + i]
        IN  /\ sess' = [sess EXCEPT !.s2cNext = @ + n, !.s2cBuf = @ \o bytes]
            /\ reader' = IF sess.active = None THEN reader
                         ELSE [pc |-> "send", conn |-> sess.active,
                               frame |-> Data(sess.epoch, sess.s2cNext, bytes)]
  BY DEF ReadTarget
<1> DEFINE bytes == [i \in 1..n |-> sess.s2cNext + i]
<1>2. reader.pc = "read" /\ sess \in SessType /\ sess.state = "live"
  BY StreamTypes DEF ReadTarget
<1>3. n \in Nat /\ sess.s2cNext \in Nat /\ sess.epoch \in Nat
  BY <1>2, ChunkAssumption DEF SessType
<1>4. bytes \in Seq(Nat) /\ Len(bytes) = n /\ Slice(bytes, sess.s2cNext)
  BY <1>3 DEF Slice
<1> HIDE DEF bytes
<1>5. /\ sess' = [sess EXCEPT !.s2cNext = @ + n, !.s2cBuf = @ \o bytes]
      /\ reader' = IF sess.active = None THEN reader
                   ELSE [pc |-> "send", conn |-> sess.active,
                         frame |-> Data(sess.epoch, sess.s2cNext, bytes)]
  BY <1>1 DEF bytes
<1>6. /\ sess'.s2cNext = sess.s2cNext + n /\ sess'.s2cAck = sess.s2cAck /\ sess'.c2sRx = sess.c2sRx
      /\ sess'.s2cFin = sess.s2cFin
  BY <1>2, <1>5 DEF SessType
<1>7. ~sess.s2cFin
  BY <1>2 DEF StreamInv, TargetEnds
<1>8. reader'.frame = reader.frame \/ reader'.frame \in DownFrames'
  <2>1. sess'.s2cNext \in Nat /\ sess.s2cNext + Len(bytes) <= sess'.s2cNext
    BY <1>3, <1>4, <1>6
  <2>2. Data(sess.epoch, sess.s2cNext, bytes) \in Frames(sess'.s2cNext, sess'.s2cFin, sess'.c2sRx)
    BY <1>3, <1>4, <2>1, DataFrames
  <2>3. reader' = reader \/ reader'.frame = Data(sess.epoch, sess.s2cNext, bytes)
    BY <1>5
  <2> QED BY <2>2, <2>3 DEF DownFrames
<1>9. TargetEnds'
  BY <1>6, <1>7 DEF TargetEnds
<1>10. sess.s2cNext <= sess'.s2cNext
  BY <1>3, <1>6
<1> QED BY <1>6, <1>7, <1>8, <1>9, <1>10, ReaderMoves DEF ReadTarget

LEMMA TargetEOFStreams ==
  ASSUME IInv, IInv', StreamInv, UNCHANGED clientVars, TargetEOF
  PROVE  StreamInv'
<1>1. /\ reader.pc = "read" /\ sess.state = "live" /\ sess \in SessType
      /\ sess' = [sess EXCEPT !.s2cFin = TRUE] /\ reader'.pc = "fin"
      /\ reader'.frame = NoFrame \/ reader'.frame = Fin(sess.epoch, sess.s2cNext)
  BY StreamTypes DEF TargetEOF
<1>2. ~sess.s2cFin
  BY <1>1 DEF StreamInv, TargetEnds
<1>3. /\ sess'.s2cNext = sess.s2cNext /\ sess'.s2cAck = sess.s2cAck /\ sess'.c2sRx = sess.c2sRx
      /\ sess'.s2cFin /\ sess'.state = "live" /\ sess.s2cNext <= sess'.s2cNext
      /\ sess.epoch \in Nat /\ sess.s2cNext \in Nat /\ sess.c2sRx \in Nat
  BY <1>1 DEF SessType
<1>4. reader'.frame \in DownFrames'
  <2>1. NoFrame \in Frames(sess'.s2cNext, sess'.s2cFin, sess'.c2sRx)
    BY PlainFrames
  <2>2. Fin(sess.epoch, sess.s2cNext) \in Frames(sess.s2cNext, TRUE, sess.c2sRx)
    BY <1>3, OffsetFrames
  <2>3. sess'.s2cFin = TRUE
    BY <1>1 DEF SessType
  <2> QED BY <1>1, <1>3, <2>1, <2>2, <2>3 DEF DownFrames
<1>5. TargetEnds'
  BY <1>1, <1>3 DEF TargetEnds
<1> QED BY <1>2, <1>3, <1>4, <1>5, ReaderMoves DEF TargetEOF

\* The step of the target's writer c, which wrote p.
LEMMA TargetMoves ==
  ASSUME IInv, IInv', StreamInv, UNCHANGED clientVars, reader' = reader,
         NEW c \in Conns, handler[c].pc = "write", NEW p \in Seq(Nat),
         Len(p) <= Len(handler[c].frame.payload),
         \A i \in 1..Len(p) : p[i] = handler[c].frame.payload[i],
         target' = [target EXCEPT !.in = @ \o p],
         sess'.c2sRx = sess.c2sRx + Len(p), sess'.s2cNext = sess.s2cNext, sess'.s2cAck = sess.s2cAck,
         sess'.s2cFin = sess.s2cFin, sess.state # "none" => sess'.state # "none",
         targetOverlap' = (targetOverlap \/ OtherHandlersWrite(c)),
         handler' = [handler EXCEPT ![c] = Resumed(@)],
         Flight(net', UpFrames, DownFrames')
  PROVE  StreamInv'
<1> DEFINE f == handler[c].frame
<1>1. /\ sess.c2sRx \in Nat /\ sess.s2cNext \in Nat /\ rt.c2sNext \in Nat /\ target \in TargetType
      /\ target.in \in Seq(Nat) /\ Len(target.in) \in Nat /\ Len(p) \in Nat
      /\ handler \in [Conns -> HandlerType] /\ rt' = rt
  BY StreamTypes, LenProperties DEF IInv, ServerInv, ServerTypeOK, clientVars
<1>2. f \in UpFrames /\ f.type = "data" /\ f.offset \in Nat /\ Len(f.payload) \in Nat
  BY StreamTypes, FrameTypesKnown DEF StreamInv, ServerHolds
<1>3. Slice(f.payload, f.offset) /\ f.offset + Len(f.payload) <= rt.c2sNext
  BY <1>2 DEF UpFrames, Frames
<1>4. /\ target'.in = target.in \o p /\ target'.eof = target.eof
      /\ Len(target'.in) = Len(target.in) + Len(p)
  <2>1. target'.in = target.in \o p /\ target'.eof = target.eof
    BY <1>1 DEF TargetType
  <2> QED BY <1>1, <2>1, ConcatProperties
<1>5. DownFrames \subseteq DownFrames'
  BY <1>1, DownFramesGrow
<1>6. handler'[c].pc = "run" /\ \A d \in Conns \ {c} : handler'[d] = handler[d]
  BY <1>1 DEF HandlerType, Resumed
<1>7. ServerHolds'
  <2>1. UpFrames' = UpFrames
    BY <1>1 DEF UpFrames
  <2>2. HandlersHold(handler')
    BY HandlersHoldKept
  <2> QED BY <1>5, <2>1, <2>2 DEF StreamInv, ServerHolds, AllIn, HandlersHold
<1>8. TargetEnds'
  BY DEF StreamInv, TargetEnds
<1>9. TargetInPlace'
  <2> SUFFICES ASSUME ~targetOverlap'
               PROVE  /\ Slice(target'.in, 0) /\ Len(target'.in) = sess'.c2sRx
                      /\ sess'.c2sRx <= rt.c2sNext
                      /\ target'.eof => rt.c2sFin /\ sess'.c2sRx = rt.c2sNext
                      /\ \A d \in Conns : handler'[d].pc # "write"
    BY <1>1 DEF TargetInPlace
  <2>1. ~targetOverlap /\ ~OtherHandlersWrite(c)
    OBVIOUS
  <2>2. /\ Slice(target.in, 0) /\ Len(target.in) = sess.c2sRx /\ f.offset = sess.c2sRx
        /\ target.eof => rt.c2sFin /\ sess.c2sRx = rt.c2sNext
    BY <2>1 DEF StreamInv, TargetInPlace
  <2>3. sess'.c2sRx <= rt.c2sNext
    BY <1>1, <1>2, <1>3, <2>2
  <2>4. Slice(p, 0 + Len(target.in))
    <3> SUFFICES ASSUME NEW i \in 1..Len(p) PROVE p[i] = (0 + Len(target.in)) + i
      BY DEF Slice
    <3>1. i \in 1..Len(f.payload) /\ p[i] = f.payload[i]
      BY <1>1, <1>2
    <3>2. DOMAIN f.payload = 1..Len(f.payload)
      BY <1>2, FrameTypesKnown, LenProperties DEF UpFrames, Frames
    <3>3. f.payload[i] = f.offset + i
      BY <1>3, <3>1, <3>2 DEF Slice
    <3> QED BY <1>1, <2>2, <3>1, <3>3
  <2>5. Slice(target'.in, 0)
    BY <1>1, <1>4, <2>2, <2>4, SliceConcat
  <2>6. target'.eof => rt.c2sFin /\ sess'.c2sRx = rt.c2sNext
    BY <1>1, <1>2, <1>3, <1>4, <2>2
  <2>7. \A d \in Conns : handler'[d].pc # "write"
    BY <1>6, <2>1 DEF OtherHandlersWrite
  <2> QED BY <1>1, <1>4, <2>2, <2>3, <2>5, <2>6, <2>7
<1>10. /\ sess'.s2cAck <= rt.s2cRx /\ sess'.c2sRx <= Len(target'.in)
       /\ sess.c2sRx <= sess'.c2sRx /\ sess.s2cNext <= sess'.s2cNext
  BY <1>1, <1>4 DEF StreamInv, AcksEarned
<1> QED BY <1>7, <1>8, <1>9, <1>10, ServerStreamParts

LEMMA FinishTargetWriteStreams ==
  ASSUME IInv, IInv', StreamInv, UNCHANGED clientVars, NEW c \in Conns, FinishTargetWrite(c)
  PROVE  StreamInv'
<1> DEFINE p  == handler[c].frame.payload
           rx == sess.c2sRx + Len(p)
<1>1. p \in Seq(Nat) /\ Len(p) \in Nat /\ sess \in SessType /\ sess.c2sRx \in Nat /\ sess.s2cNext \in Nat
  BY StreamTypes, FrameTypesKnown
<1>2. /\ handler[c].pc = "write" /\ reader' = reader
      /\ target' = [target EXCEPT !.in = @ \o p] /\ sess' = [sess EXCEPT !.c2sRx = rx]
      /\ targetOverlap' = (targetOverlap \/ OtherHandlersWrite(c))
      /\ net' = ServerSend(net, c, Ack(handler[c].epoch, rx))
      /\ handler' = [handler EXCEPT ![c] = Resumed(@)]
  BY DEF FinishTargetWrite
<1> HIDE DEF p
<1>3. rx \in Nat /\ sess.c2sRx <= rx
  BY <1>1
<1> HIDE DEF rx
<1>4. /\ sess'.c2sRx = rx /\ sess'.s2cNext = sess.s2cNext /\ sess'.s2cAck = sess.s2cAck
      /\ sess'.s2cFin = sess.s2cFin /\ sess'.state = sess.state
  BY <1>1, <1>2 DEF SessType
<1>5. Flight(net', UpFrames, DownFrames')
  <2>1. DownFrames \subseteq DownFrames'
    BY <1>1, <1>3, <1>4, DownFramesGrow
  <2>2. net \in NetType /\ Flight(net, UpFrames, DownFrames')
    BY <2>1, ServerStays, StreamTypes, FlightGrows
  <2>3. Ack(handler[c].epoch, rx) \in Frame /\ Ack(handler[c].epoch, rx) \in DownFrames'
    <3>1. rx <= rx
      BY <1>3
    <3> QED BY <1>3, <1>4, <3>1, ServerAcks DEF DownFrames
  <2> QED BY <1>2, <2>2, <2>3, ConnectionFlight
<1>6. sess'.c2sRx = sess.c2sRx + Len(p) /\ Len(p) <= Len(p)
  BY <1>1, <1>4 DEF rx
<1>7. \A i \in 1..Len(p) : p[i] = p[i]
  OBVIOUS
<1> QED BY <1>1, <1>2, <1>4, <1>5, <1>6, <1>7, TargetMoves DEF p

LEMMA TargetWriteFailsStreams ==
  ASSUME IInv, IInv', StreamInv, UNCHANGED clientVars, NEW c \in Conns, TargetWriteFails(c)
  PROVE  StreamInv'
<1> DEFINE q == handler[c].frame.payload
<1>1. PICK k \in 0..(Len(q) - 1) :
        LET rx == sess.c2sRx + k
            s  == [sess EXCEPT !.c2sRx = rx]
            w  == ServerSend(net, c, Ack(handler[c].epoch, rx))
        IN  /\ target' = [target EXCEPT !.in = @ \o SubSeq(q, 1, k)]
            /\ targetOverlap' = (targetOverlap \/ OtherHandlersWrite(c))
            /\ sess' = CloseTerminal(s, "target_closed")
            /\ net' = CloseTerminalNet(w, s, "target_closed")
  BY DEF TargetWriteFails
<1> DEFINE rx == sess.c2sRx + k
           s  == [sess EXCEPT !.c2sRx = rx]
           m  == ServerSend(net, c, Ack(handler[c].epoch, rx))
           p  == SubSeq(q, 1, k)
<1>2. q \in Seq(Nat) /\ Len(q) \in Nat /\ sess \in SessType /\ sess.c2sRx \in Nat /\ sess.s2cNext \in Nat
  BY StreamTypes, FrameTypesKnown
<1>3. k \in Nat /\ k <= Len(q) /\ rx \in Nat /\ sess.c2sRx <= rx
  BY <1>2
<1>4. p \in Seq(Nat) /\ Len(p) = k /\ \A i \in 1..Len(p) : p[i] = q[i]
  <2>1. \A i \in 1..k : q[i] \in Nat
    <3> HIDE DEF q
    <3> QED BY <1>2, <1>3
  <2>2. /\ p \in Seq(Nat) /\ Len(p) = IF 1 <= k THEN k - 1 + 1 ELSE 0
        /\ \A i \in 1..(k - 1 + 1) : p[i] = q[1 + i - 1]
    BY <1>3, <2>1, SubSeqProperties
  <2> HIDE DEF p
  <2>3. Len(p) = k
    BY <1>3, <2>2
  <2>4. \A i \in 1..k : i \in 1..(k - 1 + 1) /\ 1 + i - 1 = i
    BY <1>3
  <2> QED BY <2>2, <2>3, <2>4
<1>5. handler[c].pc = "write" /\ reader' = reader /\ handler' = [handler EXCEPT ![c] = Resumed(@)]
  BY DEF TargetWriteFails
<1>6. /\ target' = [target EXCEPT !.in = @ \o p]
      /\ targetOverlap' = (targetOverlap \/ OtherHandlersWrite(c))
      /\ sess' = CloseTerminal(s, "target_closed") /\ net' = CloseTerminalNet(m, s, "target_closed")
  BY <1>1
<1> HIDE DEF rx, m, p
<1>7. /\ s \in SessType /\ s.c2sRx = rx /\ s.s2cNext = sess.s2cNext /\ s.s2cAck = sess.s2cAck
      /\ s.s2cFin = sess.s2cFin /\ s.state = sess.state
  BY <1>2, <1>3 DEF SessType
<1> HIDE DEF s
<1>8. /\ sess'.c2sRx = rx /\ sess'.s2cNext = sess.s2cNext /\ sess'.s2cAck = sess.s2cAck
      /\ sess'.s2cFin = sess.s2cFin /\ (sess.state # "none" => sess'.state # "none")
  BY <1>6, <1>7, SessionsStay DEF Codes, SameSession, SameServed
<1>9. Flight(net', UpFrames, DownFrames')
  <2>1. DownFrames \subseteq DownFrames'
    BY <1>2, <1>3, <1>8, DownFramesGrow
  <2>2. net \in NetType /\ Flight(net, UpFrames, DownFrames')
    BY <2>1, ServerStays, StreamTypes, FlightGrows
  <2>3. Ack(handler[c].epoch, rx) \in Frame /\ Ack(handler[c].epoch, rx) \in DownFrames'
    <3>1. rx <= rx
      BY <1>3
    <3> QED BY <1>3, <1>8, <3>1, ServerAcks DEF DownFrames
  <2>4. m \in NetType /\ Flight(m, UpFrames, DownFrames')
    BY <2>2, <2>3, SendType, ConnectionFlight DEF m
  <2> QED BY <1>6, <1>7, <2>4, EndFlight DEF DownFrames, Codes
<1>10. sess'.c2sRx = sess.c2sRx + Len(p) /\ Len(p) <= Len(q)
  BY <1>3, <1>4, <1>8 DEF rx
<1> QED BY <1>4, <1>5, <1>6, <1>8, <1>9, <1>10, TargetMoves

LEMMA HandleFinStreams ==
  ASSUME IInv, IInv', StreamInv, UNCHANGED clientVars, NEW c \in Conns, HandleFin(c)
  PROVE  StreamInv'
<1> DEFINE s == [sess EXCEPT !.c2sFin = TRUE]
<1>1. /\ reader' = reader /\ targetOverlap' = targetOverlap /\ target' = [target EXCEPT !.eof = TRUE]
      /\ handler[c].frame.type = "fin" /\ handler[c].frame.offset = sess.c2sRx
      /\ \/ /\ net' = ServerSend(net, c, Ack(handler[c].epoch, sess.c2sRx))
            /\ handler' = [handler EXCEPT ![c] = Resumed(@)] /\ sess' = s
         \/ /\ net' = ServerClose(net, c)
            /\ handler' = [handler EXCEPT ![c] = Ended(@)] /\ sess' = Disconnect(s, c)
      /\ rt' = rt
  BY DEF HandleFin, Handling, FinIsNext, clientVars
<1>2. s \in SessType /\ SameSession(sess, s)
  BY StreamTypes DEF SessType, SameSession, SameServed
<1> HIDE DEF s
<1>3. SameSession(sess, sess')
  <2>1. SameSession(s, Disconnect(s, c))
    BY <1>2, SessionsStay
  <2> QED BY <1>1, <1>2, <2>1 DEF SameSession, SameServed
<1>4. /\ sess'.s2cNext = sess.s2cNext /\ sess'.c2sRx = sess.c2sRx /\ sess'.s2cFin = sess.s2cFin
      /\ sess'.s2cAck = sess.s2cAck /\ (sess.state # "none" => sess'.state # "none")
  BY <1>3 DEF SameSession, SameServed
<1>5. UpFrames' = UpFrames /\ DownFrames' = DownFrames
  BY <1>1, <1>4 DEF UpFrames, DownFrames
<1>6. HandlersHold(handler')
  BY <1>1, HandlersHoldKept
<1>7. ServerHolds' /\ TargetEnds'
  BY <1>1, <1>4, <1>5, <1>6 DEF StreamInv, ServerHolds, TargetEnds, HandlersHold
<1>8. Flight(net', UpFrames, DownFrames')
  <2>1. Ack(handler[c].epoch, sess.c2sRx) \in DownFrames
    <3>1. sess.c2sRx \in Nat /\ sess.c2sRx <= sess.c2sRx
      BY StreamTypes
    <3> QED BY <3>1, ServerAcks DEF DownFrames
  <2>2. Flight(net', UpFrames, DownFrames)
    BY <1>1, <2>1, StreamTypes, ServerStays, ServerNetStays
  <2> QED BY <1>5, <2>2
<1>9. target'.in = target.in /\ target'.eof
  BY <1>1 DEF IInv, ServerInv, ServerTypeOK, TargetType
<1>10. rt.c2sFin /\ sess.c2sRx = rt.c2sNext
  BY <1>1 DEF StreamInv, ServerHolds, UpFrames, Frames
<1>11. TargetInPlace'
  BY <1>1, <1>4, <1>6, <1>9, <1>10 DEF StreamInv, TargetInPlace, HandlersHold
<1>12. /\ sess'.s2cAck <= rt.s2cRx /\ sess'.c2sRx <= Len(target'.in)
       /\ sess.c2sRx <= sess'.c2sRx /\ sess.s2cNext <= sess'.s2cNext
  BY <1>4, <1>9, StreamTypes DEF StreamInv, AcksEarned
<1> QED BY <1>4, <1>7, <1>8, <1>11, <1>12, ServerStreamParts

LEMMA ServerStreams ==
  ASSUME IInv, IInv', StreamInv, UNCHANGED clientVars, ServerNext
  PROVE  StreamInv'
<1>1. ASSUME NEW c \in Conns, HandlerStep(c) PROVE StreamInv'
  BY <1>1, RefusedHelloStreams, AcceptNewStreams, ResumeStreams, SendReplyStreams,
     SendReplyFailsStreams, ReadFrameStreams, ReadErrorStreams, AnswersStreams,
     FinishTargetWriteStreams, TargetWriteFailsStreams, HandleAckStreams, HandleFinStreams
  DEF HandlerStep
<1>2. CASE ReaderStep
  BY <1>2, ReadTargetStreams, ReaderSendsStreams, TargetEOFStreams, ReaderFinStreams DEF ReaderStep
<1> QED BY <1>1, <1>2, TimerStreams DEF ServerNext

-----------------------------------------------------------------------------
(* The invariant of the tunnel. *)

LEMMA InitStreams ==
  ASSUME Init
  PROVE  StreamInv
<1>1. /\ Len(<<>>) = 0 /\ DOMAIN <<>> = {} /\ Slice(<<>>, 0) /\ \A S : AllIn(<<>>, S)
  BY EmptySeq DEF Slice, AllIn
<1>2. /\ net.up = [c \in Conns |-> <<>>] /\ net.down = [c \in Conns |-> <<>>]
      /\ rt.c2sNext = 0 /\ rt.c2sAck = 0 /\ rt.s2cRx = 0 /\ rt.c2sFin = FALSE
      /\ act.out = <<>> /\ stdin.pc = "wait" /\ stdin.frame = NoFrame
      /\ recv = [c \in Conns |-> [pc |-> "off", epoch |-> 0, frame |-> NoFrame]]
      /\ stdout.data = <<>> /\ stdout.eof = FALSE
      /\ sess.s2cNext = 0 /\ sess.s2cAck = 0 /\ sess.c2sRx = 0 /\ sess.s2cFin = FALSE
      /\ handler = [c \in Conns |-> [pc |-> "idle", epoch |-> 0, frame |-> NoFrame, out |-> <<>>]]
      /\ reader.frame = NoFrame
      /\ target.in = <<>> /\ target.eof = FALSE
  BY DEF Init, NetInit, ClientInit, ServerInit, ActIdle
<1>3. NoFrame \in UpFrames /\ NoFrame \in DownFrames
  BY PlainFrames DEF UpFrames, DownFrames
<1> HIDE DEF NoFrame
<1>4. Flight(net, UpFrames, DownFrames)
  BY <1>1, <1>2 DEF Flight
<1>5. ClientHolds /\ ServerHolds
  BY <1>1, <1>2, <1>3 DEF ClientHolds, ServerHolds
<1>6. StdinEnds /\ TargetEnds
  BY <1>2 DEF StdinEnds, TargetEnds
<1>7. AcksEarned /\ TargetInPlace /\ StdoutInPlace
  BY <1>1, <1>2 DEF AcksEarned, TargetInPlace, StdoutInPlace
<1> QED BY <1>4, <1>5, <1>6, <1>7 DEF StreamInv

LEMMA NextStreams ==
  ASSUME IInv, IInv', StreamInv, [Next]_vars
  PROVE  StreamInv'
<1>1. ASSUME UNCHANGED clientVars, UNCHANGED serverVars, Flight(net', UpFrames, DownFrames)
      PROVE  StreamInv'
  <2>1. /\ target' = target /\ targetOverlap' = targetOverlap /\ sess' = sess
        /\ handler' = handler /\ reader' = reader
    BY <1>1 DEF serverVars
  <2> QED BY <1>1, <2>1, ServerStays, ServerQuiet
<1>2. CASE ClientStep
  BY <1>2, ClientStreams DEF ClientStep
<1>3. CASE ServerStep
  BY <1>3, ServerStreams DEF ServerStep
<1>4. CASE PathBreaks
  <2>1. PICK c \in Conns : Break(c)
    BY <1>4 DEF PathBreaks
  <2>2. net'.up = [net.up EXCEPT ![c] = <<>>] /\ net'.down = [net.down EXCEPT ![c] = <<>>]
    BY <2>1, StreamTypes DEF Break, NetType
  <2>3. net.up \in [Conns -> Seq(Frame)] /\ net.down \in [Conns -> Seq(Frame)]
    BY StreamTypes DEF NetType
  <2>4. Flight(net', UpFrames, DownFrames)
    BY <2>2, <2>3, HoldsStay, ServerStays DEF Flight
  <2> QED BY <1>1, <1>4, <2>4 DEF PathBreaks, clientVars, serverVars
<1>5. CASE Terminated \/ UNCHANGED vars
  <2>1. UNCHANGED vars
    BY <1>5 DEF Terminated
  <2> QED BY <1>1, <2>1, HoldsStay DEF vars, clientVars, serverVars
<1> QED BY <1>2, <1>3, <1>4, <1>5 DEF Next

\* Everything that the ends know of each other holds in every reachable state.
THEOREM StreamsInvariant == Spec => []StreamInv
<1>1. Init => StreamInv
  BY InitStreams
<1>2. IInv /\ IInv' /\ StreamInv /\ [Next]_vars => StreamInv'
  BY NextStreams
<1> QED BY <1>1, <1>2, Invariance, PTL DEF Spec
-----------------------------------------------------------------------------

\* What the client has dropped from its replay buffer has been written to the
\* target: no order of late acks, replays and handovers makes c2sRx run ahead.
THEOREM AcksReachedTarget == Spec => []AckedBytesReachedTarget
<1>1. IInv /\ StreamInv => AckedBytesReachedTarget
  <2> SUFFICES ASSUME IInv, StreamInv PROVE rt.c2sAck <= Len(target.in)
    BY DEF AckedBytesReachedTarget
  <2> QED BY StreamTypes DEF StreamInv, AcksEarned
<1> QED BY <1>1, Invariance, StreamsInvariant, PTL

\* What the server has dropped from its replay buffer has been written to stdout.
THEOREM AcksReachedStdout == Spec => []AckedBytesReachedStdout
<1>1. IInv /\ StreamInv => AckedBytesReachedStdout
  <2> SUFFICES ASSUME IInv, StreamInv PROVE sess.s2cAck <= Len(stdout.data)
    BY DEF AckedBytesReachedStdout
  <2> QED BY StreamTypes DEF StreamInv, AcksEarned
<1> QED BY <1>1, Invariance, StreamsInvariant, PTL

\* Until two handlers write at once, the target has received exactly the first
\* c2sRx bytes of stdin, over any number of connections.
THEOREM TargetGetsPrefix == Spec => []TargetIsPrefix
<1>1. IInv /\ StreamInv => TargetIsPrefix
  <2> SUFFICES ASSUME IInv, StreamInv, ~targetOverlap
               PROVE  /\ Slice(target.in, 0) /\ Len(target.in) = sess.c2sRx
                      /\ Len(target.in) <= rt.c2sNext
    BY DEF TargetIsPrefix
  <2> QED BY DEF StreamInv, TargetInPlace
<1> QED BY <1>1, Invariance, StreamsInvariant, PTL

\* Until two receive loops write at once, stdout has received exactly the first
\* s2cRx bytes of the target's stream.
THEOREM StdoutGetsPrefix == Spec => []StdoutIsPrefix
<1>1. IInv /\ StreamInv => StdoutIsPrefix
  <2> SUFFICES ASSUME IInv, StreamInv, ~stdoutOverlap
               PROVE  /\ Slice(stdout.data, 0) /\ Len(stdout.data) = rt.s2cRx
                      /\ Len(stdout.data) <= sess.s2cNext
    BY DEF StdoutIsPrefix
  <2> QED BY DEF StreamInv, StdoutInPlace
<1> QED BY <1>1, Invariance, StreamsInvariant, PTL

-----------------------------------------------------------------------------
(* Each direction implements ByteStream. *)

\* A sink that received the first bytes of its stream and then has more of them
\* has received the next ones.
LEMMA PrefixGrows ==
  ASSUME NEW s \in Seq(Nat), NEW t \in Seq(Nat), Slice(s, 0), Slice(t, 0), Len(s) <= Len(t)
  PROVE  /\ t = [i \in 1..Len(t) |-> IF i <= Len(s) THEN s[i] ELSE i]
         /\ Len(s) = Len(t) => s = t
<1>1. Len(s) \in Nat /\ Len(t) \in Nat /\ DOMAIN s = 1..Len(s) /\ DOMAIN t = 1..Len(t)
  BY LenProperties
<1>2. \A i \in 1..Len(t) : t[i] = i
  <2>1. \A i \in DOMAIN t : t[i] = 0 + i
    BY DEF Slice
  <2>2. \A i \in 1..Len(t) : 0 + i = i
    BY <1>1
  <2> QED BY <1>1, <2>1, <2>2
<1>3. \A i \in 1..Len(s) : s[i] = i
  <2>1. \A i \in DOMAIN s : s[i] = 0 + i
    BY DEF Slice
  <2>2. \A i \in 1..Len(s) : 0 + i = i
    BY <1>1
  <2> QED BY <1>1, <2>1, <2>2
<1>4. t = [i \in 1..Len(t) |-> t[i]] /\ s = [i \in 1..Len(s) |-> s[i]]
  BY <1>1
<1>5. \A i \in 1..Len(t) : t[i] = IF i <= Len(s) THEN s[i] ELSE i
  BY <1>1, <1>2, <1>3
<1> QED BY <1>1, <1>2, <1>3, <1>4, <1>5

\* Which client steps move what a ByteStream sees.
LEMMA ClientMoves ==
  ASSUME IInv, ClientNext
  PROVE  /\ StdinRead \/ StdinEOF \/ (rt'.c2sNext = rt.c2sNext /\ rt'.c2sFin = rt.c2sFin)
         /\ UNCHANGED <<stdout, stdoutOverlap>>
              \/ \E c \in Conns : FinishStdoutWrite(c) \/ StdoutWriteFails(c) \/ RecvFin(c)
<1> DEFINE Still == rt'.c2sNext = rt.c2sNext /\ rt'.c2sFin = rt.c2sFin
<1>1. rt \in RtType
  BY StreamTypes
<1>2. /\ \A r \in RtType : \A x : DropActive(r, x).c2sNext = r.c2sNext /\ DropActive(r, x).c2sFin = r.c2sFin
      /\ \A r \in RtType : \A x : Finish(r, x).c2sNext = r.c2sNext /\ Finish(r, x).c2sFin = r.c2sFin
      /\ \A r \in RtType : \A x :
           AdvanceC2SAck(r, x).c2sNext = r.c2sNext /\ AdvanceC2SAck(r, x).c2sFin = r.c2sFin
  BY DEF DropActive, Finish, AdvanceC2SAck, RtType
<1>3. ASSUME NEW c \in Conns, RecvStep(c)
      PROVE  Still /\ (UNCHANGED <<stdout, stdoutOverlap>>
                         \/ FinishStdoutWrite(c) \/ StdoutWriteFails(c) \/ RecvFin(c))
  <2>1. CASE RecvFrame(c) \/ BeginStdoutWrite(c) \/ RecvFin(c)
    BY <2>1 DEF RecvFrame, BeginStdoutWrite, RecvFin
  <2>2. CASE \/ RecvError(c) \/ RecvDuplicate(c) \/ RecvMisplaced(c) \/ RecvAck(c)
             \/ RecvMisplacedFin(c) \/ RecvClose(c)
    <3>1. UNCHANGED <<stdout, stdoutOverlap>>
      BY <2>2 DEF RecvError, RecvDuplicate, RecvMisplaced, RecvAck, RecvMisplacedFin, RecvClose
    <3>2. \/ rt' = rt \/ rt' = DropActive(rt, c)
          \/ \E x : rt' = Finish(rt, x) \/ rt' = AdvanceC2SAck(rt, x)
      BY <2>2 DEF RecvError, RecvDuplicate, RecvMisplaced, RecvAck, RecvMisplacedFin, RecvClose, FinishLoop
    <3> QED BY <1>1, <1>2, <3>1, <3>2
  <2>3. CASE FinishStdoutWrite(c)
    <3>1. \E x : rt' = [rt EXCEPT !.s2cRx = x]
      BY <2>3 DEF FinishStdoutWrite
    <3> QED BY <1>1, <2>3, <3>1 DEF RtType
  <2>4. CASE StdoutWriteFails(c)
    <3>1. PICK k \in 0..(Len(recv[c].frame.payload) - 1) :
            rt' = Finish([rt EXCEPT !.s2cRx = rt.s2cRx + k], "stdout_error")
      BY <2>4 DEF StdoutWriteFails
    <3> DEFINE rx == rt.s2cRx + k
               r  == [rt EXCEPT !.s2cRx = rx]
    <3>2. rx \in Nat
      <4>1. recv[c].frame \in Frame /\ rt.s2cRx \in Nat
        BY StreamTypes
      <4>2. Len(recv[c].frame.payload) \in Nat
        BY <4>1, FrameTypesKnown
      <4>3. k \in Nat
        BY <4>2
      <4> QED BY <4>1, <4>3
    <3>3. rt' = Finish(r, "stdout_error")
      BY <3>1
    <3> HIDE DEF rx
    <3>4. r \in RtType /\ r.c2sNext = rt.c2sNext /\ r.c2sFin = rt.c2sFin
      BY <1>1, <3>2 DEF RtType
    <3> HIDE DEF r
    <3> QED BY <1>2, <2>4, <3>3, <3>4
  <2> QED BY <1>3, <2>1, <2>2, <2>3, <2>4 DEF RecvStep
<1>4. ASSUME ActivationStep PROVE Still /\ UNCHANGED <<stdout, stdoutOverlap>>
  <2>1. CASE TakeSnapshot \/ SendReplay \/ SendReplayFails
    <3>1. UNCHANGED <<stdout, stdoutOverlap>> /\ (rt' = rt \/ rt' = DropActive(rt, act.conn))
      BY <2>1 DEF TakeSnapshot, SendReplay, SendReplayFails
    <3> QED BY <1>1, <1>2, <3>1
  <2>2. ASSUME NEW c \in Conns, HelloFails(c) \/ RefuseCommit(c)
        PROVE  Still /\ UNCHANGED <<stdout, stdoutOverlap>>
    BY <2>2 DEF HelloFails, RefuseCommit
  <2>3. ASSUME NEW c \in Conns, CommitActivation(c)
        PROVE  Still /\ UNCHANGED <<stdout, stdoutOverlap>>
    <3> DEFINE f == Head(net.down[c])
    <3>1. /\ UNCHANGED <<stdout, stdoutOverlap>> /\ ~AdvanceC2SAckFails(rt, f.clientToServerRx)
          /\ rt' = [AdvanceC2SAck(rt, f.clientToServerRx) EXCEPT
                      !.active = c, !.session = TRUE, !.epoch = f.epoch]
          /\ net.down[c] # <<>>
      BY <2>3 DEF CommitActivation, CommitRefused, AcceptArrives
    <3>2. f.clientToServerRx \in Nat
      BY <3>1, StreamTypes, ReceivedType, FrameTypesKnown
    <3>3. Window(rt.c2sBuf, rt.c2sBufFrom, rt.c2sAck, rt.c2sNext)
      BY StreamTypes DEF IInv, ClientInv, ClientReplayWindow, Window, RtType
    <3>4. AdvanceC2SAck(rt, f.clientToServerRx) \in RtType
      BY <1>1, <3>1, <3>2, <3>3, AdvanceC2SAckWindow
    <3> HIDE DEF f
    <3> DEFINE r == AdvanceC2SAck(rt, f.clientToServerRx)
    <3>5. r.c2sNext = rt.c2sNext /\ r.c2sFin = rt.c2sFin
      BY <1>1, <1>2
    <3>6. r \in RtType /\ rt' = [r EXCEPT !.active = c, !.session = TRUE, !.epoch = f.epoch]
      BY <3>1, <3>4
    <3> HIDE DEF r
    <3>7. rt'.c2sNext = r.c2sNext /\ rt'.c2sFin = r.c2sFin
      BY <3>6 DEF RtType
    <3> QED BY <3>1, <3>5, <3>7
  <2> QED BY <1>4, <2>1, <2>2, <2>3 DEF ActivationStep
<1>5. ASSUME StdinStep PROVE (StdinRead \/ StdinEOF \/ Still) /\ UNCHANGED <<stdout, stdoutOverlap>>
  <2>1. UNCHANGED <<stdout, stdoutOverlap>>
    BY <1>5 DEF StdinStep, StdinWait, StdinRead, StdinSend, StdinEOF, StdinError, StdinFinTake,
                StdinFinSend, StdinStops
  <2>2. CASE StdinRead \/ StdinEOF
    BY <2>1, <2>2
  <2>3. CASE StdinWait \/ StdinSend \/ StdinError \/ StdinFinTake \/ StdinFinSend \/ StdinStops
    <3>1. rt' = rt \/ \E x : rt' = DropActive(rt, x) \/ rt' = Finish(rt, x)
      BY <2>3 DEF StdinWait, StdinSend, StdinError, StdinFinTake, StdinFinSend, StdinStops, StdinSends
    <3> QED BY <1>1, <1>2, <2>1, <3>1
  <2> QED BY <1>5, <2>2, <2>3 DEF StdinStep
<1>6. ASSUME ReconnectStep \/ Cancel \/ Exit PROVE Still /\ UNCHANGED <<stdout, stdoutOverlap>>
  <2>1. /\ UNCHANGED <<stdout, stdoutOverlap>>
        /\ rt' = rt \/ \E x : rt' = Finish(rt, x)
    BY <1>6 DEF ReconnectStep, CheckDown, DialFails, DeadlineReset, ResumeTimeout, Connect,
                HelloDeadline, Cancel, Exit
  <2> QED BY <1>1, <1>2, <2>1
<1>7. ASSUME NEW c \in Conns, HeartbeatDrop(c) \/ Connect("proxy", c) \/ Connect("switch", c)
      PROVE  Still /\ UNCHANGED <<stdout, stdoutOverlap>>
  <2>1. UNCHANGED <<stdout, stdoutOverlap>> /\ (rt' = rt \/ rt' = DropActive(rt, c))
    BY <1>7 DEF HeartbeatDrop, Connect
  <2> QED BY <1>1, <1>2, <2>1
<1> QED BY <1>3, <1>4, <1>5, <1>6, <1>7 DEF ClientNext

\* And which server steps do.
LEMMA ServerMoves ==
  ASSUME IInv, ServerNext
  PROVE  /\ ReadTarget \/ TargetEOF \/ (sess'.s2cNext = sess.s2cNext /\ sess'.s2cFin = sess.s2cFin)
         /\ UNCHANGED <<target, targetOverlap>>
              \/ \E c \in Conns : FinishTargetWrite(c) \/ TargetWriteFails(c) \/ HandleFin(c)
<1> DEFINE Still == sess'.s2cNext = sess.s2cNext /\ sess'.s2cFin = sess.s2cFin
<1>1. sess \in SessType
  BY StreamTypes
<1>2. /\ \A s \in SessType : \A x : Disconnect(s, x).s2cNext = s.s2cNext /\ Disconnect(s, x).s2cFin = s.s2cFin
      /\ \A s \in SessType : \A x :
           CloseTerminal(s, x).s2cNext = s.s2cNext /\ CloseTerminal(s, x).s2cFin = s.s2cFin
      /\ \A s \in SessType : \A x :
           AdvanceS2CAck(s, x).s2cNext = s.s2cNext /\ AdvanceS2CAck(s, x).s2cFin = s.s2cFin
  BY DEF Disconnect, CloseTerminal, AdvanceS2CAck, SessType
<1>3. ASSUME NEW c \in Conns, HandlerStep(c)
      PROVE  Still /\ (UNCHANGED <<target, targetOverlap>>
                         \/ FinishTargetWrite(c) \/ TargetWriteFails(c) \/ HandleFin(c))
  <2>1. CASE \/ DialTargetFails(c) \/ RefuseResume(c) \/ ResumeTooLate(c) \/ SendReply(c)
             \/ SendReplyFails(c) \/ ServerReadFrame(c) \/ ServerReadError(c) \/ BeginTargetWrite(c)
             \/ DuplicateData(c) \/ MisplacedData(c) \/ DuplicateFin(c) \/ EarlyFin(c)
             \/ HandleAck(c) \/ HandleAckFails(c)
    <3>1. UNCHANGED <<target, targetOverlap>>
      BY <2>1 DEF DialTargetFails, RefuseResume, ResumeTooLate, SendReply, SendReplyFails,
                  ServerReadFrame, ServerReadError, BeginTargetWrite, DuplicateData, MisplacedData,
                  DuplicateFin, EarlyFin, HandleAck, HandleAckFails
    <3>2. \/ sess' = sess
          \/ \E x : \/ sess' = Disconnect(sess, x) \/ sess' = CloseTerminal(sess, x)
                    \/ sess' = AdvanceS2CAck(sess, x)
      BY <2>1 DEF DialTargetFails, RefuseResume, ResumeTooLate, SendReply, SendReplyFails,
                  ServerReadFrame, ServerReadError, BeginTargetWrite, DuplicateData, MisplacedData,
                  DuplicateFin, EarlyFin, HandleAck, HandleAckFails, AnswerAck, ProtocolError
    <3> QED BY <1>1, <1>2, <3>1, <3>2
  <2>2. CASE AcceptNew(c)
    BY <1>1, <2>2 DEF AcceptNew, SessType
  <2>3. CASE Resume(c)
    <3> DEFINE hello == Head(net.up[c])
               s     == AdvanceS2CAck(sess, hello.serverToClientRx)
    <3>1. /\ UNCHANGED <<target, targetOverlap>> /\ net.up[c] # <<>>
          /\ ~AdvanceS2CAckFails(sess, hello.serverToClientRx)
          /\ \E slipped : sess' = [s EXCEPT !.epoch = NextEpoch(sess), !.active = c, !.ttl = "off",
                                            !.callback = @ \/ slipped]
      BY <2>3 DEF Resume, ResumeRefused, HelloArrives
    <3>2. hello.serverToClientRx \in Nat
      BY <3>1, StreamTypes, ReceivedType, FrameTypesKnown
    <3>3. Window(sess.s2cBuf, sess.s2cBufFrom, sess.s2cAck, sess.s2cNext)
      BY StreamTypes DEF IInv, ServerInv, ServerReplayWindow, Window, SessType
    <3>4. s \in SessType
      BY <1>1, <3>1, <3>2, <3>3, AdvanceS2CAckWindow
    <3>5. s.s2cNext = sess.s2cNext /\ s.s2cFin = sess.s2cFin
      BY <1>1, <1>2
    <3> HIDE DEF s
    <3>6. sess'.s2cNext = s.s2cNext /\ sess'.s2cFin = s.s2cFin
      BY <3>1, <3>4 DEF SessType
    <3> QED BY <3>1, <3>5, <3>6
  <2>4. CASE FinishTargetWrite(c)
    <3>1. \E x : sess' = [sess EXCEPT !.c2sRx = x]
      BY <2>4 DEF FinishTargetWrite
    <3> QED BY <1>1, <2>4, <3>1 DEF SessType
  <2>5. CASE TargetWriteFails(c)
    <3>1. PICK k \in 0..(Len(handler[c].frame.payload) - 1) :
            sess' = CloseTerminal([sess EXCEPT !.c2sRx = sess.c2sRx + k], "target_closed")
      BY <2>5 DEF TargetWriteFails
    <3> DEFINE rx == sess.c2sRx + k
               s  == [sess EXCEPT !.c2sRx = rx]
    <3>2. rx \in Nat
      <4>1. handler[c].frame \in Frame /\ sess.c2sRx \in Nat
        BY StreamTypes
      <4>2. Len(handler[c].frame.payload) \in Nat
        BY <4>1, FrameTypesKnown
      <4>3. k \in Nat
        BY <4>2
      <4> QED BY <4>1, <4>3
    <3>3. sess' = CloseTerminal(s, "target_closed")
      BY <3>1
    <3> HIDE DEF rx
    <3>4. s \in SessType /\ s.s2cNext = sess.s2cNext /\ s.s2cFin = sess.s2cFin
      BY <1>1, <3>2 DEF SessType
    <3> HIDE DEF s
    <3> QED BY <1>2, <2>5, <3>3, <3>4
  <2>6. CASE HandleFin(c)
    <3> DEFINE s == [sess EXCEPT !.c2sFin = TRUE]
    <3>1. s \in SessType /\ s.s2cNext = sess.s2cNext /\ s.s2cFin = sess.s2cFin
      BY <1>1 DEF SessType
    <3>2. sess' = s \/ sess' = Disconnect(s, c)
      BY <2>6 DEF HandleFin
    <3> HIDE DEF s
    <3> QED BY <1>2, <2>6, <3>1, <3>2
  <2> QED BY <1>3, <2>1, <2>2, <2>3, <2>4, <2>5, <2>6 DEF HandlerStep
<1>4. ASSUME ReaderStep \/ TimerFires \/ TimerCallback
      PROVE  (ReadTarget \/ TargetEOF \/ Still) /\ UNCHANGED <<target, targetOverlap>>
  <2>1. UNCHANGED <<target, targetOverlap>>
    BY <1>4 DEF ReaderStep, ReadTarget, TargetEOF, SendTargetData, SendTargetFin, ReaderStops,
                TimerFires, TimerCallback
  <2>2. CASE ReadTarget \/ TargetEOF
    BY <2>1, <2>2
  <2>3. CASE SendTargetData \/ SendTargetFin \/ ReaderStops
    <3>1. sess' = sess \/ \E x : sess' = Disconnect(sess, x) \/ sess' = CloseTerminal(sess, x)
      BY <2>3 DEF SendTargetData, SendTargetFin, ReaderStops
    <3> QED BY <1>1, <1>2, <2>1, <3>1
  <2>4. CASE TimerFires
    BY <1>1, <2>1, <2>4 DEF TimerFires, SessType
  <2>5. CASE TimerCallback
    <3> DEFINE s == CloseTerminal(sess, "resume_timeout")
    <3>1. s \in SessType /\ s.s2cNext = sess.s2cNext /\ s.s2cFin = sess.s2cFin
      BY <1>1, <1>2, SessMethods DEF Codes
    <3>2. sess' = [s EXCEPT !.callback = FALSE]
      BY <2>5 DEF TimerCallback
    <3> HIDE DEF s
    <3> QED BY <2>1, <3>1, <3>2 DEF SessType
  <2> QED BY <1>4, <2>2, <2>3, <2>4, <2>5 DEF ReaderStep
<1> QED BY <1>3, <1>4 DEF ServerNext

\* What a write or a fin does to its sink.
LEMMA TargetSinkMoves ==
  ASSUME IInv, NEW c \in Conns, FinishTargetWrite(c) \/ TargetWriteFails(c) \/ HandleFin(c)
  PROVE  /\ targetOverlap => targetOverlap'
         /\ \/ sess.c2sRx <= sess'.c2sRx /\ target'.eof = target.eof
            \/ target'.in = target.in /\ target'.eof = TRUE
<1>1. /\ sess \in SessType /\ sess.c2sRx \in Nat /\ target \in TargetType
      /\ handler[c].frame \in Frame
  BY StreamTypes DEF IInv, ServerInv, ServerTypeOK
<1>2. Len(handler[c].frame.payload) \in Nat
  BY <1>1, FrameTypesKnown
<1>3. targetOverlap => targetOverlap'
  BY DEF FinishTargetWrite, TargetWriteFails, HandleFin
<1>4. CASE FinishTargetWrite(c)
  <2>1. /\ sess'.c2sRx = sess.c2sRx + Len(handler[c].frame.payload)
        /\ target'.eof = target.eof
    BY <1>1, <1>4 DEF FinishTargetWrite, SessType, TargetType
  <2> QED BY <1>1, <1>2, <1>3, <2>1
<1>5. CASE TargetWriteFails(c)
  <2>1. PICK k \in 0..(Len(handler[c].frame.payload) - 1) :
          /\ sess' = CloseTerminal([sess EXCEPT !.c2sRx = sess.c2sRx + k], "target_closed")
          /\ \E p : target' = [target EXCEPT !.in = p]
    BY <1>5 DEF TargetWriteFails
  <2> DEFINE rx == sess.c2sRx + k
             s  == [sess EXCEPT !.c2sRx = rx]
  <2>2. rx \in Nat /\ sess.c2sRx <= rx
    BY <1>1, <1>2
  <2>3. sess' = CloseTerminal(s, "target_closed")
    BY <2>1
  <2> HIDE DEF rx
  <2>4. s \in SessType /\ s.c2sRx = rx
    BY <1>1, <2>2 DEF SessType
  <2> HIDE DEF s
  <2>5. sess'.c2sRx = rx
    BY <2>3, <2>4, SessionsStay DEF Codes, SameSession, SameServed
  <2>6. target'.eof = target.eof
    BY <1>1, <2>1 DEF TargetType
  <2> QED BY <1>3, <2>2, <2>5, <2>6
<1>6. CASE HandleFin(c)
  BY <1>1, <1>3, <1>6 DEF HandleFin, TargetType
<1> QED BY <1>4, <1>5, <1>6

LEMMA StdoutSinkMoves ==
  ASSUME IInv, NEW c \in Conns, FinishStdoutWrite(c) \/ StdoutWriteFails(c) \/ RecvFin(c)
  PROVE  /\ stdoutOverlap => stdoutOverlap'
         /\ \/ rt.s2cRx <= rt'.s2cRx /\ stdout'.eof = stdout.eof
            \/ stdout'.data = stdout.data /\ stdout'.eof = TRUE
<1>1. /\ rt \in RtType /\ rt.s2cRx \in Nat /\ stdout \in StdoutType /\ recv[c].frame \in Frame
  BY StreamTypes DEF IInv, ClientInv, ClientTypeOK
<1>2. Len(recv[c].frame.payload) \in Nat
  BY <1>1, FrameTypesKnown
<1>3. stdoutOverlap => stdoutOverlap'
  BY DEF FinishStdoutWrite, StdoutWriteFails, RecvFin
<1>4. CASE FinishStdoutWrite(c)
  <2>1. rt'.s2cRx = rt.s2cRx + Len(recv[c].frame.payload) /\ stdout'.eof = stdout.eof
    BY <1>1, <1>4 DEF FinishStdoutWrite, RtType, StdoutType
  <2> QED BY <1>1, <1>2, <1>3, <2>1
<1>5. CASE StdoutWriteFails(c)
  <2>1. PICK k \in 0..(Len(recv[c].frame.payload) - 1) :
          /\ rt' = Finish([rt EXCEPT !.s2cRx = rt.s2cRx + k], "stdout_error")
          /\ \E p : stdout' = [stdout EXCEPT !.data = p]
    BY <1>5 DEF StdoutWriteFails
  <2> DEFINE rx == rt.s2cRx + k
             r  == [rt EXCEPT !.s2cRx = rx]
  <2>2. rx \in Nat /\ rt.s2cRx <= rx
    BY <1>1, <1>2
  <2>3. rt' = Finish(r, "stdout_error")
    BY <2>1
  <2> HIDE DEF rx
  <2>4. r \in RtType /\ r.s2cRx = rx
    BY <1>1, <2>2 DEF RtType
  <2> HIDE DEF r
  <2>5. rt'.s2cRx = rx
    BY <2>3, <2>4, OffsetsStay DEF Outcomes, SameOffsets, SameStreams
  <2>6. stdout'.eof = stdout.eof
    BY <1>1, <2>1 DEF StdoutType
  <2> QED BY <1>3, <2>2, <2>5, <2>6
<1>6. CASE RecvFin(c)
  BY <1>1, <1>3, <1>6 DEF RecvFin, StdoutType
<1> QED BY <1>4, <1>5, <1>6

\* stdin to the target, step by step: a read takes bytes, a write or a fin
\* reaches the target, everything else leaves the stream alone.
LEMMA UpwardStep ==
  ASSUME IInv, IInv', StreamInv, StreamInv', [Next]_vars
  PROVE  [Upward!Next]_(Upward!stream)
<1> USE DEF Upward!stream
<1>1. /\ rt \in RtType /\ rt' \in RtType /\ rt.c2sNext \in Nat
      /\ target \in TargetType /\ target' \in TargetType
      /\ targetOverlap \in BOOLEAN /\ targetOverlap' \in BOOLEAN
  BY StreamTypes DEF IInv, ClientInv, ServerInv, ClientTypeOK, ServerTypeOK
<1>2. CASE ClientStep
  <2>1. UNCHANGED <<target, targetOverlap>>
    BY <1>2 DEF ClientStep, serverVars
  <2>2. CASE StdinRead
    <3>1. ~rt.c2sFin
      BY <2>2 DEF StdinRead, StreamInv, StdinEnds
    <3>2. PICK n \in 1..Chunk : rt'.c2sNext = rt.c2sNext + n /\ rt'.c2sFin = rt.c2sFin
      BY <1>1, <2>2 DEF StdinRead, RtType
    <3>3. n \in Nat /\ n >= 1
      BY <3>2, ChunkAssumption
    <3>4. rt'.c2sNext \in Nat /\ rt'.c2sNext > rt.c2sNext
      BY <1>1, <3>2, <3>3
    <3> QED BY <2>1, <3>1, <3>2, <3>4 DEF Upward!Next, Upward!Take
  <2>3. CASE StdinEOF
    <3>1. ~rt.c2sFin
      BY <2>3 DEF StdinEOF, StreamInv, StdinEnds
    <3>2. rt'.c2sNext = rt.c2sNext /\ rt'.c2sFin = TRUE
      BY <1>1, <2>3 DEF StdinEOF, MarkClientFin, RtType
    <3> QED BY <2>1, <3>1, <3>2 DEF Upward!Next, Upward!EndSource
  <2> QED BY <1>2, <2>1, <2>2, <2>3, ClientMoves DEF ClientStep
<1>3. CASE ServerStep
  <2>1. rt' = rt
    BY <1>3 DEF ServerStep, clientVars
  <2>2. CASE UNCHANGED <<target, targetOverlap>>
    BY <2>1, <2>2
  <2>3. ASSUME NEW c \in Conns, FinishTargetWrite(c) \/ TargetWriteFails(c) \/ HandleFin(c)
        PROVE  [Upward!Next]_(Upward!stream)
    <3>1. CASE targetOverlap'
      BY <3>1 DEF Upward!Next, Upward!Tear
    <3>2. CASE ~targetOverlap'
      <4>1. ~targetOverlap /\ targetOverlap' = targetOverlap
        BY <1>1, <2>3, <3>2, TargetSinkMoves
      <4>2. /\ Slice(target.in, 0) /\ Len(target.in) = sess.c2sRx
            /\ target.eof => rt.c2sFin /\ sess.c2sRx = rt.c2sNext
        BY <4>1 DEF StreamInv, TargetInPlace
      <4>3. /\ Slice(target'.in, 0) /\ Len(target'.in) = sess'.c2sRx /\ sess'.c2sRx <= rt.c2sNext
            /\ target'.eof => rt.c2sFin /\ sess'.c2sRx = rt.c2sNext
        BY <2>1, <3>2 DEF StreamInv, TargetInPlace
      <4>4. target.in \in Seq(Nat) /\ target'.in \in Seq(Nat) /\ Len(target.in) \in Nat /\ Len(target'.in) \in Nat
        BY <1>1, LenProperties DEF TargetType
      <4>5. CASE sess.c2sRx <= sess'.c2sRx /\ target'.eof = target.eof
        <5>1. /\ target'.in = [i \in 1..Len(target'.in) |-> IF i <= Len(target.in) THEN target.in[i] ELSE i]
              /\ Len(target.in) = Len(target'.in) => target.in = target'.in
          BY <4>2, <4>3, <4>4, <4>5, PrefixGrows
        <5>2. CASE Len(target.in) = Len(target'.in)
          BY <2>1, <4>1, <4>5, <5>1, <5>2
        <5>3. CASE Len(target.in) # Len(target'.in)
          <6>1. Len(target'.in) > Len(target.in) /\ Len(target'.in) <= rt.c2sNext
            BY <4>2, <4>3, <4>4, <4>5, <5>3
          <6>2. ~target.eof
            BY <1>1, <4>2, <4>4, <6>1
          <6> QED BY <2>1, <4>1, <4>5, <5>1, <6>1, <6>2 DEF Upward!Next, Upward!Deliver
        <5> QED BY <5>2, <5>3
      <4>6. CASE target'.in = target.in /\ target'.eof = TRUE
        <5>1. rt.c2sFin /\ Len(target.in) = rt.c2sNext
          BY <4>3, <4>6
        <5> QED BY <2>1, <4>1, <4>6, <5>1 DEF Upward!Next, Upward!CloseSink
      <4> QED BY <2>3, <4>5, <4>6, TargetSinkMoves
    <3> QED BY <3>1, <3>2
  <2> QED BY <1>3, <2>2, <2>3, ServerMoves DEF ServerStep
<1>4. CASE PathBreaks \/ Terminated \/ UNCHANGED vars
  <2>1. UNCHANGED <<rt, target, targetOverlap>>
    BY <1>4 DEF PathBreaks, Break, Terminated, vars, clientVars, serverVars
  <2> QED BY <2>1
<1> QED BY <1>2, <1>3, <1>4 DEF Next

\* The target to stdout, likewise.
LEMMA DownwardStep ==
  ASSUME IInv, IInv', StreamInv, StreamInv', [Next]_vars
  PROVE  [Downward!Next]_(Downward!stream)
<1> USE DEF Downward!stream
<1>1. /\ sess \in SessType /\ sess' \in SessType /\ sess.s2cNext \in Nat
      /\ stdout \in StdoutType /\ stdout' \in StdoutType
      /\ stdoutOverlap \in BOOLEAN /\ stdoutOverlap' \in BOOLEAN
  BY StreamTypes DEF IInv, ClientInv, ServerInv, ClientTypeOK, ServerTypeOK
<1>2. CASE ServerStep
  <2>1. UNCHANGED <<stdout, stdoutOverlap>>
    BY <1>2 DEF ServerStep, clientVars
  <2>2. CASE ReadTarget
    <3>1. ~sess.s2cFin
      BY <2>2 DEF ReadTarget, StreamInv, TargetEnds
    <3>2. PICK n \in 1..Chunk : sess'.s2cNext = sess.s2cNext + n /\ sess'.s2cFin = sess.s2cFin
      BY <1>1, <2>2 DEF ReadTarget, SessType
    <3>3. n \in Nat /\ n >= 1
      BY <3>2, ChunkAssumption
    <3>4. sess'.s2cNext \in Nat /\ sess'.s2cNext > sess.s2cNext
      BY <1>1, <3>2, <3>3
    <3> QED BY <2>1, <3>1, <3>2, <3>4 DEF Downward!Next, Downward!Take
  <2>3. CASE TargetEOF
    <3>1. ~sess.s2cFin
      BY <2>3 DEF TargetEOF, StreamInv, TargetEnds
    <3>2. sess'.s2cNext = sess.s2cNext /\ sess'.s2cFin = TRUE
      BY <1>1, <2>3 DEF TargetEOF, SessType
    <3> QED BY <2>1, <3>1, <3>2 DEF Downward!Next, Downward!EndSource
  <2> QED BY <1>2, <2>1, <2>2, <2>3, ServerMoves DEF ServerStep
<1>3. CASE ClientStep
  <2>1. sess' = sess
    BY <1>3 DEF ClientStep, serverVars
  <2>2. CASE UNCHANGED <<stdout, stdoutOverlap>>
    BY <2>1, <2>2
  <2>3. ASSUME NEW c \in Conns, FinishStdoutWrite(c) \/ StdoutWriteFails(c) \/ RecvFin(c)
        PROVE  [Downward!Next]_(Downward!stream)
    <3>1. CASE stdoutOverlap'
      BY <3>1 DEF Downward!Next, Downward!Tear
    <3>2. CASE ~stdoutOverlap'
      <4>1. ~stdoutOverlap /\ stdoutOverlap' = stdoutOverlap
        BY <1>1, <2>3, <3>2, StdoutSinkMoves
      <4>2. /\ Slice(stdout.data, 0) /\ Len(stdout.data) = rt.s2cRx
            /\ stdout.eof => sess.s2cFin /\ rt.s2cRx = sess.s2cNext
        BY <4>1 DEF StreamInv, StdoutInPlace
      <4>3. /\ Slice(stdout'.data, 0) /\ Len(stdout'.data) = rt'.s2cRx /\ rt'.s2cRx <= sess.s2cNext
            /\ stdout'.eof => sess.s2cFin /\ rt'.s2cRx = sess.s2cNext
        BY <2>1, <3>2 DEF StreamInv, StdoutInPlace
      <4>4. stdout.data \in Seq(Nat) /\ stdout'.data \in Seq(Nat)
            /\ Len(stdout.data) \in Nat /\ Len(stdout'.data) \in Nat
        BY <1>1, LenProperties DEF StdoutType
      <4>5. CASE rt.s2cRx <= rt'.s2cRx /\ stdout'.eof = stdout.eof
        <5>1. /\ stdout'.data = [i \in 1..Len(stdout'.data) |->
                                   IF i <= Len(stdout.data) THEN stdout.data[i] ELSE i]
              /\ Len(stdout.data) = Len(stdout'.data) => stdout.data = stdout'.data
          BY <4>2, <4>3, <4>4, <4>5, PrefixGrows
        <5>2. CASE Len(stdout.data) = Len(stdout'.data)
          BY <2>1, <4>1, <4>5, <5>1, <5>2
        <5>3. CASE Len(stdout.data) # Len(stdout'.data)
          <6>1. Len(stdout'.data) > Len(stdout.data) /\ Len(stdout'.data) <= sess.s2cNext
            BY <4>2, <4>3, <4>4, <4>5, <5>3
          <6>2. ~stdout.eof
            BY <1>1, <4>2, <4>4, <6>1
          <6> QED BY <2>1, <4>1, <4>5, <5>1, <6>1, <6>2 DEF Downward!Next, Downward!Deliver
        <5> QED BY <5>2, <5>3
      <4>6. CASE stdout'.data = stdout.data /\ stdout'.eof = TRUE
        <5>1. sess.s2cFin /\ Len(stdout.data) = sess.s2cNext
          BY <4>3, <4>6
        <5> QED BY <2>1, <4>1, <4>6, <5>1 DEF Downward!Next, Downward!CloseSink
      <4> QED BY <2>3, <4>5, <4>6, StdoutSinkMoves
    <3> QED BY <3>1, <3>2
  <2> QED BY <1>3, <2>2, <2>3, ClientMoves DEF ClientStep
<1>4. CASE PathBreaks \/ Terminated \/ UNCHANGED vars
  <2>1. UNCHANGED <<sess, stdout, stdoutOverlap>>
    BY <1>4 DEF PathBreaks, Break, Terminated, vars, clientVars, serverVars
  <2> QED BY <2>1
<1> QED BY <1>2, <1>3, <1>4 DEF Next

\* stdin reaches the target as ByteStream promises: stdinLoop's reads take
\* bytes, handleClientData and handleClientFin deliver them, and no break,
\* replay, switch or late frame is anything but a stutter of the stream.
THEOREM UpwardImplements == Spec => StdinReachesTarget
<1>1. Init => Upward!Init
  <2> SUFFICES ASSUME Init PROVE Upward!Init
    OBVIOUS
  <2>1. /\ rt.c2sNext = 0 /\ rt.c2sFin = FALSE
        /\ target.in = <<>> /\ target.eof = FALSE /\ targetOverlap = FALSE
    BY DEF Init, ClientInit, ServerInit
  <2> QED BY <2>1 DEF Upward!Init
<1>2. IInv /\ IInv' /\ StreamInv /\ StreamInv' /\ [Next]_vars => [Upward!Next]_(Upward!stream)
  BY UpwardStep
<1> QED BY <1>1, <1>2, Invariance, StreamsInvariant, PTL DEF Spec, StdinReachesTarget, Upward!Spec

\* What the target sends reaches stdout as ByteStream promises: readTarget's
\* reads take bytes, handleServerData and handleServerFin deliver them.
THEOREM DownwardImplements == Spec => TargetReachesStdout
<1>1. Init => Downward!Init
  <2> SUFFICES ASSUME Init PROVE Downward!Init
    OBVIOUS
  <2>1. /\ sess.s2cNext = 0 /\ sess.s2cFin = FALSE
        /\ stdout.data = <<>> /\ stdout.eof = FALSE /\ stdoutOverlap = FALSE
    BY DEF Init, ClientInit, ServerInit
  <2> QED BY <2>1 DEF Downward!Init
<1>2. IInv /\ IInv' /\ StreamInv /\ StreamInv' /\ [Next]_vars => [Downward!Next]_(Downward!stream)
  BY DownwardStep
<1> QED BY <1>1, <1>2, Invariance, StreamsInvariant, PTL DEF Spec, TargetReachesStdout, Downward!Spec
=============================================================================
