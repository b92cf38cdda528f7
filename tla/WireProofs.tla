------------------------------ MODULE WireProofs ------------------------------
(***************************************************************************)
(* Facts about the operators of Wire: what they build is well typed, and   *)
(* a replay buffer that loses an acknowledged prefix or gains what was     *)
(* just read is still a slice of its stream.                               *)
(***************************************************************************)
EXTENDS Wire, SequenceTheorems, TLAPS

-----------------------------------------------------------------------------
(* Frames. *)

\* NoFrame and every frame that either end builds is a Frame.
LEMMA NoFrameType == NoFrame \in Frame
BY DEF NoFrame, Frame, FrameTypes, Codes

LEMMA HelloType ==
  ASSUME NEW resume \in BOOLEAN, NEW a \in Nat, NEW b \in Nat
  PROVE  Hello(resume, a, b) \in Frame
BY NoFrameType DEF Hello, Frame, FrameTypes, Codes

LEMMA AcceptType ==
  ASSUME NEW epoch \in Nat, NEW a \in Nat, NEW b \in Nat
  PROVE  Accept(epoch, a, b) \in Frame
BY NoFrameType DEF Accept, Frame, FrameTypes, Codes

LEMMA DataType ==
  ASSUME NEW epoch \in Nat, NEW offset \in Nat, NEW payload \in Seq(Nat)
  PROVE  Data(epoch, offset, payload) \in Frame
BY NoFrameType DEF Data, Frame, FrameTypes, Codes

LEMMA OffsetFrameType ==
  ASSUME NEW epoch \in Nat, NEW offset \in Nat
  PROVE  Ack(epoch, offset) \in Frame /\ Fin(epoch, offset) \in Frame
BY NoFrameType DEF Ack, Fin, Frame, FrameTypes, Codes

LEMMA EndFrameType ==
  ASSUME NEW epoch \in Nat, NEW code \in Codes
  PROVE  Close(epoch, code) \in Frame /\ Error \in Frame
BY NoFrameType DEF Close, Error, Frame, FrameTypes, Codes

\* A replay buffer is cut into frames, whatever its length.
LEMMA DataChunksType ==
  ASSUME NEW epoch \in Nat, NEW offset \in Nat, NEW buf \in Seq(Nat)
  PROVE  DataChunks(epoch, offset, buf) \in Seq(Frame)
<1> DEFINE n == (Len(buf) + MaxPayload - 1) \div MaxPayload
           from(i) == (i - 1) * MaxPayload
           upto(i) == IF from(i) + MaxPayload < Len(buf) THEN from(i) + MaxPayload ELSE Len(buf)
<1>1. n \in Nat
  BY MaxPayloadAssumption
<1>2. ASSUME NEW i \in 1..n
      PROVE  Data(epoch, offset + from(i), SubSeq(buf, from(i) + 1, upto(i))) \in Frame
  <2>1. from(i) \in Nat
    BY <1>1, <1>2, MaxPayloadAssumption
  <2>2. upto(i) \in Nat /\ upto(i) <= Len(buf)
    BY <2>1, MaxPayloadAssumption
  <2> HIDE DEF from, upto
  <2>3. SubSeq(buf, from(i) + 1, upto(i)) \in Seq(Nat)
    BY <2>1, <2>2
  <2>4. offset + from(i) \in Nat
    BY <2>1
  <2> QED BY <2>3, <2>4, DataType
<1>3. DataChunks(epoch, offset, buf)
        = [i \in 1..n |-> Data(epoch, offset + from(i), SubSeq(buf, from(i) + 1, upto(i)))]
  BY DEF DataChunks
<1> HIDE DEF n, from, upto
<1> QED BY <1>1, <1>2, <1>3

-----------------------------------------------------------------------------
(* Connections. *)

\* Taking the first frame of a list of replies leaves a list, which is empty
\* only if that was the last one.
LEMMA TailLeft ==
  ASSUME NEW q \in Seq(Frame), q # <<>>
  PROVE  /\ Head(q) \in Frame
         /\ Tail(q) \in Seq(Frame)
         /\ Len(q) # 1 => Tail(q) # <<>>
<1>1. Len(Tail(q)) = Len(q) - 1 /\ Head(q) \in Frame /\ Tail(q) \in Seq(Frame)
  BY HeadTailProperties
<1>2. ASSUME Tail(q) = <<>> PROVE Len(q) = 1
  <2>1. Len(Tail(q)) = 0
    BY <1>2, EmptySeq
  <2>2. Len(q) \in Nat
    BY LenProperties
  <2> QED BY <1>1, <2>1, <2>2, SMTT(30)
<1> QED BY <1>1, <1>2

\* Dialling, closing and breaking a connection keep the network well typed.
LEMMA ConnectionType ==
  ASSUME NEW n \in NetType, NEW c \in Conns
  PROVE  /\ Open(n, c) \in NetType
         /\ ClientClose(n, c) \in NetType
         /\ ServerClose(n, c) \in NetType
<1> <<>> \in Seq(Frame)
  OBVIOUS
<1>1. Open(n, c) \in NetType
  BY DEF NetType, Open, Ends
<1>2. ClientClose(n, c) \in NetType
  BY DEF NetType, ClientClose, Ends
<1>3. ServerClose(n, c) \in NetType
  BY DEF NetType, ServerClose, Ends
<1> QED BY <1>1, <1>2, <1>3

\* So does sending a frame, whether or not the connection carries it.
LEMMA SendType ==
  ASSUME NEW n \in NetType, NEW c \in Conns, NEW f \in Frame
  PROVE  ClientSend(n, c, f) \in NetType /\ ServerSend(n, c, f) \in NetType
<1>1. Append(n.up[c], f) \in Seq(Frame) /\ Append(n.down[c], f) \in Seq(Frame)
  BY DEF NetType
<1> QED BY <1>1 DEF NetType, ClientSend, ServerSend

\* And reading one: what is read is a Frame.
LEMMA ReceivedType ==
  ASSUME NEW n \in NetType, NEW c \in Conns
  PROVE  /\ n.down[c] # <<>> => Head(n.down[c]) \in Frame /\ ClientRecv(n, c) \in NetType
         /\ n.up[c] # <<>> => Head(n.up[c]) \in Frame /\ ServerRecv(n, c) \in NetType
<1>1. n.down[c] \in Seq(Frame) /\ n.up[c] \in Seq(Frame)
  BY DEF NetType
<1>2. n.down[c] # <<>> => Head(n.down[c]) \in Frame /\ Tail(n.down[c]) \in Seq(Frame)
  BY <1>1, TailLeft
<1>3. n.up[c] # <<>> => Head(n.up[c]) \in Frame /\ Tail(n.up[c]) \in Seq(Frame)
  BY <1>1, TailLeft
<1> QED BY <1>2, <1>3 DEF NetType, ClientRecv, ServerRecv

\* Which operators move the client's ends: its own dialling and closing, of
\* the connection they name, and nothing that the server does.
LEMMA ClientEnds ==
  ASSUME NEW n \in NetType, NEW c \in Conns
  PROVE  /\ Open(n, c).clientEnd = [n.clientEnd EXCEPT ![c] = "open"]
         /\ ClientClose(n, c).clientEnd = [n.clientEnd EXCEPT ![c] = "closed"]
         /\ ClientRecv(n, c).clientEnd = n.clientEnd
         /\ ServerRecv(n, c).clientEnd = n.clientEnd
         /\ ServerClose(n, c).clientEnd = n.clientEnd
BY DEF NetType, Open, ClientClose, ClientRecv, ServerRecv, ServerClose

LEMMA SendEnds ==
  ASSUME NEW n \in NetType, NEW c \in Conns, NEW f \in Frame
  PROVE  /\ ClientSend(n, c, f).clientEnd = n.clientEnd
         /\ ServerSend(n, c, f).clientEnd = n.clientEnd
BY DEF NetType, ClientSend, ServerSend

\* A path that dies.
LEMMA BreakType ==
  ASSUME net \in NetType, NEW c \in Conns, Break(c)
  PROVE  net' \in NetType /\ net'.clientEnd = net.clientEnd
<1> <<>> \in Seq(Frame)
  OBVIOUS
<1>1. /\ net'.up = [net.up EXCEPT ![c] = <<>>]
      /\ net'.down = [net.down EXCEPT ![c] = <<>>]
      /\ net'.broken = net.broken \cup {c}
      /\ net'.clientEnd = net.clientEnd
  BY DEF NetType, Break
<1> QED BY <1>1 DEF NetType, Break

-----------------------------------------------------------------------------
(* Replay buffers.  Window says of a buffer what ClientReplayWindow and       *)
(* ServerReplayWindow say of the two ends' buffers.                           *)

Window(buf, bufFrom, ack, next) ==
  /\ buf \in Seq(Nat) /\ bufFrom \in Nat /\ ack \in Nat /\ next \in Nat
  /\ bufFrom = ack
  /\ ack + Len(buf) = next
  /\ Slice(buf, ack)

\* advanceC2SAckLocked and advanceS2CAckLocked: an accepted acknowledgement
\* drops its bytes from the front.
LEMMA WindowAcked ==
  ASSUME NEW buf, NEW bufFrom, NEW ack, NEW next, Window(buf, bufFrom, ack, next),
         NEW offset \in Nat, offset >= ack, offset <= next
  PROVE  /\ Window(SubSeq(buf, offset - bufFrom + 1, Len(buf)), offset, offset, next)
         /\ Len(SubSeq(buf, offset - bufFrom + 1, Len(buf))) <= Len(buf)
<1> DEFINE k == offset - bufFrom
           rest == SubSeq(buf, k + 1, Len(buf))
<1>1. k \in Nat /\ k <= Len(buf) /\ Len(buf) \in Nat
  BY DEF Window
<1>2. buf \in Seq(Nat) /\ offset = ack + k /\ ack \in Nat /\ ack + Len(buf) = next
  BY DEF Window
<1> HIDE DEF k
<1>3. rest \in Seq(Nat) /\ Len(rest) = Len(buf) - k /\ \A i \in 1..Len(rest) : rest[i] = buf[i + k]
  BY <1>1, <1>2
<1> HIDE DEF rest
<1>4. Slice(rest, offset)
  <2> SUFFICES ASSUME NEW i \in DOMAIN rest PROVE rest[i] = offset + i
    BY DEF Slice
  <2>1. i \in 1..Len(rest) /\ i \in Nat
    BY <1>3
  <2>2. i + k \in 1..Len(buf)
    BY <1>1, <1>3, <2>1
  <2>3. buf[i + k] = ack + (i + k)
    BY <1>2, <2>2 DEF Window, Slice
  <2>4. rest[i] = buf[i + k]
    BY <1>3, <2>1
  <2> QED BY <1>1, <1>2, <2>1, <2>3, <2>4
<1>5. offset + Len(rest) = next
  BY <1>1, <1>2, <1>3
<1>6. Window(rest, offset, offset, next)
  BY <1>3, <1>4, <1>5 DEF Window
<1> QED BY <1>1, <1>3, <1>6 DEF k, rest

\* Two slices that follow each other make one.
LEMMA SliceConcat ==
  ASSUME NEW s \in Seq(Nat), NEW t \in Seq(Nat), NEW o \in Nat,
         Slice(s, o), Slice(t, o + Len(s))
  PROVE  Slice(s \o t, o)
<1>1. /\ Len(s \o t) = Len(s) + Len(t) /\ s \o t \in Seq(Nat)
      /\ \A i \in 1..(Len(s) + Len(t)) :
           (s \o t)[i] = IF i <= Len(s) THEN s[i] ELSE t[i - Len(s)]
  BY ConcatProperties
<1> SUFFICES ASSUME NEW i \in 1..(Len(s) + Len(t)) PROVE (s \o t)[i] = o + i
  BY <1>1 DEF Slice
<1>2. CASE i <= Len(s)
  BY <1>1, <1>2 DEF Slice
<1>3. CASE ~(i <= Len(s))
  <2>1. i - Len(s) \in DOMAIN t
    BY <1>3
  <2>2. t[i - Len(s)] = (o + Len(s)) + (i - Len(s))
    BY <2>1 DEF Slice
  <2> QED BY <1>1, <1>3, <2>2
<1> QED BY <1>2, <1>3

\* appendClientBytes and appendServerBytes: the bytes just read, whose
\* positions follow next, go to the end.
LEMMA WindowGrows ==
  ASSUME NEW buf, NEW bufFrom, NEW ack, NEW next, Window(buf, bufFrom, ack, next), NEW n \in Nat,
         NEW bytes, bytes = [i \in 1..n |-> next + i]
  PROVE  /\ bytes \in Seq(Nat)
         /\ Len(buf \o bytes) = Len(buf) + n
         /\ Window(buf \o bytes, bufFrom, ack, next + n)
<1>1. bytes \in Seq(Nat) /\ Len(bytes) = n /\ Slice(bytes, next)
  BY DEF Window, Slice
<1>2. buf \in Seq(Nat) /\ ack \in Nat /\ ack + Len(buf) = next /\ Slice(buf, ack)
  BY DEF Window
<1>3. buf \o bytes \in Seq(Nat) /\ Len(buf \o bytes) = Len(buf) + n
  BY <1>1, <1>2, ConcatProperties
<1>4. Slice(buf \o bytes, ack)
  BY <1>1, <1>2, SliceConcat
<1> QED BY <1>1, <1>2, <1>3, <1>4, SMTT(30) DEF Window
=============================================================================
