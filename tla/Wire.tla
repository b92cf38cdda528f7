-------------------------------- MODULE Wire --------------------------------
(***************************************************************************)
(* The frames of protocol.go and the WebSocket connections they travel on. *)
(*                                                                         *)
(* A connection is a pair of reliable FIFO queues.  It can be closed from  *)
(* either end, or break: a broken connection loses what is in flight and   *)
(* carries nothing more, without telling either end.  Everything is kept   *)
(* in one record so that a handler that sends, closes and sends again      *)
(* composes operators on that record.                                      *)
(*                                                                         *)
(* A byte of a stream is its 1-based position in the stream, so a run of   *)
(* bytes that belongs at an offset can be told from one that does not.     *)
(***************************************************************************)
EXTENDS Naturals, Sequences

CONSTANTS
  Conns,        \* the connections that can ever be dialled (each is used once)
  None,         \* Go's nil *clientConn / *serverConn
  MaxPayload,   \* maxPayloadBytes
  BufferBytes,  \* resume.buffer_bytes, of both ends
  Chunk,        \* dataChunkBytes, the most one Read returns
  Events        \* bound: which of EventKinds the environment may produce

ASSUME NoneAssumption == None \notin Conns
ASSUME MaxPayloadAssumption == MaxPayload \in Nat \ {0}
ASSUME BufferBytesAssumption == BufferBytes \in Nat \ {0}
ASSUME ChunkAssumption == Chunk \in Nat \ {0} /\ Chunk <= MaxPayload

\* What the programs do not decide themselves: a path that dies, a lost
\* heartbeat, a better path, a canceled context, and every way in which the
\* two byte streams end or fail.
EventKinds == {"break", "heartbeat", "switch", "cancel",
               "stdin_eof", "stdin_error", "stdout_error",
               "target_eof", "target_error", "dial_error"}
ASSUME EventsAssumption == Events \subseteq EventKinds

VARIABLE net

FrameTypes == {"", "hello", "accept", "data", "ack", "fin", "close", "error"}
Codes == {"", "normal", "target_closed", "resume_timeout", "protocol_error"}
Ends == {"none", "open", "closed"}

\* frameHeader plus its payload.  There is one session, so SessionID is left
\* out; a queue has one direction, so Direction is.  An ack's ReceivedOffset
\* is carried in the field offset.
Frame == [type             : FrameTypes,
          resume           : BOOLEAN,
          epoch            : Nat,
          offset           : Nat,
          clientToServerRx : Nat,
          serverToClientRx : Nat,
          code             : Codes,
          payload          : Seq(Nat)]

\* Go's zero frameHeader; also what a loop that holds no frame holds.
NoFrame == [type |-> "", resume |-> FALSE, epoch |-> 0, offset |-> 0,
            clientToServerRx |-> 0, serverToClientRx |-> 0,
            code |-> "", payload |-> <<>>]

Hello(resume, c2sAck, s2cRx) ==
  [NoFrame EXCEPT !.type = "hello", !.resume = resume,
                  !.clientToServerRx = c2sAck, !.serverToClientRx = s2cRx]
\* Mutant of Accept: built before the epoch is advanced.
AcceptOldEpoch(epoch, c2sRx, s2cAck) ==
  [NoFrame EXCEPT !.type = "accept", !.epoch = epoch - 1,
                  !.clientToServerRx = c2sRx, !.serverToClientRx = s2cAck]
Accept(epoch, c2sRx, s2cAck) ==
  [NoFrame EXCEPT !.type = "accept", !.epoch = epoch,
                  !.clientToServerRx = c2sRx, !.serverToClientRx = s2cAck]
Data(epoch, offset, payload) ==
  [NoFrame EXCEPT !.type = "data", !.epoch = epoch, !.offset = offset, !.payload = payload]
Ack(epoch, received) == [NoFrame EXCEPT !.type = "ack", !.epoch = epoch, !.offset = received]
Fin(epoch, offset) == [NoFrame EXCEPT !.type = "fin", !.epoch = epoch, !.offset = offset]
Close(epoch, code) == [NoFrame EXCEPT !.type = "close", !.epoch = epoch, !.code = code]
\* Both send functions leave SessionID and Epoch of an error frame empty.
Error == [NoFrame EXCEPT !.type = "error", !.code = "protocol_error"]

\* s holds exactly the bytes of its stream that follow the first o.
Slice(s, o) == \A i \in DOMAIN s : s[i] = o + i

\* Mutant of DataChunks: the loop forgets to move on in the buffer.
DataChunksSameBytes(epoch, offset, buf) ==
  [i \in 1..((Len(buf) + MaxPayload - 1) \div MaxPayload) |->
     LET from == (i - 1) * MaxPayload
         upto == IF from + MaxPayload < Len(buf) THEN from + MaxPayload ELSE Len(buf)
     IN  Data(epoch, offset + from, SubSeq(buf, 1, upto - from))]

\* A buffer cut into data frames of at most MaxPayload bytes, as the loops of
\* sendDataChunks and replayClientBytes cut it.
DataChunks(epoch, offset, buf) ==
  [i \in 1..((Len(buf) + MaxPayload - 1) \div MaxPayload) |->
     LET from == (i - 1) * MaxPayload
         upto == IF from + MaxPayload < Len(buf) THEN from + MaxPayload ELSE Len(buf)
     IN  Data(epoch, offset + from, SubSeq(buf, from + 1, upto))]

-----------------------------------------------------------------------------
(* Connections (golang.org/x/net/websocket over TCP). *)

NetType == [up        : [Conns -> Seq(Frame)],   \* client to server
            down      : [Conns -> Seq(Frame)],   \* server to client
            clientEnd : [Conns -> Ends],
            serverEnd : [Conns -> Ends],
            broken    : SUBSET Conns]

NetInit == net = [up        |-> [c \in Conns |-> <<>>],
                  down      |-> [c \in Conns |-> <<>>],
                  clientEnd |-> [c \in Conns |-> "none"],
                  serverEnd |-> [c \in Conns |-> "none"],
                  broken    |-> {}]

Carries(n, c) == n.clientEnd[c] = "open" /\ n.serverEnd[c] = "open" /\ c \notin n.broken

\* A completed dial and WebSocket handshake.
Open(n, c) == [n EXCEPT !.clientEnd[c] = "open", !.serverEnd[c] = "open"]

\* A frame written to a connection that no longer carries is lost; whether
\* the write reports it is a matter of the socket buffers (see ClientSendMayFail).
ClientSend(n, c, f) == IF Carries(n, c) THEN [n EXCEPT !.up[c] = Append(@, f)] ELSE n
ServerSend(n, c, f) == IF Carries(n, c) THEN [n EXCEPT !.down[c] = Append(@, f)] ELSE n

ClientSendMaySucceed(n, c) == n.clientEnd[c] = "open"
ServerSendMaySucceed(n, c) == n.serverEnd[c] = "open"
ClientSendMayFail(n, c) == ~Carries(n, c)
ServerSendMayFail(n, c) == ~Carries(n, c)

ClientRecv(n, c) == [n EXCEPT !.down[c] = Tail(@)]
ServerRecv(n, c) == [n EXCEPT !.up[c] = Tail(@)]

\* ws.Close: what the closing end has not read yet is gone; what it has sent
\* is still delivered.  A closed connection need not be remembered as broken:
\* it carries nothing and the other end's read fails all the same.
ClientClose(n, c) ==
  [n EXCEPT !.clientEnd[c] = "closed", !.down[c] = <<>>, !.broken = @ \ {c}]
ServerClose(n, c) ==
  [n EXCEPT !.serverEnd[c] = "closed", !.up[c] = <<>>, !.broken = @ \ {c}]

\* readFrame returns an error: this end was closed under the reader, or the
\* other end or the path is gone and everything that arrived has been read.
ClientReadFails(n, c) ==
  \/ n.clientEnd[c] = "closed"
  \/ /\ n.clientEnd[c] = "open" /\ n.down[c] = <<>>
     /\ n.serverEnd[c] = "closed" \/ c \in n.broken
ServerReadFails(n, c) ==
  \/ n.serverEnd[c] = "closed"
  \/ /\ n.serverEnd[c] = "open" /\ n.up[c] = <<>>
     /\ n.clientEnd[c] = "closed" \/ c \in n.broken

\* The path under a connection dies: a killed tunnel, a roaming client.
Break(c) ==
  /\ "break" \in Events
  /\ Carries(net, c)
  /\ net' = [net EXCEPT !.broken = @ \cup {c}, !.up[c] = <<>>, !.down[c] = <<>>]

\* The frames in flight in each direction.
InUp(n) == UNION {{n.up[c][i] : i \in DOMAIN n.up[c]} : c \in Conns}
InDown(n) == UNION {{n.down[c][i] : i \in DOMAIN n.down[c]} : c \in Conns}
=============================================================================
