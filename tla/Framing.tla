------------------------------ MODULE Framing ------------------------------
(***************************************************************************)
(* The envelope of a frame: two lengths, a JSON header and a payload in    *)
(* one WebSocket message.  writeFrame builds what readFrame takes apart;   *)
(* readFrame also gets what another program sends.  Bytes are counted; the *)
(* lengths in the envelope are unsigned and of a fixed width.              *)
(***************************************************************************)
EXTENDS Naturals

CONSTANTS
  MaxHeaderBytes, MaxPayloadBytes,
  LengthLimit,                \* 2^32: the lengths are uint32
  HeaderSizes, PayloadSizes,  \* bound: the sizes that writeFrame is asked for
  MessageSizes, Lengths       \* bound: what another program may send

EnvelopeBytes == 8

ASSUME FramingAssumption ==
  /\ MaxHeaderBytes \in Nat /\ MaxPayloadBytes \in Nat /\ LengthLimit \in Nat
  /\ MaxHeaderBytes < LengthLimit /\ MaxPayloadBytes < LengthLimit
  /\ HeaderSizes \subseteq Nat \ {0} /\ PayloadSizes \subseteq Nat
  /\ MessageSizes \subseteq Nat /\ Lengths \subseteq 0..(LengthLimit - 1)

VARIABLES
  outgoing,  \* the arguments of writeFrame
  message,   \* a WebSocket message
  incoming   \* the result of readFrame

frameVars == <<outgoing, message, incoming>>

Nothing == [is |-> "nothing"]

\* What a header says; "other" is any type but "data", "bad" is no header.
HeaderTypes == {"", "data", "other"}
OutgoingType == [is : {"frame"}, type : HeaderTypes, header : HeaderSizes, payload : PayloadSizes]
MessageType == [is : {"message"}, size : Nat, headerLen : Nat, payloadLen : Nat,
                type : HeaderTypes \cup {"bad"}]

\* writeFrame's checks.
WriteRefused(f) ==
  \/ f.type = ""
  \/ f.type # "data" /\ f.payload # 0
  \/ f.payload > MaxPayloadBytes
  \/ f.header > MaxHeaderBytes

Encode(f) ==
  [is |-> "message", size |-> EnvelopeBytes + f.header + f.payload,
   headerLen |-> f.header % LengthLimit, payloadLen |-> f.payload % LengthLimit, type |-> f.type]

Error(m) == [is |-> "error", type |-> "", header |-> 0, payload |-> 0]

\* Mutant of LengthsFit: the longest header is refused.
LengthsFitBelow(m) ==
  /\ m.headerLen < MaxHeaderBytes /\ m.payloadLen <= MaxPayloadBytes
  /\ m.size = EnvelopeBytes + m.headerLen + m.payloadLen
LengthsFit(m) ==
  /\ m.headerLen <= MaxHeaderBytes /\ m.payloadLen <= MaxPayloadBytes
  /\ m.size = EnvelopeBytes + m.headerLen + m.payloadLen

\* The lengths of a message that is shorter than an envelope are not looked at.
ReadRefused(m) ==
  \/ m.size < EnvelopeBytes
  \/ ~LengthsFit(m)
  \/ m.type \in {"bad", ""}
  \/ m.type # "data" /\ m.payloadLen # 0

\* The payload is what comes after the header.
Decode(m) ==
  IF ReadRefused(m) THEN Error(m)
  ELSE [is |-> "frame", type |-> m.type, header |-> m.headerLen,
        payload |-> m.size - EnvelopeBytes - m.headerLen]

FramingInit ==
  /\ outgoing \in OutgoingType
  /\ message = Nothing /\ incoming = Nothing

WriteFrame ==
  /\ message = Nothing
  /\ ~WriteRefused(outgoing)
  /\ message' = Encode(outgoing)
  /\ UNCHANGED <<outgoing, incoming>>

AnotherProgramWrites ==
  /\ message = Nothing
  /\ \E s \in MessageSizes, h, p \in Lengths, t \in HeaderTypes \cup {"bad"} :
       /\ h = 0 => t = "bad"
       /\ message' = [is |-> "message", size |-> s, headerLen |-> h, payloadLen |-> p, type |-> t]
  /\ outgoing' = Nothing
  /\ UNCHANGED incoming

ReadFrame ==
  /\ message # Nothing /\ incoming = Nothing
  /\ incoming' = Decode(message)
  /\ UNCHANGED <<outgoing, message>>

FramingNext == WriteFrame \/ AnotherProgramWrites \/ ReadFrame

FramingSpec == FramingInit /\ [][FramingNext]_frameVars

-----------------------------------------------------------------------------
FramingTypeOK ==
  /\ outgoing \in OutgoingType \cup {Nothing}
  /\ message \in MessageType \cup {Nothing}
  /\ incoming.is \in {"nothing", "error", "frame"}

\* The two ends agree to the byte about what is a frame, at the limits, too:
\* every frame that writeFrame sends is read as it was written, and what
\* readFrame takes from anybody is one that writeFrame would have sent.
EndsAgree ==
  /\ incoming # Nothing /\ outgoing # Nothing => incoming = outgoing
  /\ incoming # Nothing /\ incoming.is = "frame" =>
       ~WriteRefused(incoming) /\ Encode(incoming) = message
=============================================================================
