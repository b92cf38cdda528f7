----------------------------- MODULE PartsProofs -----------------------------
(***************************************************************************)
(* The small components: what travels in an envelope, how a heartbeat      *)
(* ends, what a dial leaves behind, the cache file of several proxies, the *)
(* server's table of sessions, and the keys of a configuration file; for   *)
(* any sizes, nonces, addresses, processes, connections and lines.         *)
(***************************************************************************)
EXTENDS Framing, Heartbeat, Dial, PathCache, SessionTable, Config,
        FiniteSetTheorems, SequenceTheorems, TLAPS

-----------------------------------------------------------------------------
(* Framing. *)

LEMMA FitsWidth ==
  ASSUME NEW n \in Nat, NEW L \in Nat, n < L
  PROVE  n % L = n
  OBVIOUS

LEMMA Limits ==
  /\ MaxHeaderBytes \in Nat /\ MaxPayloadBytes \in Nat /\ LengthLimit \in Nat
  /\ MaxHeaderBytes < LengthLimit /\ MaxPayloadBytes < LengthLimit
  BY FramingAssumption

\* A frame that writeFrame sends is read as it was written.
LEMMA ReadAsWritten ==
  ASSUME NEW f \in OutgoingType, ~WriteRefused(f)
  PROVE  Encode(f) \in MessageType /\ Decode(Encode(f)) = f
<1>1. /\ f.header \in Nat /\ f.payload \in Nat /\ f.header <= MaxHeaderBytes
      /\ f.payload <= MaxPayloadBytes
      /\ f.type \in {"data", "other"} /\ (f.type # "data" => f.payload = 0)
  <2>1. ~(f.header > MaxHeaderBytes) /\ ~(f.payload > MaxPayloadBytes)
    BY DEF WriteRefused
  <2>2. f.header \in Nat /\ f.payload \in Nat
    BY FramingAssumption DEF OutgoingType
  <2>3. f.header <= MaxHeaderBytes /\ f.payload <= MaxPayloadBytes
    BY <2>1, <2>2, Limits
  <2>4. f.type \in {"data", "other"} /\ (f.type # "data" => f.payload = 0)
    BY DEF WriteRefused, OutgoingType, HeaderTypes
  <2> QED BY <2>2, <2>3, <2>4
<1>2. f.header % LengthLimit = f.header /\ f.payload % LengthLimit = f.payload
  BY <1>1, Limits, FitsWidth
<1>3. Encode(f) = [is |-> "message", size |-> EnvelopeBytes + f.header + f.payload,
                   headerLen |-> f.header, payloadLen |-> f.payload, type |-> f.type]
  BY <1>2 DEF Encode
<1>4. ~ReadRefused(Encode(f))
  <2>1. /\ Encode(f).size = EnvelopeBytes + f.header + f.payload
        /\ Encode(f).headerLen = f.header /\ Encode(f).payloadLen = f.payload
        /\ Encode(f).type = f.type
    BY <1>3
  <2>2. ~(Encode(f).size < EnvelopeBytes) /\ LengthsFit(Encode(f))
    BY <1>1, <2>1, Limits DEF LengthsFit, EnvelopeBytes
  <2> QED BY <1>1, <2>1, <2>2 DEF ReadRefused
<1>5. Decode(Encode(f)) = [is |-> "frame", type |-> f.type, header |-> f.header, payload |-> f.payload]
  BY <1>1, <1>3, <1>4 DEF Decode, EnvelopeBytes
<1>6. f = [is |-> "frame", type |-> f.type, header |-> f.header, payload |-> f.payload]
  BY DEF OutgoingType
<1>7. EnvelopeBytes + f.header + f.payload \in Nat
  BY <1>1 DEF EnvelopeBytes
<1>8. f.type \in HeaderTypes
  BY <1>1 DEF HeaderTypes
<1> QED BY <1>1, <1>3, <1>5, <1>6, <1>7, <1>8 DEF MessageType

\* What readFrame takes is what writeFrame would have sent.
LEMMA WrittenAsRead ==
  ASSUME NEW m \in MessageType, Decode(m).is = "frame"
  PROVE  ~WriteRefused(Decode(m)) /\ Encode(Decode(m)) = m
<1>1. ~ReadRefused(m)
  BY DEF Decode, Error
<1>2. /\ m.headerLen \in Nat /\ m.payloadLen \in Nat /\ m.size \in Nat
      /\ m.headerLen <= MaxHeaderBytes /\ m.payloadLen <= MaxPayloadBytes
      /\ m.size = EnvelopeBytes + m.headerLen + m.payloadLen
      /\ m.type \in {"data", "other"} /\ (m.type # "data" => m.payloadLen = 0)
  BY <1>1 DEF ReadRefused, LengthsFit, MessageType, HeaderTypes
<1>3. Decode(m) = [is |-> "frame", type |-> m.type, header |-> m.headerLen, payload |-> m.payloadLen]
  BY <1>1, <1>2 DEF Decode, EnvelopeBytes
<1>4. m.headerLen % LengthLimit = m.headerLen /\ m.payloadLen % LengthLimit = m.payloadLen
  BY <1>2, Limits, FitsWidth
<1>5. Encode(Decode(m)) = [is |-> "message", size |-> m.size, headerLen |-> m.headerLen,
                           payloadLen |-> m.payloadLen, type |-> m.type]
  BY <1>2, <1>3, <1>4 DEF Encode
<1>6. m = [is |-> "message", size |-> m.size, headerLen |-> m.headerLen,
           payloadLen |-> m.payloadLen, type |-> m.type]
  BY DEF MessageType
<1>7. ~WriteRefused(Decode(m))
  <2>1. /\ Decode(m).header = m.headerLen /\ Decode(m).payload = m.payloadLen
        /\ Decode(m).type = m.type
    BY <1>3
  <2>2. ~(Decode(m).header > MaxHeaderBytes) /\ ~(Decode(m).payload > MaxPayloadBytes)
    BY <1>2, <2>1, Limits
  <2>3. Decode(m).type # "" /\ ~(Decode(m).type # "data" /\ Decode(m).payload # 0)
    BY <1>2, <2>1
  <2> QED BY <2>2, <2>3 DEF WriteRefused
<1> QED BY <1>5, <1>6, <1>7

\* What each variable holds, given the one before it.
FramingInv ==
  /\ outgoing \in OutgoingType \cup {Nothing}
  /\ message \in MessageType \cup {Nothing}
  /\ message = Nothing => outgoing # Nothing /\ incoming = Nothing
  /\ message # Nothing /\ outgoing # Nothing =>
       ~WriteRefused(outgoing) /\ message = Encode(outgoing)
  /\ incoming # Nothing => incoming = Decode(message)

LEMMA FramingInvariance == FramingSpec => []FramingInv
<1>1. FramingInit => FramingInv
  BY DEF FramingInit, FramingInv, OutgoingType, Nothing
<1>2. ASSUME FramingInv, [FramingNext]_frameVars
      PROVE  FramingInv'
  <2>1. \A f \in OutgoingType : f # Nothing
    BY DEF OutgoingType, Nothing
  <2>2. \A m \in MessageType : m # Nothing
    BY DEF MessageType, Nothing
  <2>3. CASE WriteFrame
    <3>1. outgoing \in OutgoingType
      BY <1>2, <2>3 DEF WriteFrame, FramingInv
    <3>2. message' \in MessageType
      BY <2>3, <3>1, ReadAsWritten DEF WriteFrame
    <3> QED BY <1>2, <2>1, <2>2, <2>3, <3>1, <3>2 DEF WriteFrame, FramingInv
  <2>4. CASE AnotherProgramWrites
    <3>1. message' \in MessageType
      BY <2>4, FramingAssumption DEF AnotherProgramWrites, MessageType
    <3> QED BY <1>2, <2>2, <2>4, <3>1 DEF AnotherProgramWrites, FramingInv
  <2>5. CASE ReadFrame
    BY <1>2, <2>5 DEF ReadFrame, FramingInv
  <2>6. CASE UNCHANGED frameVars
    BY <1>2, <2>6 DEF frameVars, FramingInv
  <2> QED BY <1>2, <2>3, <2>4, <2>5, <2>6 DEF FramingNext
<1> QED BY <1>1, <1>2, PTL DEF FramingSpec

\* Both ends agree to the byte about what a frame is, for any limits below the
\* width of the lengths: what writeFrame sends is read as it was written, and
\* readFrame takes nothing that writeFrame would not have sent.
THEOREM FramesAgree == FramingSpec => []EndsAgree
<1>1. FramingInv => EndsAgree
  <2> SUFFICES ASSUME FramingInv, incoming # Nothing
               PROVE  /\ outgoing # Nothing => incoming = outgoing
                      /\ incoming.is = "frame" => ~WriteRefused(incoming) /\ Encode(incoming) = message
    BY DEF EndsAgree
  <2>1. message \in MessageType /\ incoming = Decode(message)
    BY DEF FramingInv
  <2>2. CASE outgoing # Nothing
    <3>1. outgoing \in OutgoingType /\ ~WriteRefused(outgoing) /\ message = Encode(outgoing)
      BY <2>1, <2>2 DEF FramingInv
    <3> QED BY <2>1, <3>1, ReadAsWritten, WrittenAsRead
  <2>3. CASE outgoing = Nothing
    BY <2>1, <2>3, WrittenAsRead
  <2> QED BY <2>2, <2>3
<1> QED BY <1>1, FramingInvariance, PTL

-----------------------------------------------------------------------------
(* Heartbeat. *)

PingPcs == {"begun", "select", "late", "drain"}

\* The channel of a ping that was never sent is empty, a ping is pending on an
\* open tracker only, and a round trip in a channel was earned by its own pong.
PingInv ==
  /\ HeartbeatTypeOK
  /\ PingResolvedOnce
  /\ \A n \in Nonces \ pings : slot[n] = <<>>
  /\ \A n \in Nonces : \A i \in DOMAIN slot[n] : slot[n][i] = "rtt" => n \in pongs
  /\ beat.pc \in PingPcs => beat.nonce \in pings
  /\ beat.pc # "idle" => beat.out = "none"
  /\ OwnPongOnly
  /\ tracker.closed => tracker.pending = NoNonce

LEMMA OneResult ==
  ASSUME NEW r \in ResultType
  PROVE  /\ <<r>> \in Seq(ResultType) /\ Len(<<r>>) = 1
         /\ DOMAIN <<r>> = {1} /\ <<r>>[1] = r /\ <<r>> # <<>>
         /\ Append(<<>>, r) = <<r>>
  OBVIOUS

\* A step that resolves the pending ping, for a heartbeat that goes on or fails.
LEMMA ResolveKeeps ==
  ASSUME PingInv, NEW r \in ResultType, tracker.pending # NoNonce,
         r = "rtt" => tracker.pending \in pongs,
         slot' = [slot EXCEPT ![tracker.pending] = <<r>>],
         tracker' \in [pending : {NoNonce}, closed : BOOLEAN],
         beat' = beat \/ \E out \in ResultType \ {"rtt"} : BeatReturns(out),
         UNCHANGED <<pings, pongs>>, current' \in BOOLEAN
  PROVE  PingInv'
<1> DEFINE n == tracker.pending
<1>1. n \in Nonces /\ beat.pc \in {"begun", "select", "late"} /\ beat.nonce = n
  BY DEF PingInv, HeartbeatTypeOK, PingResolvedOnce, BeatType
<1>2. slot' \in [Nonces -> Seq(ResultType)] /\ slot'[n] = <<r>>
  BY <1>1, OneResult DEF PingInv, HeartbeatTypeOK
<1>3. \A m \in Nonces \ {n} : slot'[m] = slot[m]
  BY DEF PingInv, HeartbeatTypeOK
<1>4. /\ beat' \in BeatType /\ beat'.nonce = n
      /\ \/ beat' = beat
         \/ beat'.pc = "idle" /\ beat'.out # "rtt"
  BY <1>1 DEF BeatReturns, BeatType, ResultType, PingInv, HeartbeatTypeOK
<1>5. HeartbeatTypeOK' /\ PingResolvedOnce'
  BY <1>1, <1>2, <1>4, OneResult, NoNonceAssumption DEF PingInv, HeartbeatTypeOK, PingResolvedOnce
<1>6. \A m \in Nonces : \A i \in DOMAIN slot'[m] : slot'[m][i] = "rtt" => m \in pongs
  BY <1>2, <1>3, OneResult DEF PingInv
<1>7. n \in pings
  BY <1>1 DEF PingInv, PingPcs
<1> QED BY <1>1, <1>3, <1>4, <1>5, <1>6, <1>7 DEF PingInv, PingPcs, OwnPongOnly

LEMMA PingInvariance == HeartbeatSpec => []PingInv
<1>1. HeartbeatInit => PingInv
  BY DEF HeartbeatInit, PingInv, HeartbeatTypeOK, PingResolvedOnce, OwnPongOnly, BeatType, PingPcs
<1>2. ASSUME PingInv, [HeartbeatNext]_heartbeatVars
      PROVE  PingInv'
  <2> USE <1>2
  <2>1. ASSUME NEW n \in Nonces, PongReceived(n)
        PROVE  PingInv'
    <3>1. CASE tracker.pending = n
      <4>1. /\ slot' = [slot EXCEPT ![tracker.pending] = <<"rtt">>]
            /\ tracker' = [tracker EXCEPT !.pending = NoNonce]
            /\ UNCHANGED <<pings, pongs, beat, current>> /\ n \in pongs
        BY <2>1, <3>1 DEF PongReceived, PongMatches, Resolve
      <4> QED BY <3>1, <4>1, ResolveKeeps, NoNonceAssumption DEF PingInv, HeartbeatTypeOK, ResultType
    <3>2. CASE tracker.pending # n
      BY <2>1, <3>2 DEF PongReceived, PongMatches, PingInv, HeartbeatTypeOK, PingResolvedOnce, OwnPongOnly
    <3> QED BY <3>1, <3>2
  <2>2. ASSUME NEW n \in Nonces, SendPong(n)
        PROVE  PingInv'
    BY <2>2 DEF SendPong, PingInv, HeartbeatTypeOK, PingResolvedOnce, OwnPongOnly
  <2>3. CASE Replaced
    BY <2>3 DEF Replaced, PingInv, HeartbeatTypeOK, PingResolvedOnce, OwnPongOnly
  <2>4. ASSUME CloseTracker, UNCHANGED <<pings, pongs>>, current' \in BOOLEAN,
               beat' = beat \/ (beat.pc = "begun" /\ BeatReturns("closed"))
        PROVE  PingInv'
    <3>1. tracker \in [pending : Nonces \cup {NoNonce}, closed : BOOLEAN] /\ beat \in BeatType
      BY DEF PingInv, HeartbeatTypeOK
    <3>2. CASE tracker.pending = NoNonce
      <4>1. /\ slot' = slot /\ tracker'.pending = NoNonce
            /\ tracker' \in [pending : Nonces \cup {NoNonce}, closed : BOOLEAN]
        <5>1. CASE tracker.closed
          BY <2>4, <3>1, <3>2, <5>1 DEF CloseTracker
        <5>2. CASE ~tracker.closed
          <6>1. tracker' = [pending |-> NoNonce, closed |-> TRUE] /\ slot' = slot
            BY <2>4, <3>2, <5>2 DEF CloseTracker
          <6> QED BY <6>1
        <5> QED BY <5>1, <5>2
      <4>2. \/ beat' = beat
            \/ beat' \in BeatType /\ beat'.pc = "idle" /\ beat'.out = "closed"
        BY <2>4, <3>1 DEF BeatReturns, BeatType, ResultType
      <4> QED BY <2>4, <3>1, <3>2, <4>1, <4>2
              DEF PingInv, HeartbeatTypeOK, PingResolvedOnce, OwnPongOnly, PingPcs
    <3>3. CASE tracker.pending # NoNonce
      <4>1. ~tracker.closed /\ tracker.pending \in Nonces /\ slot[tracker.pending] = <<>>
        BY <3>1, <3>3 DEF PingInv, HeartbeatTypeOK, PingResolvedOnce, BeatType
      <4>2. /\ slot' = [slot EXCEPT ![tracker.pending] = <<"closed">>]
            /\ tracker' = [pending |-> NoNonce, closed |-> TRUE]
        BY <2>4, <3>3, <4>1, OneResult DEF CloseTracker, ResultType
      <4>3. beat' = beat \/ \E out \in ResultType \ {"rtt"} : BeatReturns(out)
        BY <2>4 DEF ResultType
      <4> QED BY <2>4, <3>3, <4>2, <4>3, ResolveKeeps DEF ResultType
    <3> QED BY <3>2, <3>3
  <2>5. CASE CloseConnection
    BY <2>4, <2>5 DEF CloseConnection, PingInv, HeartbeatTypeOK
  <2>6. CASE PingFails
    BY <2>4, <2>6 DEF PingFails
  <2>7. CASE BeatChecks
    BY <2>7 DEF BeatChecks, PingInv, HeartbeatTypeOK, BeatType, ResultType, PingResolvedOnce, OwnPongOnly, PingPcs
  <2>8. CASE BeginRefused
    BY <2>8 DEF BeginRefused, BeatReturns, PingInv, HeartbeatTypeOK, BeatType, ResultType,
                PingResolvedOnce, OwnPongOnly, PingPcs
  <2>9. ASSUME NEW n \in Nonces, BeginPing(n)
        PROVE  PingInv'
    BY <2>9, NoNonceAssumption
    DEF BeginPing, PingInv, HeartbeatTypeOK, BeatType, ResultType, PingResolvedOnce, OwnPongOnly, PingPcs
  <2>10. CASE PingSent \/ BeatTimer
    BY <2>10 DEF PingSent, BeatTimer, PingInv, HeartbeatTypeOK, BeatType, ResultType,
                 PingResolvedOnce, OwnPongOnly, PingPcs
  <2>11. CASE BeatReceives
    <3> DEFINE n == beat.nonce
    <3>1. /\ n \in Nonces /\ tracker.pending = NoNonce /\ slot[n] \in Seq(ResultType) /\ Len(slot[n]) = 1
          /\ slot[n] # <<>>
      BY <2>11 DEF BeatReceives, PingInv, HeartbeatTypeOK, BeatType, PingResolvedOnce, PingPcs
    <3>2. Head(slot[n]) \in ResultType /\ Tail(slot[n]) = <<>> /\ 1 \in DOMAIN slot[n] /\ Head(slot[n]) = slot[n][1]
      <4>1. Head(slot[n]) = slot[n][1] /\ Len(Tail(slot[n])) = 0 /\ Tail(slot[n]) \in Seq(ResultType)
        BY <3>1, HeadTailProperties
      <4>2. 1 \in DOMAIN slot[n] /\ Tail(slot[n]) = <<>> /\ slot[n][1] \in ResultType
        BY <3>1, <4>1, EmptySeq, LenProperties, ElementOfSeq
      <4> QED BY <4>1, <4>2
    <3>3. Head(slot[n]) = "rtt" => n \in pongs
      BY <3>1, <3>2 DEF PingInv
    <3>4. beat' \in BeatType /\ beat'.pc = "idle" /\ beat'.nonce = n /\ beat'.out = Head(slot[n])
      BY <2>11, <3>2 DEF BeatReceives, BeatReturns, PingInv, HeartbeatTypeOK, BeatType
    <3>5. slot' = [slot EXCEPT ![n] = <<>>]
      BY <2>11, <3>2 DEF BeatReceives, PingInv, HeartbeatTypeOK
    <3>6. UNCHANGED <<tracker, pings, pongs, current>>
      BY <2>11 DEF BeatReceives
    <3> QED BY <3>1, <3>3, <3>4, <3>5, <3>6 DEF PingInv, HeartbeatTypeOK, PingResolvedOnce, OwnPongOnly, PingPcs
  <2>12. CASE BeatTimesOut
    <3>1. CASE tracker.pending = beat.nonce
      <4>1. /\ tracker.pending # NoNonce
            /\ slot' = [slot EXCEPT ![tracker.pending] = <<"timed out">>]
            /\ tracker' = [tracker EXCEPT !.pending = NoNonce]
            /\ BeatReturns("timed out")
            /\ UNCHANGED <<pings, pongs, current>>
        BY <2>12, <3>1, NoNonceAssumption DEF BeatTimesOut, Resolve, PingInv, HeartbeatTypeOK, PingPcs
      <4>2. "timed out" \in ResultType \ {"rtt"} /\ tracker' \in [pending : {NoNonce}, closed : BOOLEAN]
            /\ current' \in BOOLEAN
        BY <4>1 DEF ResultType, PingInv, HeartbeatTypeOK
      <4> QED BY <4>1, <4>2, ResolveKeeps
    <3>2. CASE tracker.pending # beat.nonce
      BY <2>12, <3>2 DEF BeatTimesOut, PingInv, HeartbeatTypeOK, BeatType, PingResolvedOnce, OwnPongOnly, PingPcs
    <3> QED BY <3>1, <3>2
  <2>13. CASE UNCHANGED heartbeatVars
    BY <2>13 DEF heartbeatVars, PingInv, HeartbeatTypeOK, PingResolvedOnce, OwnPongOnly
  <2> QED BY <2>1, <2>2, <2>3, <2>5, <2>6, <2>7, <2>8, <2>9, <2>10, <2>11, <2>12, <2>13
          DEF HeartbeatNext, BeatStep
<1> QED BY <1>1, <1>2, PTL DEF HeartbeatSpec

\* However pongs, timers, closes and failing sends interleave, a heartbeat under
\* way is pending or has exactly one result, and one that has returned leaves
\* nothing pending.
THEOREM PingsResolve == HeartbeatSpec => []PingResolvedOnce
<1>1. PingInv => PingResolvedOnce
  BY DEF PingInv
<1> QED BY <1>1, PingInvariance, PTL

\* A heartbeat that reports a round trip was answered by the pong of its own
\* ping, never by a late one of another.
THEOREM PongsAreOwn == HeartbeatSpec => []OwnPongOnly
<1>1. PingInv => OwnPongOnly
  BY DEF PingInv
<1> QED BY <1>1, PingInvariance, PTL

-----------------------------------------------------------------------------
(* Dial. *)

\* While dials race, every address is still dialled, among the results that
\* wait, or done with; only those that wait and the winner hold connections.
Racing ==
  /\ expected = Cardinality(dialing) + Len(arrived)
  /\ upgrade = "off"
  /\ winner \notin dialing
  /\ \A i \in DOMAIN arrived : arrived[i][1] \notin dialing \cup {winner}
  /\ \A i, j \in DOMAIN arrived : i # j => arrived[i][1] # arrived[j][1]
  /\ \A a \in Addresses :
       rawConn[a] = "open" => a = winner \/ \E i \in DOMAIN arrived : arrived[i][1] = a /\ arrived[i][2]
  /\ \A i \in DOMAIN arrived : arrived[i][2] => rawConn[arrived[i][1]] = "open"
  /\ winner # NoAddress => rawConn[winner] = "open"

\* Afterwards, only the winner does, until it is closed.
Raced ==
  /\ dialing = {} /\ arrived = <<>> /\ winner \in Addresses
  /\ \A a \in Addresses : rawConn[a] = "open" <=> a = winner /\ opener.pc # "drain"
  /\ opener.pc = "tls" => upgrade = "off"
  /\ opener.pc = "clear" => upgrade = "done"

DialInv ==
  /\ DialTypeOK
  /\ opener.pc # "returned" => ~opener.ok
  /\ opener.pc = "resolve" =>
       /\ dialing = {} /\ arrived = <<>> /\ winner = NoAddress /\ upgrade = "off"
       /\ \A a \in Addresses : rawConn[a] # "open"
  /\ opener.pc = "dial" => Racing
  /\ opener.pc \in {"tls", "upgrade", "clear", "drain"} => Raced
  /\ DialLeavesNothing

LEMMA DialReturnsKeeps ==
  ASSUME DialInv, NEW a \in Addresses, NEW ok \in BOOLEAN, DialReturns(a, ok)
  PROVE  DialInv'
<1>1. a \in dialing /\ opener.pc = "dial" /\ Racing
  BY DEF DialReturns, DialInv, DialTypeOK, Raced, DialLeavesNothing
<1>2. /\ dialing' = dialing \ {a} /\ arrived' = Append(arrived, <<a, ok>>)
      /\ rawConn' = IF ok THEN [rawConn EXCEPT ![a] = "open"] ELSE rawConn
      /\ UNCHANGED <<wss, expired, stopped, expected, winner, upgrade, opener>>
  BY DEF DialReturns
<1>3. arrived \in Seq(Addresses \X BOOLEAN) /\ dialing \subseteq Addresses
  BY DEF DialInv, DialTypeOK
<1>4. /\ arrived' \in Seq(Addresses \X BOOLEAN) /\ Len(arrived') = Len(arrived) + 1
      /\ DOMAIN arrived = 1..Len(arrived) /\ DOMAIN arrived' = 1..(Len(arrived) + 1)
      /\ \A i \in DOMAIN arrived : arrived'[i] = arrived[i]
      /\ arrived'[Len(arrived) + 1] = <<a, ok>>
  BY <1>2, <1>3, AppendProperties, LenProperties
<1>5. Len(arrived) \in Nat /\ Cardinality(dialing') = Cardinality(dialing) - 1 /\ Cardinality(dialing) \in Nat
  BY <1>1, <1>2, <1>3, DialAssumption, FS_Subset, FS_RemoveElement, FS_CardinalityType, LenProperties
<1>6. expected' = Cardinality(dialing') + Len(arrived')
  BY <1>1, <1>2, <1>4, <1>5 DEF Racing
<1>7. /\ \A i \in DOMAIN arrived' : arrived'[i][1] \notin dialing' \cup {winner'}
      /\ \A i, j \in DOMAIN arrived' : i # j => arrived'[i][1] # arrived'[j][1]
  <2>1. \A i \in DOMAIN arrived' : i \in DOMAIN arrived \/ i = Len(arrived) + 1
    BY <1>4, <1>5
  <2> QED BY <1>1, <1>2, <1>4, <2>1 DEF Racing
<1>8. /\ rawConn' \in [Addresses -> {"none", "open", "closed"}]
      /\ winner' # NoAddress => rawConn'[winner'] = "open"
  BY <1>1, <1>2 DEF Racing, DialInv, DialTypeOK
<1>9. \A b \in Addresses :
        rawConn'[b] = "open" => b = winner' \/ \E i \in DOMAIN arrived' : arrived'[i][1] = b /\ arrived'[i][2]
  <2> SUFFICES ASSUME NEW b \in Addresses, rawConn'[b] = "open", b # winner
               PROVE  \E i \in DOMAIN arrived' : arrived'[i][1] = b /\ arrived'[i][2]
    BY <1>2
  <2>1. CASE ok /\ b = a
    <3>1. Len(arrived) + 1 \in DOMAIN arrived' /\ arrived'[Len(arrived) + 1][1] = b /\ arrived'[Len(arrived) + 1][2]
      BY <1>4, <1>5, <2>1
    <3> QED BY <3>1
  <2>2. CASE ~(ok /\ b = a)
    <3>1. rawConn[b] = "open"
      BY <1>2, <2>2 DEF DialInv, DialTypeOK
    <3>2. PICK i \in DOMAIN arrived : arrived[i][1] = b /\ arrived[i][2]
      BY <1>1, <3>1 DEF Racing
    <3>3. i \in DOMAIN arrived'
      BY <1>4, <1>5
    <3> QED BY <1>4, <3>2, <3>3
  <2> QED BY <2>1, <2>2
<1>10. \A i \in DOMAIN arrived' : arrived'[i][2] => rawConn'[arrived'[i][1]] = "open"
  <2>1. rawConn \in [Addresses -> {"none", "open", "closed"}]
    BY DEF DialInv, DialTypeOK
  <2>2. \A i \in DOMAIN arrived' : i \in DOMAIN arrived \/ i = Len(arrived) + 1
    BY <1>4, <1>5
  <2>3. \A i \in DOMAIN arrived : arrived[i][1] # a
    BY <1>1 DEF Racing
  <2> QED BY <1>1, <1>2, <1>4, <2>1, <2>2, <2>3 DEF Racing
<1>11. Racing'
  BY <1>1, <1>2, <1>6, <1>7, <1>8, <1>9, <1>10 DEF Racing
<1> QED BY <1>1, <1>2, <1>4, <1>8, <1>11 DEF DialInv, DialTypeOK, DialLeavesNothing

LEMMA TakeDialKeeps ==
  ASSUME DialInv, TakeDial
  PROVE  DialInv'
<1> DEFINE first == arrived[1]
           rest  == Tail(arrived)
<1>1. /\ opener.pc = "dial" /\ Racing /\ arrived # <<>> /\ arrived \in Seq(Addresses \X BOOLEAN)
      /\ arrived' = rest /\ expected' = expected - 1
      /\ UNCHANGED <<wss, expired, dialing, upgrade, opener>>
  BY DEF TakeDial, DialInv, DialTypeOK
<1>2. /\ Head(arrived) = first /\ rest \in Seq(Addresses \X BOOLEAN) /\ Len(rest) = Len(arrived) - 1
      /\ Len(arrived) \in Nat \ {0}
      /\ \A i \in 1..Len(rest) : rest[i] = arrived[i + 1]
      /\ DOMAIN arrived = 1..Len(arrived) /\ DOMAIN rest = 1..Len(rest)
  BY <1>1, HeadTailProperties, EmptySeq, LenProperties
<1>3. /\ \A i \in DOMAIN rest : i + 1 \in DOMAIN arrived /\ i + 1 # 1
      /\ \A i \in DOMAIN arrived : i # 1 => i - 1 \in DOMAIN rest /\ rest[i - 1] = arrived[i]
      /\ 1 \in DOMAIN arrived
  BY <1>2
<1>4. first \in Addresses \X BOOLEAN
  BY <1>1, <1>3, <1>2, ElementOfSeq
<1>5. /\ first[1] \in Addresses /\ first[2] \in BOOLEAN
      /\ first[1] \notin dialing \cup {winner} /\ first[1] # NoAddress
      /\ \A i \in DOMAIN rest : rest[i][1] # first[1]
  BY <1>1, <1>2, <1>3, <1>4, DialAssumption DEF Racing
<1>6. expected' = Cardinality(dialing') + Len(arrived') /\ expected' \in Nat
  <2>1. Cardinality(dialing) \in Nat
    BY DialAssumption, FS_Subset, FS_CardinalityType DEF DialInv, DialTypeOK
  <2> QED BY <1>1, <1>2, <2>1 DEF Racing
<1>7. /\ \A i \in DOMAIN rest : rest[i][1] \notin dialing \cup {winner}
      /\ \A i, j \in DOMAIN rest : i # j => rest[i][1] # rest[j][1]
  <2>1. \A i, j \in DOMAIN rest : i # j => i + 1 # j + 1
    BY <1>2
  <2> QED BY <1>1, <1>2, <1>3, <2>1 DEF Racing
<1>8. \A b \in Addresses : b # first[1] /\ rawConn[b] = "open" =>
        b = winner \/ \E i \in DOMAIN rest : rest[i][1] = b /\ rest[i][2]
  <2> SUFFICES ASSUME NEW b \in Addresses, b # first[1], rawConn[b] = "open", b # winner
               PROVE  \E i \in DOMAIN rest : rest[i][1] = b /\ rest[i][2]
    OBVIOUS
  <2>1. PICK i \in DOMAIN arrived : arrived[i][1] = b /\ arrived[i][2]
    BY <1>1 DEF Racing
  <2>2. i # 1
    BY <2>1
  <2> QED BY <1>3, <2>1, <2>2
<1>9. /\ rawConn \in [Addresses -> {"none", "open", "closed"}]
      /\ first[2] => rawConn[first[1]] = "open"
      /\ \A i \in DOMAIN rest : rest[i][2] => rawConn[rest[i][1]] = "open"
  BY <1>1, <1>2, <1>3 DEF Racing, DialInv, DialTypeOK
<1>10. CASE ~first[2]
  <2>1. UNCHANGED <<rawConn, winner, stopped>>
    BY <1>2, <1>10 DEF TakeDial
  <2>2. rawConn[first[1]] # "open"
    <3> SUFFICES ASSUME rawConn[first[1]] = "open" PROVE FALSE
      OBVIOUS
    <3>1. PICK i \in DOMAIN arrived : arrived[i][1] = first[1] /\ arrived[i][2]
      BY <1>1, <1>5 DEF Racing
    <3>2. i # 1
      BY <1>10, <3>1
    <3> QED BY <1>3, <1>5, <3>1, <3>2
  <2>3. \A b \in Addresses : rawConn[b] = "open" =>
          b = winner \/ \E i \in DOMAIN rest : rest[i][1] = b /\ rest[i][2]
    BY <1>8, <2>2
  <2>4. Racing'
    BY <1>1, <1>6, <1>7, <1>9, <2>1, <2>3 DEF Racing
  <2> QED BY <1>1, <1>2, <1>6, <2>1, <2>4
          DEF DialInv, DialTypeOK, Racing, DialLeavesNothing
<1>11. CASE first[2] /\ winner = NoAddress
  <2>1. winner' = first[1] /\ stopped' = TRUE /\ UNCHANGED rawConn
    BY <1>2, <1>11 DEF TakeDial
  <2>2. \A b \in Addresses : rawConn[b] = "open" =>
          b = winner' \/ \E i \in DOMAIN rest : rest[i][1] = b /\ rest[i][2]
    BY <1>8, <1>11, <2>1, DialAssumption
  <2> QED BY <1>1, <1>2, <1>5, <1>6, <1>7, <1>9, <1>11, <2>1, <2>2
          DEF DialInv, DialTypeOK, Racing, DialLeavesNothing
<1>12. CASE first[2] /\ winner # NoAddress
  <2>1. rawConn' = [rawConn EXCEPT ![first[1]] = "closed"] /\ UNCHANGED <<winner, stopped>>
    BY <1>2, <1>12 DEF TakeDial, LateDial
  <2>2. \A b \in Addresses : rawConn'[b] = "open" =>
          b = winner \/ \E i \in DOMAIN rest : rest[i][1] = b /\ rest[i][2]
    BY <1>5, <1>8, <1>9, <2>1
  <2>3. /\ rawConn'[winner] = "open" /\ rawConn' \in [Addresses -> {"none", "open", "closed"}]
        /\ \A i \in DOMAIN rest : rest[i][2] => rawConn'[rest[i][1]] = "open"
    BY <1>1, <1>5, <1>9, <1>12, <2>1 DEF Racing, DialInv, DialTypeOK
  <2> QED BY <1>1, <1>2, <1>6, <1>7, <2>1, <2>2, <2>3
          DEF DialInv, DialTypeOK, Racing, DialLeavesNothing
<1> QED BY <1>5, <1>10, <1>11, <1>12

\* A failing return closes the connection that was kept...
LEMMA FailureKeeps ==
  ASSUME DialInv, opener.pc \in {"tls", "upgrade", "clear", "drain"}, upgrade # "running",
         opener' = OpenerReturns(FALSE), CloseRaw,
         UNCHANGED <<wss, expired, stopped, dialing, arrived, expected, winner, upgrade>>
  PROVE  DialInv'
<1>1. Raced /\ DialTypeOK
  BY DEF DialInv
<1>2. rawConn' = [rawConn EXCEPT ![winner] = "closed"]
  BY DEF CloseRaw
<1>3. \A a \in Addresses : rawConn'[a] # "open"
  BY <1>1, <1>2 DEF Raced, DialTypeOK
<1>4. DialTypeOK'
  <2>1. opener' \in [pc : {"returned"}, ok : BOOLEAN]
    BY DEF OpenerReturns
  <2>2. rawConn' \in [Addresses -> {"none", "open", "closed"}]
    BY <1>1, <1>2 DEF DialTypeOK
  <2> QED BY <1>1, <2>1, <2>2 DEF DialTypeOK
<1>5. opener'.pc = "returned" /\ ~opener'.ok
  BY DEF OpenerReturns
<1>6. DialLeavesNothing'
  BY <1>1, <1>3, <1>5 DEF Raced, DialLeavesNothing
<1> QED BY <1>4, <1>5, <1>6 DEF DialInv

\* ...and a success goes on with it.
LEMMA SuccessKeeps ==
  ASSUME DialInv, opener.pc \in {"tls", "upgrade", "clear"}, UNCHANGED rawConn,
         \/ opener.pc = "tls" /\ opener' = OpenerAt("upgrade")
         \/ upgrade = "done" /\ opener' \in {OpenerAt("clear"), OpenerReturns(TRUE)},
         UNCHANGED <<wss, expired, stopped, dialing, arrived, expected, winner, upgrade>>
  PROVE  DialInv'
<1>1. Raced /\ DialTypeOK /\ ~opener.ok
  BY DEF DialInv
<1>2. CASE opener'.pc # "returned"
  <2>1. /\ opener' \in [pc : {"upgrade", "clear"}, ok : BOOLEAN] /\ opener'.ok = opener.ok
        /\ opener'.pc = "clear" => upgrade = "done"
    BY <1>1, <1>2 DEF OpenerAt, OpenerReturns, DialTypeOK
  <2>2. Raced'
    BY <1>1, <2>1 DEF Raced
  <2> QED BY <1>1, <2>1, <2>2 DEF DialInv, DialTypeOK, DialLeavesNothing
<1>3. CASE opener'.pc = "returned"
  <2>1. opener' = [pc |-> "returned", ok |-> TRUE] /\ upgrade = "done"
    BY <1>1, <1>3 DEF OpenerAt, OpenerReturns, DialTypeOK
  <2> QED BY <1>1, <2>1 DEF DialInv, Raced, DialTypeOK, DialLeavesNothing
<1> QED BY <1>2, <1>3

LEMMA DialInvariance == DialSpec => []DialInv
<1>1. DialInit => DialInv
  <2> SUFFICES ASSUME DialInit PROVE DialInv
    OBVIOUS
  <2>1. DialTypeOK
    <3>1. opener \in [pc : {"resolve"}, ok : BOOLEAN] /\ rawConn \in [Addresses -> {"none"}]
      BY DEF DialInit
    <3>2. arrived \in Seq(Addresses \X BOOLEAN)
      BY DEF DialInit
    <3> QED BY <3>1, <3>2 DEF DialInit, DialTypeOK
  <2>2. opener.pc = "resolve" /\ ~opener.ok
    BY DEF DialInit
  <2> QED BY <2>1, <2>2 DEF DialInit, DialInv, DialLeavesNothing
<1>2. ASSUME DialInv, [DialNext]_dialVars
      PROVE  DialInv'
  <2> USE <1>2
  <2>1. CASE ContextExpires
    BY <2>1 DEF ContextExpires, DialInv, DialTypeOK, Racing, Raced, DialLeavesNothing
  <2>2. CASE Resolved
    <3>1. /\ opener.pc = "resolve" /\ arrived = <<>> /\ winner = NoAddress /\ upgrade = "off" /\ ~opener.ok
          /\ \A a \in Addresses : rawConn[a] # "open"
      BY <2>2 DEF Resolved, DialInv
    <3>2. dialing' \subseteq Addresses /\ expected' = Cardinality(dialing') /\ expected' \in Nat
      BY <2>2, DialAssumption, FS_Subset, FS_CardinalityType DEF Resolved
    <3>3. /\ opener' = [opener EXCEPT !.pc = "dial"]
          /\ UNCHANGED <<wss, expired, stopped, arrived, rawConn, winner, upgrade>>
      BY <2>2 DEF Resolved, OpenerAt
    <3>4. Racing'
      <4>1. arrived' = <<>> /\ Len(arrived') = 0 /\ DOMAIN arrived' = {} /\ winner' \notin dialing'
        BY <3>1, <3>2, <3>3, DialAssumption
      <4> QED BY <3>1, <3>2, <3>3, <4>1 DEF Racing
    <3> QED BY <3>1, <3>2, <3>3, <3>4 DEF DialInv, DialTypeOK, DialLeavesNothing
  <2>3. CASE ResolveFails
    BY <2>3, DialAssumption DEF ResolveFails, OpenerReturns, DialInv, DialTypeOK, DialLeavesNothing
  <2>4. ASSUME NEW a \in Addresses, NEW ok \in BOOLEAN, DialReturns(a, ok)
        PROVE  DialInv'
    BY <2>4, DialReturnsKeeps
  <2>5. CASE TakeDial
    BY <2>5, TakeDialKeeps
  <2>6. CASE DialsEnd
    <3>1. /\ opener.pc = "dial" /\ expected = 0 /\ Racing
          /\ UNCHANGED <<wss, expired, dialing, arrived, expected, rawConn, winner, upgrade>>
          /\ stopped' = TRUE
      BY <2>6 DEF DialsEnd, DialInv
    <3>2. dialing = {} /\ arrived = <<>>
      <4>1. IsFiniteSet(dialing) /\ arrived \in Seq(Addresses \X BOOLEAN)
        BY DialAssumption, FS_Subset DEF DialInv, DialTypeOK
      <4>2. Cardinality(dialing) = 0 /\ Len(arrived) = 0
        BY <3>1, <4>1, FS_CardinalityType, LenProperties DEF Racing
      <4> QED BY <4>1, <4>2, FS_EmptySet, EmptySeq
    <3>3. DOMAIN arrived = {}
      BY <3>2
    <3>4. \A a \in Addresses : rawConn[a] = "open" <=> a = winner
      BY <3>1, <3>3, DialAssumption DEF Racing
    <3>5. CASE winner = NoAddress
      <4>1. opener' = [pc |-> "returned", ok |-> FALSE]
        BY <2>6, <3>5 DEF DialsEnd, OpenerReturns
      <4> QED BY <3>1, <3>2, <3>4, <3>5, <4>1, DialAssumption
              DEF Racing, DialInv, DialTypeOK, DialLeavesNothing
    <3>6. CASE winner # NoAddress
      <4>1. opener' = [opener EXCEPT !.pc = IF wss THEN "tls" ELSE "upgrade"]
        BY <2>6, <3>6 DEF DialsEnd, OpenerAt
      <4>2. opener'.pc \in {"tls", "upgrade"} /\ opener'.ok = opener.ok
            /\ opener' \in [pc : {"tls", "upgrade"}, ok : BOOLEAN]
        BY <4>1 DEF DialInv, DialTypeOK
      <4>3. Raced'
        BY <3>1, <3>2, <3>4, <3>6, <4>2 DEF Racing, Raced, DialInv, DialTypeOK
      <4> QED BY <3>1, <4>2, <4>3 DEF DialInv, DialTypeOK, DialLeavesNothing
    <3> QED BY <3>5, <3>6
  <2>7. CASE HandshakeEnds
    <3>1. upgrade = "off"
      BY <2>7 DEF HandshakeEnds, DialInv, Raced
    <3> QED BY <2>7, <3>1, FailureKeeps, SuccessKeeps DEF HandshakeEnds
  <2>8. CASE StartUpgrade
    BY <2>8 DEF StartUpgrade, DialInv, DialTypeOK, Raced, DialLeavesNothing
  <2>9. CASE UpgradeEnds
    BY <2>9 DEF UpgradeEnds, DialInv, DialTypeOK, Racing, Raced, DialLeavesNothing
  <2>10. CASE UpgradeCanceled
    BY <2>10 DEF UpgradeCanceled, OpenerAt, CloseRaw, DialInv, DialTypeOK, Raced, DialLeavesNothing
  <2>11. CASE UpgradeDrained
    BY <2>11, FailureKeeps DEF UpgradeDrained
  <2>12. CASE UpgradeTaken
    BY <2>12, FailureKeeps, SuccessKeeps DEF UpgradeTaken
  <2>13. CASE DeadlineCleared
    <3>1. upgrade = "done"
      BY <2>13 DEF DeadlineCleared, DialInv, Raced
    <3> QED BY <2>13, <3>1, FailureKeeps, SuccessKeeps DEF DeadlineCleared
  <2>14. CASE UNCHANGED dialVars
    BY <2>14 DEF dialVars, DialInv, DialTypeOK, Racing, Raced, DialLeavesNothing
  <2> QED BY <2>1, <2>2, <2>3, <2>4, <2>5, <2>6, <2>7, <2>8, <2>9, <2>10, <2>11, <2>12, <2>13, <2>14
          DEF DialNext, OpenerStep, Outside
<1> QED BY <1>1, <1>2, PTL DEF DialSpec

\* For any number of addresses and of parallel dials: openWebSocketWith returns
\* only when every dial and the upgrade have ended, with every socket closed but
\* the one that it returns.
THEOREM DialsLeaveNothing == DialSpec => []DialLeavesNothing
<1>1. DialInv => DialLeavesNothing
  BY DEF DialInv
<1> QED BY <1>1, DialInvariance, PTL
-----------------------------------------------------------------------------
(* PathCache. *)

\* The file that is renamed is whole and synced, and holds an activated path.
CacheInv ==
  /\ CacheTypeOK
  /\ CacheIsWhole
  /\ HintIsUsable
  /\ Cache \in durable
  /\ \A p \in Proxies :
       /\ saver[p].pc \in {"save", "temp", "write", "sync", "rename"} => saver[p].name \in activated
       /\ saver[p].pc \in {"sync", "rename"} => temp[p] = saver[p].name
       /\ saver[p].pc = "rename" => p \in durable

SavePcs == {"loaded", "temp", "write", "sync", "rename", "remove"}

\* A step of a save: what it has to leave for its own next step.
LEMMA SaveStepKeeps ==
  ASSUME CacheInv, NEW p \in Proxies, NEW pc \in SavePcs, At(p, pc),
         pc \in {"temp", "write", "sync", "rename"} => saver[p].name \in activated,
         pc \in {"sync", "rename"} => temp'[p] = saver[p].name,
         pc = "rename" => p \in durable',
         temp' \in [Proxies -> Contents], \A q \in Proxies \ {p} : temp'[q] = temp[q],
         durable' \subseteq Proxies \cup {Cache}, Cache \in durable', durable \ {p} \subseteq durable',
         cache' = cache \/ cache' \in activated,
         UNCHANGED <<enabled, activated>>
  PROVE  CacheInv'
<1>1. saver \in [Proxies -> ProxyType]
  BY DEF CacheInv, CacheTypeOK
<1>2. /\ saver' \in [Proxies -> ProxyType] /\ saver'[p].pc = pc
      /\ saver'[p].name = saver[p].name /\ saver'[p].hint = saver[p].hint
      /\ \A q \in Proxies \ {p} : saver'[q] = saver[q]
  BY <1>1 DEF At, ProxyType, SavePcs
<1>3. cache' \in Contents /\ CacheIsWhole'
  BY DEF CacheInv, CacheTypeOK, CacheIsWhole, Contents
<1>4. CacheTypeOK'
  BY <1>2, <1>3 DEF CacheInv, CacheTypeOK
<1>5. HintIsUsable'
  BY <1>2 DEF CacheInv, HintIsUsable
<1>6. ASSUME NEW q \in Proxies
      PROVE  /\ saver'[q].pc \in {"save", "temp", "write", "sync", "rename"} => saver'[q].name \in activated'
             /\ saver'[q].pc \in {"sync", "rename"} => temp'[q] = saver'[q].name
             /\ saver'[q].pc = "rename" => q \in durable'
  <2>1. CASE q = p
    BY <1>2, <2>1 DEF SavePcs
  <2>2. CASE q # p
    BY <1>2, <2>2 DEF CacheInv
  <2> QED BY <2>1, <2>2
<1> QED BY <1>3, <1>4, <1>5, <1>6 DEF CacheInv

LEMMA CacheInvariance == CacheSpec => []CacheInv
<1>1. CacheInit => CacheInv
  BY NoNameAssumption, FilesAssumption
  DEF CacheInit, CacheInv, CacheTypeOK, CacheIsWhole, HintIsUsable, ProxyType, Contents
<1>2. ASSUME CacheInv, [CacheNext]_cacheVars
      PROVE  CacheInv'
  <2> USE <1>2
  <2>0. /\ saver \in [Proxies -> ProxyType] /\ temp \in [Proxies -> Contents]
        /\ enabled \in [Proxies -> SUBSET Names] /\ activated \subseteq Names
    BY DEF CacheInv, CacheTypeOK
  <2>1. ASSUME NEW p \in Proxies, LoadHint(p)
        PROVE  CacheInv'
    <3>1. PICK hint \in {EnabledPathByName(p, cache), NoName} :
            saver' = [saver EXCEPT ![p].pc = "loaded", ![p].hint = hint]
      BY <2>1 DEF LoadHint
    <3>2. hint \in Names \cup {NoName} /\ (hint # NoName => hint \in enabled[p] \cap activated)
      BY <2>0, <3>1, FilesAssumption DEF EnabledPathByName, CacheInv, CacheIsWhole
    <3>3. /\ saver' \in [Proxies -> ProxyType] /\ saver'[p].pc = "loaded" /\ saver'[p].hint = hint
          /\ \A q \in Proxies \ {p} : saver'[q] = saver[q]
      <4> DEFINE g == [saver[p] EXCEPT !.pc = "loaded", !.hint = hint]
      <4>1. g \in ProxyType /\ g.pc = "loaded" /\ g.hint = hint
        BY <2>0, <3>2 DEF ProxyType
      <4>2. saver' = [saver EXCEPT ![p] = g]
        BY <3>1
      <4> HIDE DEF g
      <4> QED BY <2>0, <4>1, <4>2
    <3> QED BY <2>1, <3>2, <3>3 DEF LoadHint, CacheInv, CacheTypeOK, CacheIsWhole, HintIsUsable
  <2>2. ASSUME NEW p \in Proxies, Activate(p)
        PROVE  CacheInv'
    <3>1. PICK n \in enabled[p] :
            /\ saver' = [saver EXCEPT ![p].pc = "save", ![p].name = n, ![p].hint = n]
            /\ activated' = activated \cup {n}
      BY <2>2 DEF Activate
    <3>2. n \in Names
      BY <2>0
    <3>3. /\ saver' \in [Proxies -> ProxyType] /\ saver'[p].pc = "save"
          /\ saver'[p].name = n /\ saver'[p].hint = n
          /\ \A q \in Proxies \ {p} : saver'[q] = saver[q]
      <4> DEFINE g == [saver[p] EXCEPT !.pc = "save", !.name = n, !.hint = n]
      <4>1. g \in ProxyType /\ g.pc = "save" /\ g.name = n /\ g.hint = n
        BY <2>0, <3>2 DEF ProxyType
      <4>2. saver' = [saver EXCEPT ![p] = g]
        BY <3>1
      <4> HIDE DEF g
      <4> QED BY <2>0, <4>1, <4>2
    <3> QED BY <2>0, <2>2, <3>1, <3>2, <3>3 DEF Activate, CacheInv, CacheTypeOK, CacheIsWhole, HintIsUsable
  <2>3. ASSUME NEW p \in Proxies, SaveReads(p)
        PROVE  CacheInv'
    <3>1. saver[p].name \in activated /\ (At(p, "loaded") \/ At(p, "temp"))
          /\ UNCHANGED <<cache, temp, durable, enabled, activated>>
      BY <2>3 DEF SaveReads, CacheInv
    <3> QED BY <3>1, SaveStepKeeps DEF SavePcs, CacheInv, CacheTypeOK
  <2>4. ASSUME NEW p \in Proxies, CreateTemp(p)
        PROVE  CacheInv'
    <3>1. saver[p].name \in activated /\ UNCHANGED <<cache, enabled, activated>>
      BY <2>4 DEF CreateTemp, CacheInv
    <3>2. CASE At(p, "loaded") /\ UNCHANGED <<temp, durable>>
      BY <3>1, <3>2, SaveStepKeeps DEF SavePcs, CacheInv, CacheTypeOK
    <3>3. CASE At(p, "write") /\ temp' = [temp EXCEPT ![p] = "torn"] /\ durable' = durable \ {p}
      <4>1. Cache \in durable' /\ temp' \in [Proxies -> Contents]
        BY <2>0, <3>3, FilesAssumption DEF Cache, CacheInv, Contents
      <4> QED BY <2>0, <3>1, <3>3, <4>1, SaveStepKeeps DEF SavePcs, CacheInv, CacheTypeOK
    <3> QED BY <2>4, <3>2, <3>3 DEF CreateTemp
  <2>5. ASSUME NEW p \in Proxies, WriteTemp(p)
        PROVE  CacheInv'
    <3>1. saver[p].name \in activated /\ UNCHANGED <<cache, durable, enabled, activated>>
      BY <2>5 DEF WriteTemp, CacheInv
    <3>2. CASE At(p, "sync") /\ temp' = [temp EXCEPT ![p] = saver[p].name]
      <4>1. temp' \in [Proxies -> Contents] /\ temp'[p] = saver[p].name
        BY <2>0, <3>1, <3>2 DEF Contents
      <4> QED BY <2>0, <3>1, <3>2, <4>1, SaveStepKeeps DEF SavePcs, CacheInv, CacheTypeOK
    <3>3. CASE At(p, "remove") /\ UNCHANGED temp
      BY <2>0, <3>1, <3>3, SaveStepKeeps DEF SavePcs, CacheInv, CacheTypeOK
    <3> QED BY <2>5, <3>2, <3>3 DEF WriteTemp
  <2>6. ASSUME NEW p \in Proxies, SyncTemp(p)
        PROVE  CacheInv'
    <3>1. /\ saver[p].name \in activated /\ temp[p] = saver[p].name
          /\ UNCHANGED <<cache, temp, enabled, activated>>
      BY <2>6 DEF SyncTemp, CacheInv
    <3>2. CASE At(p, "rename") /\ durable' = durable \cup {p}
      BY <2>0, <3>1, <3>2, SaveStepKeeps DEF SavePcs, CacheInv, CacheTypeOK
    <3>3. CASE At(p, "remove") /\ UNCHANGED durable
      BY <2>0, <3>1, <3>3, SaveStepKeeps DEF SavePcs, CacheInv, CacheTypeOK
    <3> QED BY <2>6, <3>2, <3>3 DEF SyncTemp
  <2>7. ASSUME NEW p \in Proxies, Replace(p)
        PROVE  CacheInv'
    <3>1. /\ saver[p].name \in activated /\ temp[p] = saver[p].name /\ p \in durable
          /\ At(p, "remove") /\ UNCHANGED <<enabled, activated>>
      BY <2>7 DEF Replace, CacheInv
    <3>2. CASE UNCHANGED <<cache, temp, durable>>
      BY <2>0, <3>1, <3>2, SaveStepKeeps DEF SavePcs, CacheInv, CacheTypeOK
    <3>3. CASE cache' = temp[p] /\ temp' = [temp EXCEPT ![p] = "absent"] /\ durable' = durable \cup {Cache}
      <4>1. temp' \in [Proxies -> Contents]
        BY <2>0, <3>3 DEF Contents
      <4> QED BY <2>0, <3>1, <3>3, <4>1, SaveStepKeeps DEF SavePcs, CacheInv, CacheTypeOK
    <3> QED BY <2>7, <3>1, <3>2, <3>3 DEF Replace
  <2>8. ASSUME NEW p \in Proxies, RemoveTemp(p)
        PROVE  CacheInv'
    <3>1. /\ At(p, "loaded") /\ temp' = [temp EXCEPT ![p] = "absent"]
          /\ UNCHANGED <<cache, durable, enabled, activated>>
      BY <2>8 DEF RemoveTemp
    <3>2. temp' \in [Proxies -> Contents]
      BY <2>0, <3>1 DEF Contents
    <3> QED BY <2>0, <3>1, <3>2, SaveStepKeeps DEF SavePcs, CacheInv, CacheTypeOK
  <2>9. ASSUME NEW p \in Proxies
        PROVE  Dead(p) \in ProxyType /\ Dead(p).pc = "dead" /\ Dead(p).hint = saver[p].hint
    BY <2>0 DEF Dead, ProxyType
  <2>10. ASSUME NEW p \in Proxies, Die(p)
         PROVE  CacheInv'
    BY <2>0, <2>9, <2>10 DEF Die, CacheInv, CacheTypeOK, CacheIsWhole, HintIsUsable
  <2>11. CASE PowerLoss
    <3>1. cache' = cache /\ saver' = [p \in Proxies |-> Dead(p)] /\ temp' \in [Proxies -> Contents]
          /\ UNCHANGED <<durable, enabled, activated>>
      BY <2>11 DEF PowerLoss, Left, CacheInv
    <3>2. /\ saver' \in [Proxies -> ProxyType]
          /\ \A p \in Proxies : saver'[p].pc = "dead" /\ saver'[p].hint = saver[p].hint
      BY <2>9, <3>1
    <3> QED BY <3>1, <3>2 DEF CacheInv, CacheTypeOK, CacheIsWhole, HintIsUsable
  <2>12. CASE UNCHANGED cacheVars
    BY <2>12 DEF cacheVars, CacheInv, CacheTypeOK, CacheIsWhole, HintIsUsable
  <2> QED BY <2>1, <2>2, <2>3, <2>4, <2>5, <2>6, <2>7, <2>8, <2>10, <2>11, <2>12 DEF CacheNext, SaveStep
<1> QED BY <1>1, <1>2, PTL DEF CacheSpec

\* For any number of proxies that read and replace the file and die between any
\* two steps, with or without the machine: a reader finds a whole record.
THEOREM CacheStaysWhole == CacheSpec => []CacheIsWhole
<1>1. CacheInv => CacheIsWhole
  BY DEF CacheInv
<1> QED BY <1>1, CacheInvariance, PTL

\* The hint that a proxy takes from the file is one of its own enabled paths.
THEOREM HintsAreUsable == CacheSpec => []HintIsUsable
<1>1. CacheInv => HintIsUsable
  BY DEF CacheInv
<1> QED BY <1>1, CacheInvariance, PTL

-----------------------------------------------------------------------------
(* SessionTable. *)

\* Whatever id a connection works for belongs to the client that is behind it.
LinkInv(l) ==
  LET s == served[l]
  IN  /\ s.pc # "unused" => s.caller \in Callers
      /\ s.pc = "unused" => s.wants = NoId /\ s.id = NoId
      /\ s.wants # NoId => sessions[s.wants].owner = s.caller
      /\ s.id # NoId => sessions[s.id].owner = s.caller
      /\ s.pc \in {"resume", "accept", "run"} => s.id # NoId
      /\ s.pc = "resume" => s.wants # NoId

CallerInv(k) ==
  LET c == callers[k]
  IN  /\ c.link # NoLink => served[c.link].pc # "unused" /\ served[c.link].caller = k
      /\ c.pc = "hello" => c.link # NoLink

TableInv ==
  /\ TableTypeOK
  /\ OwnSessionOnly
  /\ EndedServesNobody
  /\ \A i \in Ids : sessions[i].state = "none" => sessions[i].owner = NoCaller
  /\ \A l \in Links : LinkInv(l)
  /\ \A k \in Callers : CallerInv(k)

\* What most steps leave alone: whose a session is...
OwnersStay ==
  \A i \in Ids : /\ sessions'[i].owner = sessions[i].owner
                 /\ sessions'[i].state = "none" => sessions[i].state = "none"

\* ...and what a handler is about.
HandlerStays(l) ==
  /\ served'[l].caller = served[l].caller /\ served'[l].wants = served[l].wants
  /\ \/ served'[l].pc = served[l].pc /\ served'[l].id = served[l].id
     \/ /\ served[l].pc # "unused" /\ served'[l].pc # "unused" /\ served'[l].id = served[l].id
        /\ served'[l].pc = "resume" => served[l].wants # NoId
        /\ served'[l].pc \in {"resume", "accept", "run"} => served[l].id # NoId
     \/ /\ served[l].pc # "unused" /\ served'[l].pc = "resume"
        /\ served'[l].id = served[l].wants /\ served[l].wants # NoId

LEMMA SessionsMoveOn ==
  ASSUME TableInv, TableTypeOK', EndedServesNobody', callers' = callers,
         OwnersStay, \A l \in Links : HandlerStays(l)
  PROVE  TableInv'
<1> USE DEF OwnersStay, HandlerStays
<1>1. OwnSessionOnly'
  BY DEF OwnSessionOnly, TableInv, TableTypeOK, CallerType
<1>2. \A i \in Ids : sessions'[i].state = "none" => sessions'[i].owner = NoCaller
  BY DEF TableInv
<1>3. ASSUME NEW l \in Links
      PROVE  LinkInv(l)'
  <2>1. served[l].wants \in Ids \cup {NoId} /\ served[l].id \in Ids \cup {NoId}
    BY DEF TableInv, TableTypeOK, ServedType
  <2>2. LinkInv(l)
    BY DEF TableInv
  <2> QED BY <2>1, <2>2 DEF LinkInv
<1>4. ASSUME NEW k \in Callers
      PROVE  CallerInv(k)'
  <2>1. callers[k].link \in Links \cup {NoLink} /\ CallerInv(k)
    BY DEF TableInv, TableTypeOK, CallerType
  <2> QED BY <2>1 DEF CallerInv
<1> QED BY <1>1, <1>2, <1>3, <1>4 DEF TableInv

\* What closeTerminal, disconnect, resume and the timers do to a session.
LEMMA SessionMoves ==
  ASSUME TableInv, table' = table, NEW i \in Ids,
         \/ sessions' = sessions
         \/ CloseSession(i)
         \/ \E l \in Links : DisconnectSession(i, l)
         \/ /\ sessions[i].state = "live"
            /\ \E a \in Links \cup {NoLink}, t \in {"off", "armed", "fired"} :
                 sessions' = [sessions EXCEPT ![i] = [sessions[i] EXCEPT !.active = a, !.ttl = t]]
         \/ sessions' = [sessions EXCEPT ![i].ttl = "fired"]
         \/ /\ sessions[i].state = "closed"
            /\ sessions' = [sessions EXCEPT ![i].state = "hung", ![i].active = NoLink]
  PROVE  sessions' \in [Ids -> SessionType] /\ EndedServesNobody' /\ OwnersStay
<1>1. sessions \in [Ids -> SessionType] /\ EndedServesNobody
  BY DEF TableInv, TableTypeOK
<1>2. CASE sessions' = sessions
  BY <1>1, <1>2 DEF EndedServesNobody, OwnersStay
<1>3. CASE \E s \in SessionType :
             /\ sessions' = [sessions EXCEPT ![i] = s]
             /\ s.owner = sessions[i].owner
             /\ s.state = "live" => sessions[i].state = "live"
             /\ s.state = "none" => sessions[i].state = "none"
             /\ s.state \in {"hung", "gone"} => s.active = NoLink
  BY <1>1, <1>3 DEF EndedServesNobody, OwnersStay
<1> DEFINE s == sessions[i]
<1>4. s \in SessionType
  BY <1>1
<1>5. CASE CloseSession(i) /\ sessions' # sessions
  <2> DEFINE t == [s EXCEPT !.state = "closed", !.ttl = "off"]
  <2>1. s.state = "live" /\ sessions' = [sessions EXCEPT ![i] = t]
    BY <1>1, <1>5 DEF CloseSession
  <2>2. t \in SessionType /\ t.owner = s.owner /\ t.state = "closed"
    BY <1>4 DEF SessionType
  <2> QED BY <1>3, <2>1, <2>2
<1>6. CASE (\E l \in Links : DisconnectSession(i, l)) /\ sessions' # sessions
  <2> DEFINE t == [s EXCEPT !.active = NoLink, !.ttl = "armed"]
  <2>1. s.state = "live" /\ sessions' = [sessions EXCEPT ![i] = t]
    BY <1>1, <1>6 DEF DisconnectSession
  <2>2. t \in SessionType /\ t.owner = s.owner /\ t.state = s.state
    BY <1>4 DEF SessionType
  <2> QED BY <1>3, <2>1, <2>2
<1>7. CASE /\ sessions[i].state = "live"
           /\ \E a \in Links \cup {NoLink}, t \in {"off", "armed", "fired"} :
                sessions' = [sessions EXCEPT ![i] = [sessions[i] EXCEPT !.active = a, !.ttl = t]]
  <2>1. PICK a \in Links \cup {NoLink}, ttl \in {"off", "armed", "fired"} :
          sessions' = [sessions EXCEPT ![i] = [sessions[i] EXCEPT !.active = a, !.ttl = ttl]]
    BY <1>7
  <2> DEFINE t == [s EXCEPT !.active = a, !.ttl = ttl]
  <2>2. t \in SessionType /\ t.owner = s.owner /\ t.state = s.state
    BY <1>4 DEF SessionType
  <2> QED BY <1>3, <1>7, <2>1, <2>2
<1>8. CASE sessions' = [sessions EXCEPT ![i].ttl = "fired"]
  <2> DEFINE t == [s EXCEPT !.ttl = "fired"]
  <2>1. sessions' = [sessions EXCEPT ![i] = t]
    BY <1>1, <1>8
  <2>2. t \in SessionType /\ t.owner = s.owner /\ t.state = s.state /\ t.active = s.active
    BY <1>4 DEF SessionType
  <2> QED BY <1>1, <1>3, <2>1, <2>2 DEF EndedServesNobody
<1>9. CASE /\ sessions[i].state = "closed"
           /\ sessions' = [sessions EXCEPT ![i].state = "hung", ![i].active = NoLink]
  <2> DEFINE t == [s EXCEPT !.state = "hung", !.active = NoLink]
  <2>1. sessions' = [sessions EXCEPT ![i] = t]
    BY <1>1, <1>9
  <2>2. t \in SessionType /\ t.owner = s.owner /\ t.state = "hung" /\ t.active = NoLink
    BY <1>4 DEF SessionType
  <2> QED BY <1>3, <2>1, <2>2
<1> QED BY <1>2, <1>5, <1>6, <1>7, <1>8, <1>9

LEMMA EndClosed ==
  ASSUME NEW r \in ServedType
  PROVE  LET t == [r EXCEPT !.open = FALSE]
         IN  /\ t \in ServedType /\ t.pc = r.pc /\ t.caller = r.caller
             /\ t.wants = r.wants /\ t.id = r.id
  BY DEF ServedType

\* What a handler's step does to its own record, and to a connection it closes.
LEMMA HandlerMoves ==
  ASSUME TableInv
  PROVE  /\ served \in [Links -> ServedType]
         /\ \A l \in Links :
              /\ HandlerReturns(l) \in [Links -> ServedType]
              /\ HandlerReturns(l)[l] = [served[l] EXCEPT !.pc = "done", !.open = FALSE]
              /\ HandlerReturns(l)[l] \in ServedType
              /\ HandlerReturns(l)[l].pc = "done" /\ HandlerReturns(l)[l].caller = served[l].caller
              /\ HandlerReturns(l)[l].wants = served[l].wants /\ HandlerReturns(l)[l].id = served[l].id
              /\ \A m \in Links \ {l} : HandlerReturns(l)[m] = served[m]
         /\ \A l \in Links :
              /\ OldClosed(l) \in [Links -> ServedType]
              /\ \A m \in Links :
                   /\ OldClosed(l)[m].pc = served[m].pc /\ OldClosed(l)[m].caller = served[m].caller
                   /\ OldClosed(l)[m].wants = served[m].wants /\ OldClosed(l)[m].id = served[m].id
<1>1. served \in [Links -> ServedType]
  BY DEF TableInv, TableTypeOK
<1>2. ASSUME NEW l \in Links
      PROVE  /\ HandlerReturns(l) \in [Links -> ServedType]
             /\ HandlerReturns(l)[l] = [served[l] EXCEPT !.pc = "done", !.open = FALSE]
             /\ \A m \in Links \ {l} : HandlerReturns(l)[m] = served[m]
             /\ HandlerReturns(l)[l].pc = "done" /\ HandlerReturns(l)[l].caller = served[l].caller
             /\ HandlerReturns(l)[l].wants = served[l].wants /\ HandlerReturns(l)[l].id = served[l].id
  BY <1>1 DEF HandlerReturns, ServedType
<1>3. ASSUME NEW l \in Links, NEW m \in Links
      PROVE  /\ OldClosed(l) \in [Links -> ServedType]
             /\ OldClosed(l)[m].pc = served[m].pc /\ OldClosed(l)[m].caller = served[m].caller
             /\ OldClosed(l)[m].wants = served[m].wants /\ OldClosed(l)[m].id = served[m].id
  <2>1. CASE served[l].old = NoLink
    BY <1>1, <2>1 DEF OldClosed
  <2>2. CASE served[l].old # NoLink
    <3>1. served[l].old \in Links
      BY <1>1, <2>2 DEF ServedType
    <3> DEFINE o == served[l].old
               t == [served[o] EXCEPT !.open = FALSE]
    <3>2. OldClosed(l) = [served EXCEPT ![o] = t]
      BY <1>1, <2>2, <3>1 DEF OldClosed
    <3>3. /\ t \in ServedType /\ t.pc = served[o].pc /\ t.caller = served[o].caller
          /\ t.wants = served[o].wants /\ t.id = served[o].id
      BY <1>1, <3>1, EndClosed
    <3> HIDE DEF t
    <3> QED BY <1>1, <3>1, <3>2, <3>3
  <2> QED BY <2>1, <2>2
<1> QED BY <1>1, <1>2, <1>3

LEMMA ReturnStays ==
  ASSUME TableInv, NEW l \in Links, served[l].pc # "unused", served' = HandlerReturns(l)
  PROVE  \A m \in Links : HandlerStays(m)
<1>1. /\ served'[l].pc = "done" /\ served'[l].caller = served[l].caller
      /\ served'[l].wants = served[l].wants /\ served'[l].id = served[l].id
      /\ \A m \in Links \ {l} : served'[m] = served[m]
  BY HandlerMoves
<1>2. HandlerStays(l)
  BY <1>1 DEF HandlerStays
<1>3. \A m \in Links \ {l} : HandlerStays(m)
  BY <1>1 DEF HandlerStays
<1> QED BY <1>2, <1>3

LEMMA HandlerStepKeeps ==
  ASSUME TableInv, NEW l \in Links, HandlerStep(l)
  PROVE  TableInv'
<1> DEFINE me == served[l]
<1>1. /\ served \in [Links -> ServedType] /\ sessions \in [Ids -> SessionType]
      /\ me.wants \in Ids \cup {NoId} /\ me.id \in Ids \cup {NoId} /\ LinkInv(l)
      /\ TableTypeOK /\ EndedServesNobody
  BY DEF TableInv, TableTypeOK, ServedType
<1>2. /\ UNCHANGED sessions => OwnersStay
      /\ UNCHANGED <<table, sessions>> => EndedServesNobody'
  BY <1>1 DEF OwnersStay, EndedServesNobody
<1>3. ASSUME me.pc # "unused", served' = HandlerReturns(l), UNCHANGED <<table, callers>>,
             NEW i \in Ids,
             sessions' = sessions \/ CloseSession(i) \/ \E m \in Links : DisconnectSession(i, m)
      PROVE  TableInv'
  <2>1. sessions' \in [Ids -> SessionType] /\ EndedServesNobody' /\ OwnersStay
    BY <1>3, SessionMoves
  <2>2. \A m \in Links : HandlerStays(m)
    BY <1>3, ReturnStays
  <2>3. TableTypeOK'
    BY <1>1, <1>3, <2>1, HandlerMoves DEF TableTypeOK
  <2> QED BY <1>3, <2>1, <2>2, <2>3, SessionsMoveOn
<1>4. ASSUME me.pc # "unused", served' = HandlerReturns(l), UNCHANGED <<table, callers, sessions>>
      PROVE  TableInv'
  <2>1. \A m \in Links : HandlerStays(m)
    BY <1>4, ReturnStays
  <2>2. TableTypeOK'
    BY <1>1, <1>4, HandlerMoves DEF TableTypeOK
  <2> QED BY <1>2, <1>4, <2>1, <2>2, SessionsMoveOn
<1>5. CASE HelloRefused(l) \/ ResumeFails(l)
  BY <1>4, <1>5 DEF HelloRefused, ResumeFails
<1>6. CASE TargetDialled(l)
  <2>1. /\ served' \in [Links -> ServedType] /\ served'[l].pc = "dialled" /\ me.pc = "hello"
        /\ served'[l].caller = me.caller /\ served'[l].wants = me.wants /\ served'[l].id = me.id
        /\ \A m \in Links \ {l} : served'[m] = served[m]
    BY <1>1, <1>6 DEF TargetDialled, ServedType
  <2>2. \A m \in Links : HandlerStays(m)
    BY <2>1 DEF HandlerStays
  <2>3. UNCHANGED <<table, sessions, callers>>
    BY <1>6 DEF TargetDialled
  <2> QED BY <1>1, <1>2, <2>1, <2>2, <2>3, SessionsMoveOn DEF TableTypeOK
<1>7. CASE Lookup(l)
  <2>1. CASE me.wants \in table
    <3>1. /\ served' = [served EXCEPT ![l] = [@ EXCEPT !.pc = "resume", !.id = me.wants]]
          /\ me.pc = "hello" /\ me.wants \in Ids /\ me.wants # NoId
          /\ UNCHANGED <<table, sessions, callers>>
      BY <1>1, <1>7, <2>1 DEF Lookup, TableTypeOK
    <3>2. /\ served' \in [Links -> ServedType] /\ served'[l].pc = "resume"
          /\ served'[l].caller = me.caller /\ served'[l].wants = me.wants /\ served'[l].id = me.wants
          /\ \A m \in Links \ {l} : served'[m] = served[m]
      BY <1>1, <3>1 DEF ServedType
    <3>3. \A m \in Links : HandlerStays(m)
      BY <3>1, <3>2 DEF HandlerStays
    <3> QED BY <1>1, <1>2, <3>1, <3>2, <3>3, SessionsMoveOn DEF TableTypeOK
  <2>2. CASE me.wants \notin table
    BY <1>4, <1>7, <2>2 DEF Lookup
  <2> QED BY <2>1, <2>2
<1>8. me.pc \in {"resume", "accept", "run"} => me.id \in Ids
  BY <1>1 DEF LinkInv
<1>9. CASE ResumeSession(l)
  <2> DEFINE s == sessions[me.id]
             t == [s EXCEPT !.active = l, !.ttl = IF s.ttl = "armed" THEN "off" ELSE @]
  <2>1. /\ me.pc = "resume" /\ s.state = "live" /\ s \in SessionType
        /\ sessions' = [sessions EXCEPT ![me.id] = t]
        /\ served' = [served EXCEPT ![l] = [@ EXCEPT !.pc = "accept", !.old = s.active]]
        /\ UNCHANGED <<table, callers>>
    BY <1>1, <1>8, <1>9 DEF ResumeSession, MayResume
  <2>2. PICK ttl \in {"off", "armed", "fired"} : t = [s EXCEPT !.active = l, !.ttl = ttl]
    <3>1. (IF s.ttl = "armed" THEN "off" ELSE s.ttl) \in {"off", "armed", "fired"}
      BY <2>1 DEF SessionType
    <3> QED BY <2>1, <3>1 DEF SessionType
  <2>3. sessions' \in [Ids -> SessionType] /\ EndedServesNobody' /\ OwnersStay
    <3> DEFINE i == me.id
    <3>1. i \in Ids /\ sessions[i].state = "live" /\ table' = table
      BY <1>8, <2>1
    <3>2. sessions' = [sessions EXCEPT ![i] = [sessions[i] EXCEPT !.active = l, !.ttl = ttl]]
      BY <2>1, <2>2
    <3> HIDE DEF i
    <3> QED BY <3>1, <3>2, SessionMoves
  <2>4. /\ served' \in [Links -> ServedType] /\ served'[l].pc = "accept"
        /\ served'[l].caller = me.caller /\ served'[l].wants = me.wants /\ served'[l].id = me.id
        /\ \A m \in Links \ {l} : served'[m] = served[m]
    <3> DEFINE g == [me EXCEPT !.pc = "accept", !.old = s.active]
    <3>1. s.active \in Links \cup {NoLink}
      BY <2>1 DEF SessionType
    <3>2. /\ g \in ServedType /\ g.pc = "accept"
          /\ g.caller = me.caller /\ g.wants = me.wants /\ g.id = me.id
      BY <1>1, <3>1 DEF ServedType
    <3>3. served' = [served EXCEPT ![l] = g]
      BY <2>1
    <3> HIDE DEF g
    <3> QED BY <1>1, <3>2, <3>3
  <2>5. \A m \in Links : HandlerStays(m)
    BY <1>1, <2>1, <2>4 DEF HandlerStays, LinkInv
  <2> QED BY <1>1, <2>1, <2>3, <2>4, <2>5, SessionsMoveOn DEF TableTypeOK
<1>10. CASE ResumeTooLate(l)
  BY <1>3, <1>8, <1>10 DEF ResumeTooLate
<1>11. CASE AcceptSent(l)
  <2>1. /\ served' = [OldClosed(l) EXCEPT ![l].pc = "run"] /\ me.pc = "accept"
        /\ UNCHANGED <<table, sessions, callers>>
    BY <1>11 DEF AcceptSent
  <2>2. /\ served' \in [Links -> ServedType] /\ served'[l].pc = "run"
        /\ \A m \in Links :
             /\ served'[m].caller = served[m].caller /\ served'[m].wants = served[m].wants
             /\ served'[m].id = served[m].id /\ (m # l => served'[m].pc = served[m].pc)
    <3>1. OldClosed(l) \in [Links -> ServedType]
      BY HandlerMoves
    <3>2. ASSUME NEW r \in ServedType
          PROVE  LET q == [r EXCEPT !.pc = "run"]
                 IN  /\ q \in ServedType /\ q.pc = "run" /\ q.caller = r.caller
                     /\ q.wants = r.wants /\ q.id = r.id
      BY DEF ServedType
    <3> DEFINE o == OldClosed(l)
               q == [o[l] EXCEPT !.pc = "run"]
    <3>3. served' = [o EXCEPT ![l] = q]
      BY <2>1, <3>1
    <3>4. /\ q \in ServedType /\ q.pc = "run" /\ q.caller = o[l].caller
          /\ q.wants = o[l].wants /\ q.id = o[l].id
      BY <3>1, <3>2
    <3>5. \A m \in Links : /\ o[m].pc = served[m].pc /\ o[m].caller = served[m].caller
                           /\ o[m].wants = served[m].wants /\ o[m].id = served[m].id
      BY HandlerMoves
    <3> HIDE DEF o, q
    <3> QED BY <3>1, <3>3, <3>4, <3>5 DEF o
  <2>3. \A m \in Links : HandlerStays(m)
    BY <1>1, <2>1, <2>2 DEF HandlerStays, LinkInv
  <2> QED BY <1>1, <1>2, <2>1, <2>2, <2>3, SessionsMoveOn DEF TableTypeOK
<1>12. CASE AcceptNotSent(l)
  <2>1. /\ served' = [OldClosed(l) EXCEPT ![l] = HandlerReturns(l)[l]] /\ me.pc = "accept"
        /\ AcceptFails(l) /\ UNCHANGED <<table, callers>>
    BY <1>12 DEF AcceptNotSent
  <2>2. sessions' \in [Ids -> SessionType] /\ EndedServesNobody' /\ OwnersStay
    BY <1>8, <2>1, SessionMoves DEF AcceptFails
  <2>3. /\ served' \in [Links -> ServedType] /\ served'[l].pc = "done"
        /\ \A m \in Links :
             /\ served'[m].caller = served[m].caller /\ served'[m].wants = served[m].wants
             /\ served'[m].id = served[m].id /\ (m # l => served'[m].pc = served[m].pc)
    <3> DEFINE o == OldClosed(l)
               h == HandlerReturns(l)[l]
    <3>1. /\ o \in [Links -> ServedType]
          /\ \A m \in Links : /\ o[m].pc = served[m].pc /\ o[m].caller = served[m].caller
                              /\ o[m].wants = served[m].wants /\ o[m].id = served[m].id
      BY HandlerMoves
    <3>2. /\ h \in ServedType /\ h.pc = "done" /\ h.caller = served[l].caller
          /\ h.wants = served[l].wants /\ h.id = served[l].id
      BY HandlerMoves
    <3>3. served' = [o EXCEPT ![l] = h]
      BY <2>1
    <3> HIDE DEF o, h
    <3> QED BY <3>1, <3>2, <3>3
  <2>4. \A m \in Links : HandlerStays(m)
    BY <1>1, <2>1, <2>3 DEF HandlerStays, LinkInv
  <2> QED BY <1>1, <2>1, <2>2, <2>3, <2>4, SessionsMoveOn DEF TableTypeOK
<1>13. CASE RunEnds(l)
  BY <1>3, <1>8, <1>13 DEF RunEnds
<1>14. CASE OpenSession(l)
  <2>1. PICK i \in FreshIds :
          /\ sessions' = [sessions EXCEPT ![i] = [state |-> "live", active |-> l, ttl |-> "off",
                                                  owner |-> me.caller]]
          /\ table' = table \cup {i}
          /\ served' = [served EXCEPT ![l] = [@ EXCEPT !.pc = "accept", !.id = i]]
    BY <1>14 DEF OpenSession
  <2>2. /\ i \in Ids /\ sessions[i].owner = NoCaller /\ me.pc = "dialled" /\ me.caller \in Callers
        /\ callers' = callers
    BY <1>1, <1>14, <2>1 DEF FreshIds, TableInv, OpenSession, LinkInv
  <2>3. /\ sessions' \in [Ids -> SessionType] /\ sessions'[i].owner = me.caller
        /\ sessions'[i].state = "live"
        /\ \A j \in Ids \ {i} : sessions'[j] = sessions[j]
    BY <1>1, <2>1, <2>2 DEF SessionType
  <2>4. /\ served' \in [Links -> ServedType] /\ served'[l].pc = "accept" /\ served'[l].id = i
        /\ served'[l].caller = me.caller /\ served'[l].wants = me.wants
        /\ \A m \in Links \ {l} : served'[m] = served[m]
    <3> DEFINE q == [me EXCEPT !.pc = "accept", !.id = i]
    <3>1. served \in [Links -> ServedType] /\ me \in ServedType
      BY <1>1
    <3>2. q \in ServedType /\ q.pc = "accept" /\ q.id = i /\ q.caller = me.caller /\ q.wants = me.wants
      BY <2>2, <3>1 DEF ServedType
    <3>3. served' = [served EXCEPT ![l] = q]
      BY <2>1
    <3> HIDE DEF q
    <3> QED BY <3>1, <3>2, <3>3
  <2>5. TableTypeOK' /\ EndedServesNobody'
    BY <1>1, <2>1, <2>2, <2>3, <2>4 DEF TableTypeOK, EndedServesNobody
  <2>6. OwnSessionOnly'
    BY <2>2, <2>3, NobodyAssumption DEF OwnSessionOnly, TableInv, TableTypeOK, CallerType
  <2>7. ASSUME NEW m \in Links
        PROVE  LinkInv(m)'
    <3>1. /\ LinkInv(m) /\ served[m].wants \in Ids \cup {NoId} /\ served[m].id \in Ids \cup {NoId}
      BY <1>1 DEF TableInv, ServedType
    <3>2. /\ served[m].wants # NoId => served[m].wants # i
          /\ served[m].id # NoId => served[m].id # i
      BY <2>2, <3>1, NobodyAssumption DEF LinkInv
    <3>3. CASE m = l
      BY <2>2, <2>3, <2>4, <3>1, <3>2, <3>3, NobodyAssumption DEF LinkInv
    <3>4. CASE m # l
      BY <2>3, <2>4, <3>1, <3>2, <3>4 DEF LinkInv
    <3> QED BY <3>3, <3>4
  <2>8. ASSUME NEW k \in Callers
        PROVE  CallerInv(k)'
    <3>1. callers[k].link \in Links \cup {NoLink} /\ CallerInv(k)
      BY DEF TableInv, TableTypeOK, CallerType
    <3> QED BY <2>2, <2>4, <3>1 DEF CallerInv
  <2>9. \A j \in Ids : sessions'[j].state = "none" => sessions'[j].owner = NoCaller
    BY <2>3 DEF TableInv
  <2> QED BY <2>5, <2>6, <2>7, <2>8, <2>9 DEF TableInv
<1> QED BY <1>5, <1>6, <1>7, <1>9, <1>10, <1>11, <1>12, <1>13, <1>14 DEF HandlerStep

LEMMA TableInvariance == TableSpec => []TableInv
<1>1. TableInit => TableInv
  BY NobodyAssumption
  DEF TableInit, TableInv, TableTypeOK, OwnSessionOnly, EndedServesNobody, LinkInv, CallerInv,
      SessionType, ServedType, CallerType
<1>2. ASSUME TableInv, [TableNext]_tableVars
      PROVE  TableInv'
  <2> USE <1>2
  <2>1. /\ served \in [Links -> ServedType] /\ sessions \in [Ids -> SessionType]
        /\ callers \in [Callers -> CallerType] /\ table \subseteq Ids
        /\ EndedServesNobody /\ OwnSessionOnly
        /\ \A l \in Links : LinkInv(l)
        /\ \A k \in Callers : CallerInv(k)
    BY DEF TableInv, TableTypeOK
  <2>2. ASSUME NEW l \in Links, HandlerStep(l)
        PROVE  TableInv'
    BY <2>2, HandlerStepKeeps
  <2>3. ASSUME NEW i \in Ids, TimerCloses(i) \/ TimeToLiveEnds(i) \/ Closes(i)
        PROVE  TableInv'
    <3>1. UNCHANGED <<table, served, callers>>
      BY <2>3 DEF TimerCloses, TimeToLiveEnds, Closes
    <3>2. sessions' \in [Ids -> SessionType] /\ EndedServesNobody' /\ OwnersStay
      BY <2>3, <3>1, SessionMoves DEF TimerCloses, TimeToLiveEnds, Closes
    <3> QED BY <2>1, <3>1, <3>2, SessionsMoveOn DEF TableTypeOK, HandlerStays
  <2>4. ASSUME NEW i \in Ids, HangUp(i)
        PROVE  TableInv'
    <3>1. /\ sessions[i].state = "closed" /\ UNCHANGED <<table, callers>>
          /\ sessions' = [sessions EXCEPT ![i].state = "hung", ![i].active = NoLink]
      BY <2>4 DEF HangUp
    <3>2. sessions' \in [Ids -> SessionType] /\ EndedServesNobody' /\ OwnersStay
      BY <3>1, SessionMoves
    <3>3. /\ served' \in [Links -> ServedType]
          /\ \A m \in Links : HandlerStays(m)
      <4>1. CASE sessions[i].active = NoLink
        BY <2>1, <2>4, <4>1 DEF HangUp, HandlerStays
      <4>2. CASE sessions[i].active # NoLink
        <5> DEFINE o == sessions[i].active
                   t == [served[o] EXCEPT !.open = FALSE]
        <5>1. o \in Links
          BY <2>1, <4>2 DEF SessionType
        <5>2. served' = [served EXCEPT ![o] = t]
          BY <2>1, <2>4, <4>2 DEF HangUp
        <5>3. /\ t \in ServedType /\ t.pc = served[o].pc /\ t.caller = served[o].caller
              /\ t.wants = served[o].wants /\ t.id = served[o].id
          BY <2>1, <5>1, EndClosed
        <5> HIDE DEF t
        <5> QED BY <2>1, <5>1, <5>2, <5>3 DEF HandlerStays
      <4> QED BY <4>1, <4>2
    <3> QED BY <2>1, <3>1, <3>2, <3>3, SessionsMoveOn DEF TableTypeOK
  <2>5. ASSUME NEW i \in Ids, Forget(i)
        PROVE  TableInv'
    <3>1. /\ sessions[i].state = "hung" /\ UNCHANGED <<served, callers>>
          /\ table' = table \ {i} /\ sessions' = [sessions EXCEPT ![i].state = "gone"]
      BY <2>5 DEF Forget
    <3>2. /\ sessions' \in [Ids -> SessionType] /\ sessions'[i].state = "gone"
          /\ sessions'[i].active = sessions[i].active /\ sessions'[i].owner = sessions[i].owner
          /\ \A j \in Ids \ {i} : sessions'[j] = sessions[j]
      BY <2>1, <3>1 DEF SessionType
    <3>3. TableTypeOK' /\ EndedServesNobody' /\ OwnersStay
      BY <2>1, <3>1, <3>2 DEF TableTypeOK, EndedServesNobody, OwnersStay
    <3> QED BY <3>1, <3>3, SessionsMoveOn DEF HandlerStays
  <2>6. CASE Restart
    <3>1. /\ table' = {} /\ callers' = callers
          /\ \A i \in Ids :
               /\ sessions'[i] \in SessionType /\ sessions'[i].owner = sessions[i].owner
               /\ sessions'[i].state = "none" => sessions[i].state = "none"
               /\ sessions'[i].state # "live"
               /\ sessions'[i].state \in {"hung", "gone"} => sessions'[i].active = NoLink
      <4>1. table' = {} /\ callers' = callers
        BY <2>6 DEF Restart
      <4>2. ASSUME NEW i \in Ids
            PROVE  /\ sessions'[i] \in SessionType /\ sessions'[i].owner = sessions[i].owner
                   /\ sessions'[i].state = "none" => sessions[i].state = "none"
                   /\ sessions'[i].state # "live"
                   /\ sessions'[i].state \in {"hung", "gone"} => sessions'[i].active = NoLink
        <5> DEFINE t == [sessions[i] EXCEPT !.state = "gone", !.active = NoLink, !.ttl = "off"]
        <5>1. sessions[i] \in SessionType
          BY <2>1
        <5>2. /\ t \in SessionType /\ t.owner = sessions[i].owner /\ t.state = "gone"
              /\ t.active = NoLink
          BY <5>1 DEF SessionType
        <5>3. sessions'[i] = IF sessions[i].state = "none" THEN sessions[i] ELSE t
          BY <2>6 DEF Restart
        <5> HIDE DEF t
        <5> QED BY <5>1, <5>2, <5>3
      <4> QED BY <4>1, <4>2
    <3>2. sessions' \in [Ids -> SessionType]
      BY <3>1, <2>6 DEF Restart
    <3>3. \A l \in Links :
            /\ served'[l] \in ServedType
            /\ served[l].pc = "unused" => served'[l] = served[l]
            /\ served[l].pc # "unused" =>
                 /\ served'[l].pc = "done" /\ served'[l].caller = served[l].caller
                 /\ served'[l].wants = served[l].wants /\ served'[l].id = served[l].id
      BY <2>1, <2>6, HandlerMoves DEF Restart
    <3>4. served' \in [Links -> ServedType]
      BY <3>3, <2>6 DEF Restart
    <3>5. \A l \in Links : HandlerStays(l)
      BY <3>3 DEF HandlerStays
    <3>6. TableTypeOK' /\ EndedServesNobody' /\ OwnersStay
      BY <2>1, <3>1, <3>2, <3>4 DEF TableTypeOK, EndedServesNobody, OwnersStay
    <3> QED BY <3>1, <3>5, <3>6, SessionsMoveOn
  <2>7. CASE UNCHANGED tableVars
    BY <2>7 DEF tableVars, TableInv, TableTypeOK, OwnSessionOnly, EndedServesNobody, LinkInv, CallerInv
  <2>8. ASSUME NEW k \in Callers, AcceptReceived(k)
        PROVE  TableInv'
    <3> DEFINE l == callers[k].link
    <3>1. /\ callers[k].pc = "hello" /\ served[l].pc = "run" /\ UNCHANGED <<table, sessions, served>>
          /\ callers' = [callers EXCEPT ![k].pc = "in", ![k].id = served[l].id]
      BY <2>8 DEF AcceptReceived
    <3>2. l \in Links /\ served[l].caller = k
      BY <2>1, <3>1 DEF CallerInv, CallerType
    <3>3. served[l].id \in Ids /\ sessions[served[l].id].owner = k
      BY <2>1, <3>1, <3>2 DEF LinkInv, ServedType
    <3>4. /\ callers' \in [Callers -> CallerType] /\ callers'[k].pc = "in"
          /\ callers'[k].link = l /\ callers'[k].id = served[l].id
          /\ \A j \in Callers \ {k} : callers'[j] = callers[j]
      BY <2>1, <3>1, <3>3 DEF CallerType
    <3>5. OwnSessionOnly'
      BY <2>1, <3>1, <3>3, <3>4 DEF OwnSessionOnly
    <3>6. \A j \in Callers : CallerInv(j)'
      BY <2>1, <3>1, <3>4 DEF CallerInv
    <3> QED BY <2>1, <3>1, <3>4, <3>5, <3>6
            DEF TableInv, TableTypeOK, EndedServesNobody, LinkInv
  <2>9. ASSUME NEW k \in Callers, LinkLost(k)
        PROVE  TableInv'
    <3> DEFINE l == callers[k].link
               t == [served[l] EXCEPT !.open = FALSE]
    <3>1. /\ l # NoLink /\ UNCHANGED <<table, sessions>>
          /\ served' = [served EXCEPT ![l].open = FALSE]
          /\ callers' = [callers EXCEPT ![k].pc = "out", ![k].link = NoLink]
      BY <2>9 DEF LinkLost
    <3>2. l \in Links
      BY <2>1, <3>1 DEF CallerType
    <3>3. served' = [served EXCEPT ![l] = t]
      BY <2>1, <3>1
    <3>4. /\ t \in ServedType /\ t.pc = served[l].pc /\ t.caller = served[l].caller
          /\ t.wants = served[l].wants /\ t.id = served[l].id
      BY <2>1, <3>2, EndClosed
    <3> HIDE DEF t
    <3>5. /\ served' \in [Links -> ServedType]
          /\ \A m \in Links :
               /\ served'[m].pc = served[m].pc /\ served'[m].caller = served[m].caller
               /\ served'[m].wants = served[m].wants /\ served'[m].id = served[m].id
      BY <2>1, <3>2, <3>3, <3>4
    <3>6. /\ callers' \in [Callers -> CallerType] /\ callers'[k].pc = "out"
          /\ callers'[k].link = NoLink /\ callers'[k].id = callers[k].id
          /\ \A j \in Callers \ {k} : callers'[j] = callers[j]
      BY <2>1, <3>1 DEF CallerType
    <3>7. OwnSessionOnly'
      BY <2>1, <3>1, <3>6 DEF OwnSessionOnly
    <3>8. \A m \in Links : LinkInv(m)'
      <4>1. ASSUME NEW m \in Links PROVE LinkInv(m)'
        <5>1. LinkInv(m)
          BY <2>1
        <5> QED BY <3>1, <3>5, <5>1 DEF LinkInv
      <4> QED BY <4>1
    <3>9. \A j \in Callers : CallerInv(j)'
      <4>1. \A j \in Callers : callers[j].link \in Links \cup {NoLink}
        BY <2>1 DEF CallerType
      <4> QED BY <2>1, <3>5, <3>6, <4>1 DEF CallerInv
    <3> QED BY <2>1, <3>1, <3>5, <3>6, <3>7, <3>8, <3>9 DEF TableInv, TableTypeOK, EndedServesNobody
  <2>10. ASSUME NEW k \in Callers, CallerEnds(k)
         PROVE  TableInv'
    <3>1. /\ callers' = [callers EXCEPT ![k].pc = "ended"] /\ UNCHANGED <<table, sessions, served>>
      BY <2>10 DEF CallerEnds
    <3>2. /\ callers' \in [Callers -> CallerType] /\ callers'[k].pc = "ended"
          /\ callers'[k].link = callers[k].link /\ callers'[k].id = callers[k].id
          /\ \A j \in Callers \ {k} : callers'[j] = callers[j]
      BY <2>1, <3>1 DEF CallerType
    <3>3. OwnSessionOnly' /\ \A j \in Callers : CallerInv(j)'
      BY <2>1, <3>1, <3>2 DEF OwnSessionOnly, CallerInv
    <3> QED BY <2>1, <3>1, <3>2, <3>3 DEF TableInv, TableTypeOK, EndedServesNobody, LinkInv
  <2>11. ASSUME NEW k \in Callers, NEW l \in Links, SayHello(k, l)
         PROVE  TableInv'
    <3>1. /\ callers[k].pc = "out" /\ served[l].pc = "unused" /\ UNCHANGED <<table, sessions>>
          /\ callers' = [callers EXCEPT ![k].pc = "hello", ![k].link = l]
          /\ served' = [served EXCEPT ![l] = [@ EXCEPT !.pc = "hello", !.caller = k,
                                                        !.wants = callers[k].id, !.open = TRUE]]
      BY <2>11 DEF SayHello
    <3>2. /\ callers' \in [Callers -> CallerType] /\ callers'[k].pc = "hello"
          /\ callers'[k].link = l /\ callers'[k].id = callers[k].id
          /\ \A j \in Callers \ {k} : callers'[j] = callers[j]
      BY <2>1, <3>1 DEF CallerType
    <3>3. /\ served' \in [Links -> ServedType] /\ served'[l].pc = "hello"
          /\ served'[l].caller = k /\ served'[l].wants = callers[k].id /\ served'[l].id = served[l].id
          /\ \A m \in Links \ {l} : served'[m] = served[m]
      <4> DEFINE g == [served[l] EXCEPT !.pc = "hello", !.caller = k,
                                        !.wants = callers[k].id, !.open = TRUE]
      <4>1. callers[k].id \in Ids \cup {NoId}
        BY <2>1 DEF CallerType
      <4>2. /\ g \in ServedType /\ g.pc = "hello" /\ g.caller = k
            /\ g.wants = callers[k].id /\ g.id = served[l].id
        BY <2>1, <4>1 DEF ServedType
      <4>3. served' = [served EXCEPT ![l] = g]
        BY <3>1
      <4> HIDE DEF g
      <4> QED BY <2>1, <4>2, <4>3
    <3>4. served[l].id = NoId /\ (callers[k].id # NoId => sessions[callers[k].id].owner = k)
      BY <2>1, <3>1 DEF LinkInv, OwnSessionOnly
    <3>5. \A m \in Links : LinkInv(m)'
      <4>1. LinkInv(l)'
        BY <3>1, <3>3, <3>4 DEF LinkInv
      <4>2. ASSUME NEW m \in Links, m # l
            PROVE  LinkInv(m)'
        BY <2>1, <3>1, <3>3, <4>2 DEF LinkInv
      <4> QED BY <4>1, <4>2
    <3>6. \A j \in Callers : CallerInv(j)'
      <4>1. \A j \in Callers : callers[j].link \in Links \cup {NoLink} /\ callers[j].link # l
        BY <2>1, <3>1, NobodyAssumption DEF CallerType, CallerInv
      <4>2. CallerInv(k)'
        <5>1. callers'[k].link = l /\ served'[l].pc = "hello" /\ served'[l].caller = k
          BY <3>2, <3>3
        <5>2. l # NoLink
          BY NobodyAssumption
        <5> QED BY <5>1, <5>2 DEF CallerInv
      <4>3. ASSUME NEW j \in Callers, j # k
            PROVE  CallerInv(j)'
        <5>1. CallerInv(j) /\ callers'[j] = callers[j]
          BY <2>1, <3>2, <4>3
        <5>2. callers[j].link # NoLink => served'[callers[j].link] = served[callers[j].link]
          BY <3>3, <4>1
        <5> QED BY <5>1, <5>2 DEF CallerInv
      <4> QED BY <4>2, <4>3
    <3>7. OwnSessionOnly'
      BY <2>1, <3>1, <3>2 DEF OwnSessionOnly
    <3> QED BY <2>1, <3>1, <3>2, <3>3, <3>5, <3>6, <3>7 DEF TableInv, TableTypeOK, EndedServesNobody
  <2>12. ASSUME NEW l \in Links, TargetWriteFails(l) \/ ClientCloses(l)
         PROVE  TableInv'
    <3>1. served[l].pc = "run" /\ Closes(served[l].id)
      BY <2>12 DEF TargetWriteFails, ClientCloses
    <3>2. served[l].id \in Ids
      BY <2>1, <3>1 DEF LinkInv, ServedType
    <3> QED BY <2>3, <3>1, <3>2
  <2> QED
    BY <2>2, <2>3, <2>4, <2>5, <2>6, <2>7, <2>8, <2>9, <2>10, <2>11, <2>12
    DEF TableNext, SessionStep, TargetEnds
<1> QED BY <1>1, <1>2, PTL DEF TableSpec

\* For any number of clients, connections, sessions and restarts: an id leads to
\* the session that was opened for the client that has it, or to none.
THEOREM SessionsAreOwn == TableSpec => []OwnSessionOnly
<1>1. TableInv => OwnSessionOnly
  BY DEF TableInv
<1> QED BY <1>1, TableInvariance, PTL

\* Live sessions are listed, and no handler is left on one that has ended.
THEOREM EndedServeNobody == TableSpec => []EndedServesNobody
<1>1. TableInv => EndedServesNobody
  BY DEF TableInv
<1> QED BY <1>1, TableInvariance, PTL

-----------------------------------------------------------------------------
(* Config. *)

\* There is a place for the keys of the current line.
ConfigInv ==
  /\ section \in {"top", "paths"} \cup Named
  /\ raw = [s \in {"top"} \cup Named |-> raw[s]]
  /\ \E S : paths \in Seq(S)
  /\ section = "paths" => paths # <<>>

\* What is known of keys stays so in more.
Extends(more, keys) == \A k \in DOMAIN keys : k \in DOMAIN more /\ more[k] = keys[k]

KeysKept ==
  /\ \A s \in DOMAIN raw : Extends(raw'[s], raw[s])
  /\ \A i \in DOMAIN paths : i \in DOMAIN paths' /\ Extends(paths'[i], paths[i])

LEMMA WithExtends ==
  ASSUME NEW keys, NEW key, key \notin DOMAIN keys, NEW value
  PROVE  Extends(With(keys, key, value), keys)
  BY DEF With, Extends

LEMMA ConfigStep ==
  ASSUME ConfigInv, [ConfigNext]_configVars
  PROVE  ConfigInv' /\ KeysKept
<1>1. \A keys : Extends(keys, keys)
  BY DEF Extends
<1>2. CASE UNCHANGED <<section, raw, paths>>
  BY <1>1, <1>2 DEF ConfigInv, KeysKept
<1>3. ASSUME NEW l \in FileLines, ~LineRefused(l), Take(l)
      PROVE  ConfigInv' /\ KeysKept
  <2>1. PICK S : paths \in Seq(S)
    BY DEF ConfigInv
  <2>2. CASE l.kind = "header" /\ section' = l.name /\ UNCHANGED <<raw, paths>>
    <3>1. l.name \in Named
      BY <1>3, <2>2 DEF LineRefused
    <3>2. section' \in Named /\ section' # "paths"
      BY <2>2, <3>1 DEF Named
    <3> QED BY <1>1, <2>2, <3>2 DEF ConfigInv, KeysKept
  <2>3. CASE section' = "paths" /\ paths' = Append(paths, NoKeys) /\ UNCHANGED raw
    <3>1. paths \in Seq(S \cup {NoKeys})
      BY <2>1, SeqMonotonic
    <3>2. /\ paths' \in Seq(S \cup {NoKeys}) /\ Len(paths') = Len(paths) + 1
          /\ Len(paths) \in Nat /\ DOMAIN paths = 1..Len(paths) /\ DOMAIN paths' = 1..Len(paths')
          /\ \A i \in 1..Len(paths) : paths'[i] = paths[i]
      BY <2>3, <3>1, AppendProperties, LenProperties
    <3>3. paths' # <<>>
      BY <3>2
    <3>4. \A i \in DOMAIN paths : i \in DOMAIN paths'
      BY <3>2
    <3> QED BY <1>1, <2>3, <3>2, <3>3, <3>4 DEF ConfigInv, KeysKept
  <2>4. CASE l.kind = "pair" /\ section = "paths" /\ UNCHANGED <<raw, section>>
    <3> DEFINE n == Len(paths)
               keys == With(paths[n], l.key, l.value)
    <3>1. n \in 1..Len(paths) /\ DOMAIN paths = 1..Len(paths)
      BY <2>1, <2>4, EmptySeq, LenProperties DEF ConfigInv
    <3>2. Extends(keys, paths[n])
      <4>1. l.key \notin DOMAIN paths[n]
        BY <1>3, <2>4 DEF LineRefused, PairRefused, Current
      <4> HIDE DEF n
      <4> QED BY <4>1, WithExtends
    <3>3. paths' = [paths EXCEPT ![n] = keys]
      BY <1>3, <2>4 DEF Take, Current
    <3> HIDE DEF keys
    <3>4. paths \in Seq(S \cup {keys})
      BY <2>1, SeqMonotonic
    <3>5. /\ paths' \in Seq(S \cup {keys}) /\ DOMAIN paths' = DOMAIN paths /\ paths'[n] = keys
          /\ \A i \in DOMAIN paths : i # n => paths'[i] = paths[i]
      <4>1. paths' \in Seq(S \cup {keys}) /\ Len(paths') = Len(paths)
        BY <3>1, <3>3, <3>4, ExceptSeq
      <4> QED BY <3>1, <3>3, <4>1, LenProperties
    <3>6. paths' # <<>>
      BY <2>1, <2>4, <3>1, <3>5 DEF ConfigInv
    <3> QED BY <1>1, <2>4, <3>2, <3>5, <3>6 DEF ConfigInv, KeysKept
  <2>5. CASE l.kind = "pair" /\ section # "paths" /\ UNCHANGED <<paths, section>>
    <3> DEFINE keys == With(raw[section], l.key, l.value)
    <3>1. section \in {"top"} \cup Named
      BY <2>5 DEF ConfigInv
    <3>2. Extends(keys, raw[section])
      <4>1. l.key \notin DOMAIN raw[section]
        BY <1>3, <2>5 DEF LineRefused, PairRefused, Current
      <4> QED BY <4>1, WithExtends
    <3>3. raw' = [raw EXCEPT ![section] = keys]
      BY <1>3, <2>5 DEF Take, Current
    <3> HIDE DEF keys
    <3>4. /\ raw' = [s \in {"top"} \cup Named |-> raw'[s]] /\ raw'[section] = keys
          /\ DOMAIN raw = {"top"} \cup Named
          /\ \A s \in DOMAIN raw : s # section => raw'[s] = raw[s]
      BY <3>1, <3>3 DEF ConfigInv
    <3> QED BY <1>1, <2>5, <3>2, <3>4 DEF ConfigInv, KeysKept
  <2> QED BY <1>2, <1>3, <2>2, <2>3, <2>4, <2>5 DEF Take
<1> QED BY <1>2, <1>3 DEF ConfigNext, ReadLine, configVars

\* Whatever lines follow, also in a section that is opened again: no key that
\* parseTOML has read changes or is lost.
THEOREM KeysStay == ConfigSpec => KeysAreWriteOnce
<1>1. ConfigInit => ConfigInv
  BY DEF ConfigInit, ConfigInv, Named
<1>2. ConfigInv /\ [ConfigNext]_configVars => ConfigInv'
  BY ConfigStep
<1>3. KeysKept =>
        /\ \A s \in DOMAIN raw : \A k \in DOMAIN raw[s] : k \in DOMAIN raw'[s] /\ raw'[s][k] = raw[s][k]
        /\ \A i \in DOMAIN paths : \A k \in DOMAIN paths[i] :
             i \in DOMAIN paths' /\ k \in DOMAIN paths'[i] /\ paths'[i][k] = paths[i][k]
  BY DEF KeysKept, Extends
<1>4. ConfigInv /\ [ConfigNext]_configVars =>
        [/\ \A s \in DOMAIN raw : \A k \in DOMAIN raw[s] : k \in DOMAIN raw'[s] /\ raw'[s][k] = raw[s][k]
         /\ \A i \in DOMAIN paths : \A k \in DOMAIN paths[i] :
              i \in DOMAIN paths' /\ k \in DOMAIN paths'[i] /\ paths'[i][k] = paths[i][k]]_configVars
  BY <1>3, ConfigStep
<1> QED BY <1>1, <1>2, <1>4, PTL DEF ConfigSpec, KeysAreWriteOnce

LEMMA ConfigInvariance == ConfigSpec => []ConfigInv
<1>1. ConfigInit => ConfigInv
  BY DEF ConfigInit, ConfigInv, Named
<1>2. ConfigInv /\ [ConfigNext]_configVars => ConfigInv'
  BY ConfigStep
<1> QED BY <1>1, <1>2, PTL DEF ConfigSpec

\* Only keys that parseTOML knows get into a section.
LEMMA WithStaysKnown ==
  ASSUME NEW keys, NEW known, DOMAIN keys \subseteq known, NEW key \in known, NEW value
  PROVE  DOMAIN With(keys, key, value) \subseteq known
  BY DEF With

LEMMA ConfigTypesStep ==
  ASSUME ConfigInv, ConfigTypeOK, [ConfigNext]_configVars
  PROVE  ConfigTypeOK'
<1>1. CASE UNCHANGED configVars
  BY <1>1 DEF ConfigTypeOK, configVars
<1>2. ASSUME NEW l \in FileLines, ReadLine(l)
      PROVE  ConfigTypeOK'
  <2>1. lines' \in 0..MaxLines
    BY <1>2, MaxLinesAssumption DEF ReadLine, ConfigTypeOK
  <2>2. refused' \in BOOLEAN
    BY <1>2 DEF ReadLine, LineRefused, PairRefused
  <2>3. section' \in {"top", "paths"} \cup Named /\ (section' = "paths" => paths' # <<>>)
    BY <1>2, ConfigStep DEF ConfigInv, ConfigNext
  <2>4. DOMAIN AllowedKeys = {"top", "paths"} \cup Named
    BY DEF AllowedKeys, Named
  <2>5. CASE UNCHANGED <<section, raw, paths>>
    BY <2>1, <2>2, <2>5 DEF ConfigTypeOK
  <2>6. CASE ~LineRefused(l) /\ Take(l)
    <3>1. CASE UNCHANGED <<raw, paths>>
      BY <2>1, <2>2, <2>3, <2>4, <3>1 DEF ConfigTypeOK
    <3>2. CASE paths' = Append(paths, NoKeys) /\ UNCHANGED raw
      <4>1. PICK S : paths \in Seq(S)
        BY DEF ConfigInv
      <4>2. paths \in Seq(S \cup {NoKeys})
        BY <4>1, SeqMonotonic
      <4>3. /\ DOMAIN paths = 1..Len(paths) /\ Len(paths) \in Nat
            /\ DOMAIN paths' = 1..(Len(paths) + 1)
            /\ \A i \in 1..Len(paths) : paths'[i] = paths[i]
            /\ paths'[Len(paths) + 1] = NoKeys
        BY <3>2, <4>2, AppendProperties, LenProperties
      <4>4. DOMAIN NoKeys = {}
        BY DEF NoKeys
      <4>5. ASSUME NEW i \in DOMAIN paths'
            PROVE  DOMAIN paths'[i] \subseteq AllowedKeys["paths"]
        <5>1. CASE i = Len(paths) + 1
          BY <4>3, <4>4, <5>1
        <5>2. CASE i # Len(paths) + 1
          BY <4>3, <5>2 DEF ConfigTypeOK
        <5> QED BY <5>1, <5>2
      <4>6. \A s \in DOMAIN raw' : DOMAIN raw'[s] \subseteq AllowedKeys[s]
        BY <3>2 DEF ConfigTypeOK
      <4> QED BY <2>1, <2>2, <2>3, <2>4, <4>5, <4>6 DEF ConfigTypeOK
    <3>3. CASE l.kind = "pair" /\ section = "paths" /\ UNCHANGED <<raw, section>>
      <4> DEFINE n == Len(paths)
                 keys == With(paths[n], l.key, l.value)
      <4>1. paths' = [paths EXCEPT ![n] = keys]
        BY <2>6, <3>3 DEF Take, Current
      <4>2. n \in DOMAIN paths
        BY <3>3, EmptySeq, LenProperties DEF ConfigInv
      <4>3. DOMAIN keys \subseteq AllowedKeys["paths"]
        <5>1. l.key \in AllowedKeys["paths"]
          BY <2>6, <3>3 DEF LineRefused, PairRefused
        <5>2. DOMAIN paths[n] \subseteq AllowedKeys["paths"]
          BY <4>2 DEF ConfigTypeOK
        <5> QED BY <5>1, <5>2, WithStaysKnown
      <4> HIDE DEF keys, n
      <4>4. \A i \in DOMAIN paths' : DOMAIN paths'[i] \subseteq AllowedKeys["paths"]
        BY <4>1, <4>2, <4>3 DEF ConfigTypeOK
      <4>5. \A s \in DOMAIN raw' : DOMAIN raw'[s] \subseteq AllowedKeys[s]
        BY <3>3 DEF ConfigTypeOK
      <4> QED BY <2>1, <2>2, <2>3, <2>4, <4>4, <4>5 DEF ConfigTypeOK
    <3>4. CASE l.kind = "pair" /\ section # "paths" /\ UNCHANGED <<paths, section>>
      <4> DEFINE keys == With(raw[section], l.key, l.value)
      <4>1. raw' = [raw EXCEPT ![section] = keys]
        BY <2>6, <3>4 DEF Take, Current
      <4>2. section \in DOMAIN raw
        <5>1. section \in {"top"} \cup Named
          BY <3>4 DEF ConfigInv
        <5> QED BY <5>1 DEF ConfigInv
      <4>3. DOMAIN keys \subseteq AllowedKeys[section]
        <5>1. l.key \in AllowedKeys[section]
          BY <2>6, <3>4 DEF LineRefused, PairRefused
        <5>2. DOMAIN raw[section] \subseteq AllowedKeys[section]
          BY <4>2 DEF ConfigTypeOK
        <5> QED BY <5>1, <5>2, WithStaysKnown
      <4> HIDE DEF keys
      <4>4. \A s \in DOMAIN raw' : DOMAIN raw'[s] \subseteq AllowedKeys[s]
        BY <4>1, <4>2, <4>3 DEF ConfigTypeOK
      <4>5. \A i \in DOMAIN paths' : DOMAIN paths'[i] \subseteq AllowedKeys["paths"]
        BY <3>4 DEF ConfigTypeOK
      <4> QED BY <2>1, <2>2, <2>3, <2>4, <4>4, <4>5 DEF ConfigTypeOK
    <3> QED BY <2>6, <3>1, <3>2, <3>3, <3>4 DEF Take
  <2> QED BY <1>2, <2>5, <2>6 DEF ReadLine
<1> QED BY <1>1, <1>2 DEF ConfigNext

\* Every section that parseTOML goes through is one it knows, so is every key
\* it keeps, and it never looks for the keys of a path before there is one.
THEOREM ConfigTyped == ConfigSpec => []ConfigTypeOK
<1>1. ConfigInit => ConfigTypeOK
  <2> SUFFICES ASSUME ConfigInit PROVE ConfigTypeOK
    OBVIOUS
  <2>1. section \in DOMAIN AllowedKeys /\ section # "paths"
    BY DEF ConfigInit, AllowedKeys
  <2>2. \A s \in DOMAIN raw : DOMAIN raw[s] = {}
    BY DEF ConfigInit, NoKeys
  <2>3. DOMAIN paths = {}
    BY DEF ConfigInit
  <2>4. lines \in 0..MaxLines
    BY MaxLinesAssumption DEF ConfigInit
  <2>5. refused \in BOOLEAN
    BY Zenon DEF ConfigInit
  <2> QED BY <2>1, <2>2, <2>3, <2>4, <2>5 DEF ConfigTypeOK
<1>2. ConfigInv /\ ConfigTypeOK /\ [ConfigNext]_configVars => ConfigTypeOK'
  BY ConfigTypesStep
<1> QED BY <1>1, <1>2, ConfigInvariance, PTL DEF ConfigSpec

\* A key that does not fit is still there when there are more.
LEMMA MisfitsStay ==
  ASSUME NEW s, NEW new, NEW old, Extends(new, old), ~AllFit(s, old)
  PROVE  ~AllFit(s, new)
<1>1. PICK key \in DOMAIN old : ~Fits(s, key, old[key])
  BY DEF AllFit
<1>2. key \in DOMAIN new /\ new[key] = old[key]
  BY DEF Extends
<1> QED BY <1>1, <1>2 DEF AllFit

LEMMA WrongStays ==
  ASSUME ConfigInv, [ConfigNext]_configVars, NEW c \in Commands, Wrong(c)
  PROVE  Wrong(c)'
<1>1. /\ \A s \in DOMAIN raw : Extends(raw'[s], raw[s])
      /\ \A i \in DOMAIN paths : i \in DOMAIN paths' /\ Extends(paths'[i], paths[i])
  BY ConfigStep DEF KeysKept
<1>2. CASE refused
  BY <1>2 DEF ConfigNext, ReadLine, configVars, Wrong
<1>3. CASE \E s \in Used[c] : ~AllFit(s, raw[s])
  <2>1. PICK s \in Used[c] : ~AllFit(s, raw[s])
    BY <1>3
  <2>2. s \in DOMAIN raw
    BY DEF ConfigInv, Used, Commands, Named
  <2>3. ~AllFit(s, raw'[s])
    BY <1>1, <2>1, <2>2, MisfitsStay
  <2>4. \E q \in Used[c] : ~AllFit(q, raw'[q])
    BY <2>3
  <2> QED BY <2>4 DEF Wrong
<1>4. CASE c # "server" /\ ~NamesDiffer
  <2>1. PICK i \in DOMAIN paths, j \in DOMAIN paths : i # j /\ SameName(paths[i], paths[j])
    BY <1>4 DEF NamesDiffer
  <2>2. SameName(paths'[i], paths'[j])
    BY <1>1, <2>1 DEF Extends, SameName
  <2>3. ~NamesDiffer'
    BY <1>1, <2>1, <2>2 DEF NamesDiffer
  <2> QED BY <1>4, <2>3 DEF Wrong
<1>5. CASE c # "server" /\ \E i \in DOMAIN paths : ~AllFit("paths", paths[i])
  <2>1. PICK i \in DOMAIN paths : ~AllFit("paths", paths[i])
    BY <1>5
  <2>2. i \in DOMAIN paths' /\ ~AllFit("paths", paths'[i])
    BY <1>1, <2>1, MisfitsStay
  <2>3. ~(\A q \in DOMAIN paths' : AllFit("paths", paths'[q]))
    BY <2>2
  <2> QED BY <1>5, <2>3 DEF Wrong
<1> QED BY <1>2, <1>3, <1>4, <1>5 DEF Wrong

\* No continuation of a file, however long, makes a command accept what it
\* refuses for a line that is there.
THEOREM RefusalsStay == ConfigSpec => RefusalsAreFinal
<1>1. ConfigInv /\ [ConfigNext]_configVars =>
        \A c \in Commands : Wrong(c) => Wrong(c)' /\ ~Accepted(c)'
  <2> SUFFICES ASSUME ConfigInv, [ConfigNext]_configVars, NEW c \in Commands, Wrong(c)
               PROVE  Wrong(c)' /\ ~Accepted(c)'
    OBVIOUS
  <2>1. Wrong(c)'
    BY WrongStays
  <2>2. Wrong(c)' => ~Accepted(c)'
    BY DEF Wrong, Accepted, SectionAccepted, PathsAccepted
  <2> QED BY <2>1, <2>2
<1>2. ConfigInv /\ [ConfigNext]_configVars =>
        [\A c \in Commands : Wrong(c) => Wrong(c)' /\ ~Accepted(c)']_configVars
  BY <1>1
<1> QED BY <1>2, ConfigInvariance, PTL DEF ConfigSpec, RefusalsAreFinal
=============================================================================
