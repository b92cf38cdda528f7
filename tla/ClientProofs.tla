----------------------------- MODULE ClientProofs -----------------------------
(***************************************************************************)
(* The client's half of the inductive invariant of Tunnel: its types, the  *)
(* replay window of stdin's bytes and who attends to the active            *)
(* connection.  Of the network only the type of what a frame carries and   *)
(* the client's own ends of the connections are used.                      *)
(***************************************************************************)
EXTENDS Tunnel, WireProofs

\* What the pcs of the client's goroutines say of what they hold.
ClientPcs ==
  /\ act.pc # "idle" => act.conn \in Conns
  /\ act.pc = "replay" => act.out # <<>>
  /\ proxy = "exited" => act.pc = "idle"
  /\ stdin.pc \in {"read", "send", "finSend"} => stdin.conn \in Conns

ClientBuffered == Len(rt.c2sBuf) < BufferBytes + Chunk

Receivers == {"run", "handle", "write"}

\* Who reads which connection.  A connection whose accept is still awaited has
\* no receiveLoop and nobody closes it but its activation; every other one
\* that a goroutine holds had one once.
Owned(nt, r, rc, a, si, rec) ==
  /\ \A c \in Conns : nt.clientEnd[c] = "none" => rc[c].pc = "off"
  /\ r.active # None => rc[r.active].pc # "off"
  /\ si.pc \in {"read", "send", "finSend"} => rc[si.conn].pc # "off"
  /\ a.pc = "hello" => rc[a.conn].pc = "off" /\ nt.clientEnd[a.conn] = "open"
  /\ rec = "done" => r.done # "no"
  /\ r.done = "no" /\ r.active # None =>
       rc[r.active].pc \in Receivers /\ nt.clientEnd[r.active] = "open"

ClientOwner == proxy # "exited" => Owned(net, rt, recv, act, stdin, reconnect)

ClientInv ==
  ClientTypeOK /\ ClientPcs /\ ClientReplayWindow /\ ClientBuffered /\ ClientOwner

\* The part of the runtime that ClientReplayWindow is about is the same in t.
SameC2S(r, t) ==
  /\ t.c2sBuf = r.c2sBuf /\ t.c2sBufFrom = r.c2sBufFrom
  /\ t.c2sAck = r.c2sAck /\ t.c2sNext = r.c2sNext

-----------------------------------------------------------------------------
(* The runtime's methods. *)

LEMMA RtMethods ==
  ASSUME NEW r \in RtType
  PROVE  /\ \A c \in Conns : /\ DropActive(r, c) \in RtType /\ SameC2S(r, DropActive(r, c))
                             /\ DropActive(r, c).active = IF r.active = c THEN None ELSE r.active
                             /\ DropActive(r, c).done = r.done
         /\ \A err \in Outcomes \ {"no"} :
              /\ Finish(r, err) \in RtType /\ SameC2S(r, Finish(r, err))
              /\ Finish(r, err).done # "no"
              /\ Finish(r, err).active \in {r.active, None}
<1>1. ASSUME NEW c \in Conns
      PROVE  /\ DropActive(r, c) \in RtType /\ SameC2S(r, DropActive(r, c))
             /\ DropActive(r, c).active = IF r.active = c THEN None ELSE r.active
             /\ DropActive(r, c).done = r.done
  <2>1. CASE r.active # c
    BY <2>1 DEF DropActive, SameC2S
  <2>2. CASE r.active = c
    <3>1. DropActive(r, c) = [r EXCEPT !.active = None]
      BY <2>2 DEF DropActive
    <3> QED BY <2>2, <3>1 DEF RtType, SameC2S
  <2> QED BY <2>1, <2>2
<1>2. ASSUME NEW err \in Outcomes \ {"no"}
      PROVE  /\ Finish(r, err) \in RtType /\ SameC2S(r, Finish(r, err))
             /\ Finish(r, err).done # "no"
             /\ Finish(r, err).active \in {r.active, None}
  <2>1. CASE r.done # "no"
    BY <2>1 DEF Finish, SameC2S
  <2>2. CASE r.done = "no"
    <3>1. Finish(r, err) = [r EXCEPT !.active = None, !.done = err]
      BY <2>2 DEF Finish
    <3> QED BY <3>1 DEF RtType, SameC2S
  <2> QED BY <2>1, <2>2
<1> QED BY <1>1, <1>2

LEMMA FinishNetType ==
  ASSUME NEW n \in NetType, NEW r \in RtType
  PROVE  /\ FinishNet(n, r) \in NetType
         /\ FinishNet(n, r).clientEnd = n.clientEnd
              \/ (r.active # None /\ FinishNet(n, r).clientEnd = [n.clientEnd EXCEPT ![r.active] = "closed"])
<1>1. CASE r.done # "no" \/ r.active = None
  BY <1>1 DEF FinishNet
<1>2. CASE ~(r.done # "no" \/ r.active = None)
  <2>1. r.active \in Conns /\ FinishNet(n, r) = ClientClose(n, r.active)
    BY <1>2 DEF RtType, FinishNet
  <2>2. ClientClose(n, r.active) \in NetType
    BY <2>1, ConnectionType
  <2>3. ClientClose(n, r.active).clientEnd = [n.clientEnd EXCEPT ![r.active] = "closed"]
    BY <2>1, ClientEnds
  <2> QED BY <1>2, <2>1, <2>2, <2>3
<1> QED BY <1>1, <1>2

\* An acknowledgement that advanceC2SAckLocked accepts keeps the window.
LEMMA AdvanceC2SAckWindow ==
  ASSUME NEW r \in RtType, Window(r.c2sBuf, r.c2sBufFrom, r.c2sAck, r.c2sNext),
         NEW offset \in Nat, ~AdvanceC2SAckFails(r, offset)
  PROVE  LET t == AdvanceC2SAck(r, offset)
         IN  /\ t \in RtType
             /\ Window(t.c2sBuf, t.c2sBufFrom, t.c2sAck, t.c2sNext)
             /\ Len(t.c2sBuf) <= Len(r.c2sBuf)
             /\ t.active = r.active /\ t.done = r.done
<1> DEFINE t == AdvanceC2SAck(r, offset)
           rest == SubSeq(r.c2sBuf, offset - r.c2sBufFrom + 1, Len(r.c2sBuf))
<1>1. CASE offset < r.c2sAck
  <2>1. t = r
    BY <1>1 DEF AdvanceC2SAck
  <2>2. Len(r.c2sBuf) \in Nat
    BY DEF RtType
  <2> QED BY <2>1, <2>2
<1>2. CASE ~(offset < r.c2sAck)
  <2>1. offset >= r.c2sAck /\ offset <= r.c2sNext
    BY <1>2 DEF RtType, AdvanceC2SAckFails
  <2>2. /\ Window(rest, offset, offset, r.c2sNext)
        /\ Len(rest) <= Len(r.c2sBuf)
    BY <2>1, WindowAcked
  <2>3. rest \in Seq(Nat)
    BY <2>2 DEF Window
  <2>4. t = [r EXCEPT !.c2sBuf = rest, !.c2sBufFrom = offset, !.c2sAck = offset]
    BY <1>2 DEF AdvanceC2SAck
  <2> HIDE DEF rest, t
  <2>5. /\ t \in RtType
        /\ t.c2sBuf = rest /\ t.c2sBufFrom = offset /\ t.c2sAck = offset /\ t.c2sNext = r.c2sNext
        /\ t.active = r.active /\ t.done = r.done
    BY <2>3, <2>4 DEF RtType
  <2> QED BY <2>2, <2>5 DEF t
<1> QED BY <1>1, <1>2

-----------------------------------------------------------------------------
(* What the steps have in common. *)

RtKept == rt' \in RtType /\ ClientReplayWindow' /\ ClientBuffered'
ActKept ==
  /\ act' \in ActType
  /\ act'.pc # "idle" => act'.conn \in Conns
  /\ act'.pc = "replay" => act'.out # <<>>
  /\ proxy' = "exited" => act'.pc = "idle"
StdinKept ==
  stdin' \in StdinType /\ (stdin'.pc \in {"read", "send", "finSend"} => stdin'.conn \in Conns)
PlacesKept ==
  /\ proxy' \in {"starting", "running", "exited"}
  /\ reconnect' \in {"wait", "down", "attempt", "expired", "done"}
RecvKept == recv' \in [Conns -> RecvType]
StdoutKept == stdout' \in StdoutType /\ stdoutOverlap' \in BOOLEAN

LEMMA ClientInvParts ==
  ASSUME net' \in NetType, RtKept, ActKept, StdinKept, PlacesKept, RecvKept, StdoutKept,
         ClientOwner'
  PROVE  ClientInv'
BY DEF RtKept, ActKept, StdinKept, PlacesKept, RecvKept, StdoutKept, ClientInv, ClientTypeOK, ClientPcs

LEMMA ClientUnchanged ==
  ASSUME ClientInv
  PROVE  /\ rt' = rt => RtKept
         /\ act' = act /\ proxy' = proxy => ActKept
         /\ stdin' = stdin => StdinKept
         /\ proxy' = proxy /\ reconnect' = reconnect => PlacesKept
         /\ recv' = recv => RecvKept
         /\ stdout' = stdout /\ stdoutOverlap' = stdoutOverlap => StdoutKept
BY DEF RtKept, ActKept, StdinKept, PlacesKept, RecvKept, StdoutKept, ClientInv, ClientTypeOK,
       ClientPcs, ClientReplayWindow, ClientBuffered

\* What is known of a connection and of the runtime before a step.
LEMMA ClientFacts ==
  ASSUME ClientInv
  PROVE  /\ net \in NetType /\ rt \in RtType /\ act \in ActType /\ stdin \in StdinType
         /\ recv \in [Conns -> RecvType]
         /\ rt.active \in Conns \cup {None} /\ rt.c2sNext \in Nat /\ rt.s2cRx \in Nat
         /\ rt.c2sAck \in Nat /\ rt.c2sFinAt \in Nat
         /\ Window(rt.c2sBuf, rt.c2sBufFrom, rt.c2sAck, rt.c2sNext)
         /\ Len(rt.c2sBuf) \in Nat /\ Len(rt.c2sBuf) < BufferBytes + Chunk
         /\ \A c \in Conns : /\ recv[c].epoch \in Nat /\ recv[c].frame \in Frame
                             /\ recv[c].frame.offset \in Nat
                             /\ recv[c].frame.payload \in Seq(Nat)
<1>1. /\ net \in NetType /\ rt \in RtType /\ act \in ActType /\ stdin \in StdinType
      /\ recv \in [Conns -> RecvType]
  BY DEF ClientInv, ClientTypeOK
<1>2. /\ rt.active \in Conns \cup {None} /\ rt.c2sNext \in Nat /\ rt.s2cRx \in Nat
      /\ rt.c2sAck \in Nat /\ rt.c2sBufFrom \in Nat /\ rt.c2sFinAt \in Nat
      /\ rt.c2sBuf \in Seq(Nat)
  BY <1>1 DEF RtType
<1>3. Len(rt.c2sBuf) \in Nat
  BY <1>2
<1>4. \A c \in Conns : recv[c].epoch \in Nat /\ recv[c].frame \in Frame
  BY <1>1 DEF RecvType
<1>5. \A c \in Conns : recv[c].frame.offset \in Nat /\ recv[c].frame.payload \in Seq(Nat)
  BY <1>4 DEF Frame
<1> QED BY <1>1, <1>2, <1>3, <1>4, <1>5
        DEF ClientInv, ClientReplayWindow, ClientBuffered, Window

LEMMA SameC2SKept ==
  ASSUME ClientInv, rt' \in RtType, SameC2S(rt, rt')
  PROVE  RtKept
BY DEF RtKept, ClientInv, ClientReplayWindow, ClientBuffered, SameC2S

\* finish and dropActive, as steps of the runtime.
LEMMA FinishKeeps ==
  ASSUME ClientInv, NEW r \in RtType, SameC2S(rt, r), NEW err \in Outcomes \ {"no"},
         rt' = Finish(r, err)
  PROVE  RtKept /\ rt'.done # "no" /\ rt'.active \in {r.active, None}
<1>1. rt' \in RtType /\ SameC2S(r, rt') /\ rt'.done # "no" /\ rt'.active \in {r.active, None}
  BY RtMethods
<1> QED BY <1>1, SameC2SKept DEF SameC2S

LEMMA DropKeeps ==
  ASSUME ClientInv, NEW c \in Conns, rt' = DropActive(rt, c)
  PROVE  /\ RtKept /\ rt'.done = rt.done
         /\ rt'.active = IF rt.active = c THEN None ELSE rt.active
BY ClientFacts, RtMethods, SameC2SKept

\* An end of a connection that had a receiveLoop once may be closed, and
\* nothing else happens to the client's ends.
EndsKept ==
  \/ net'.clientEnd = net.clientEnd
  \/ \E x \in Conns : recv[x].pc # "off" /\ net'.clientEnd = [net.clientEnd EXCEPT ![x] = "closed"]

\* The steps that activate nothing keep the owners, if they keep the one of
\* the connection that stays active.
LEMMA OwnerKept ==
  ASSUME ClientInv, proxy # "exited", EndsKept,
         \A d \in Conns : recv'[d].pc = "off" <=> recv[d].pc = "off",
         rt'.active \in {rt.active, None},
         rt.done # "no" => rt'.done # "no",
         rt'.done = "no" /\ rt'.active # None =>
           recv'[rt'.active].pc \in Receivers /\ net'.clientEnd[rt'.active] = "open",
         \/ stdin'.pc \notin {"read", "send", "finSend"}
         \/ stdin.pc \in {"read", "send", "finSend"} /\ stdin'.conn = stdin.conn
         \/ rt.active # None /\ stdin'.conn = rt.active,
         StdinKept,
         act' = act \/ act'.pc # "hello",
         reconnect' = "done" => reconnect = "done" \/ rt'.done # "no"
  PROVE  ClientOwner'
<1>1. Owned(net, rt, recv, act, stdin, reconnect)
  BY DEF ClientInv, ClientOwner
<1>2. /\ net \in NetType /\ rt.active \in Conns \cup {None}
      /\ act.pc # "idle" => act.conn \in Conns
  BY ClientFacts DEF ClientInv, ClientPcs
<1>3. net.clientEnd \in [Conns -> Ends]
  BY <1>2 DEF NetType
<1>4. \A c \in Conns : net'.clientEnd[c] = "none" => recv'[c].pc = "off"
  BY <1>1, <1>3 DEF Owned, EndsKept
<1>5. rt'.active # None => recv'[rt'.active].pc # "off"
  BY <1>1, <1>2 DEF Owned
<1>6. stdin'.pc \in {"read", "send", "finSend"} => recv'[stdin'.conn].pc # "off"
  BY <1>1, <1>2 DEF Owned, StdinKept
<1>7. act'.pc = "hello" => recv'[act'.conn].pc = "off" /\ net'.clientEnd[act'.conn] = "open"
  <2>1. CASE act' = act
    <3>1. SUFFICES ASSUME act.pc = "hello"
                   PROVE  recv'[act.conn].pc = "off" /\ net'.clientEnd[act.conn] = "open"
      BY <2>1
    <3>2. act.conn \in Conns /\ recv[act.conn].pc = "off" /\ net.clientEnd[act.conn] = "open"
      BY <1>1, <1>2, <3>1 DEF Owned
    <3>3. net'.clientEnd[act.conn] = "open"
      BY <1>3, <3>2 DEF EndsKept
    <3> QED BY <3>2, <3>3
  <2>2. CASE act'.pc # "hello"
    BY <2>2
  <2> QED BY <2>1, <2>2
<1>8. reconnect' = "done" => rt'.done # "no"
  BY <1>1 DEF Owned
<1> QED BY <1>4, <1>5, <1>6, <1>7, <1>8 DEF ClientOwner, Owned

\* A receiveLoop that returns or goes back to reading frames.
LEMMA ReceiverEnds ==
  ASSUME ClientInv, NEW c \in Conns, recv[c].pc # "off",
         \/ recv' = [recv EXCEPT ![c] = Stopped(@)]
         \/ recv' = [recv EXCEPT ![c] = Waiting(@)]
  PROVE  /\ RecvKept
         /\ \A d \in Conns : recv'[d].pc = "off" <=> recv[d].pc = "off"
         /\ \A d \in Conns \ {c} : recv'[d] = recv[d]
<1> DEFINE h == recv'[c]
<1>1. recv \in [Conns -> RecvType] /\ recv[c] \in RecvType
  BY ClientFacts
<1>2. \/ h = [recv[c] EXCEPT !.pc = "done", !.frame = NoFrame]
      \/ h = [recv[c] EXCEPT !.pc = "run", !.frame = NoFrame]
  BY <1>1 DEF Stopped, Waiting
<1>3. recv' = [recv EXCEPT ![c] = h]
  BY <1>1
<1> HIDE DEF h
<1>4. h \in RecvType /\ h.pc # "off"
  BY <1>1, <1>2, NoFrameType DEF RecvType
<1> QED BY <1>1, <1>3, <1>4 DEF RecvKept

LEMMA ReceiverWaits ==
  ASSUME ClientInv, NEW c \in Conns, recv' = [recv EXCEPT ![c] = Waiting(@)]
  PROVE  recv'[c].pc = "run"
BY ClientFacts DEF RecvType, Waiting

-----------------------------------------------------------------------------
(* Activation of a connection. *)

LEMMA ConnectKeeps ==
  ASSUME ClientInv, NEW by \in {"proxy", "reconnect", "switch"}, NEW c \in Conns, Connect(by, c)
  PROVE  ClientInv'
<1> DEFINE hello == Hello(by # "proxy", rt.c2sAck, rt.s2cRx)
<1>1. hello \in Frame
  BY ClientFacts, HelloType
<1>2. net' = ClientSend(Open(net, c), c, hello)
  BY DEF Connect
<1> HIDE DEF hello
<1>3. Open(net, c) \in NetType /\ net \in NetType
  BY ClientFacts, ConnectionType
<1>4. net' \in NetType
  BY <1>1, <1>2, <1>3, SendType
<1>5. net'.clientEnd = [net.clientEnd EXCEPT ![c] = "open"]
  <2>1. net'.clientEnd = Open(net, c).clientEnd
    BY <1>1, <1>2, <1>3, SendEnds
  <2>2. Open(net, c).clientEnd = [net.clientEnd EXCEPT ![c] = "open"]
    BY <1>3, ClientEnds
  <2> QED BY <2>1, <2>2
<1>6. /\ act' = [pc |-> "hello", by |-> by, conn |-> c, out |-> <<>>]
      /\ reconnect' = IF by = "reconnect" THEN "attempt" ELSE reconnect
      /\ rt' = rt /\ proxy' = proxy /\ stdin' = stdin /\ recv' = recv /\ stdout' = stdout
      /\ stdoutOverlap' = stdoutOverlap
      /\ net.clientEnd[c] = "none" /\ proxy \in {"starting", "running"}
  BY DEF Connect, MayConnect
<1>7. ActKept /\ PlacesKept
  BY <1>6 DEF ActKept, PlacesKept, ActType, ClientInv, ClientTypeOK
<1>8. ClientOwner'
  <2>1. Owned(net, rt, recv, act, stdin, reconnect)
    BY <1>6 DEF ClientInv, ClientOwner
  <2>2. net.clientEnd \in [Conns -> Ends] /\ rt.active \in Conns \cup {None}
    BY <1>3, ClientFacts DEF NetType
  <2> QED BY <1>5, <1>6, <2>1, <2>2 DEF ClientOwner, Owned
<1> QED BY <1>4, <1>6, <1>7, <1>8, ClientUnchanged, ClientInvParts

\* The end of an activation that changed neither the runtime nor any
\* receiveLoop, with its connection closed or left alone.
LEMMA ActivationEndsKeeps ==
  ASSUME ClientInv, NEW ok \in BOOLEAN, ActivationEnds(ok), act.pc # "idle", proxy # "exited",
         net' \in NetType, RtKept, recv' = recv, stdin' = stdin,
         stdout' = stdout, stdoutOverlap' = stdoutOverlap,
         rt'.active \in {rt.active, None}, rt'.done = rt.done,
         \/ net'.clientEnd = net.clientEnd
         \/ /\ net'.clientEnd = [net.clientEnd EXCEPT ![act.conn] = "closed"]
            /\ act.pc = "hello" \/ rt'.active # act.conn
  PROVE  ClientInv'
<1>1. /\ act' = ActIdle
      /\ reconnect' = IF act.by = "reconnect" THEN "wait" ELSE reconnect
      /\ proxy' = IF act.by = "proxy" THEN (IF ok THEN "running" ELSE "exited") ELSE proxy
  BY DEF ActivationEnds
<1>2. ActKept /\ PlacesKept
  BY <1>1, NoFrameType DEF ActKept, PlacesKept, ActIdle, ActType, ClientInv, ClientTypeOK
<1>3. /\ Owned(net, rt, recv, act, stdin, reconnect) /\ act.conn \in Conns
      /\ net.clientEnd \in [Conns -> Ends] /\ rt.active \in Conns \cup {None}
  BY ClientFacts DEF ClientInv, ClientOwner, ClientPcs, NetType
<1>4. ClientOwner'
  BY <1>1, <1>3 DEF ClientOwner, Owned, ActIdle, Receivers
<1> QED BY <1>2, <1>4, ClientUnchanged, ClientInvParts

LEMMA HelloEndsKeeps ==
  ASSUME ClientInv, proxy # "exited", NEW c \in Conns, HelloFails(c) \/ RefuseCommit(c)
  PROVE  ClientInv'
<1>1. /\ act.pc = "hello" /\ act.conn = c /\ net' = ClientClose(net, c) /\ ActivationEnds(FALSE)
      /\ rt' = rt /\ stdin' = stdin /\ recv' = recv /\ stdout' = stdout
      /\ stdoutOverlap' = stdoutOverlap
  BY DEF HelloFails, RefuseCommit, AcceptArrives
<1>2. net' \in NetType /\ net'.clientEnd = [net.clientEnd EXCEPT ![c] = "closed"]
  BY <1>1, ClientFacts, ConnectionType, ClientEnds
<1> QED BY <1>1, <1>2, ClientUnchanged, ActivationEndsKeeps

LEMMA HelloDeadlineKeeps ==
  ASSUME ClientInv, proxy # "exited", NEW c \in Conns, HelloDeadline(c)
  PROVE  ClientInv'
<1>1. /\ act.pc = "hello" /\ act.conn = c /\ net' = ClientClose(net, c) /\ act' = ActIdle
      /\ reconnect' = "expired" /\ rt' = rt /\ proxy' = proxy /\ stdin' = stdin /\ recv' = recv
      /\ stdout' = stdout /\ stdoutOverlap' = stdoutOverlap
  BY DEF HelloDeadline
<1>2. net' \in NetType /\ net'.clientEnd = [net.clientEnd EXCEPT ![c] = "closed"]
  BY <1>1, ClientFacts, ConnectionType, ClientEnds
<1>3. ActKept /\ PlacesKept
  BY <1>1, NoFrameType DEF ActKept, PlacesKept, ActIdle, ActType, ClientInv, ClientTypeOK
<1>4. /\ Owned(net, rt, recv, act, stdin, reconnect)
      /\ net.clientEnd \in [Conns -> Ends] /\ rt.active \in Conns \cup {None}
  BY ClientFacts DEF ClientInv, ClientOwner, NetType
<1>5. ClientOwner'
  BY <1>1, <1>2, <1>4 DEF ClientOwner, Owned, ActIdle, Receivers
<1> QED BY <1>1, <1>2, <1>3, <1>5, ClientUnchanged, ClientInvParts

\* The connection that becomes active is open, has its receiveLoop from now
\* on, and is not the one that is closed.
LEMMA CommitActivationKeeps ==
  ASSUME ClientInv, proxy # "exited", NEW c \in Conns, CommitActivation(c)
  PROVE  ClientInv'
<1> DEFINE f == Head(net.down[c])
           n == ClientRecv(net, c)
           r == AdvanceC2SAck(rt, f.clientToServerRx)
<1>1. f \in Frame /\ n \in NetType /\ net \in NetType
  BY ClientFacts, ReceivedType DEF CommitActivation, AcceptArrives
<1>2. f.clientToServerRx \in Nat /\ f.epoch \in Nat
  BY <1>1 DEF Frame
<1>3. /\ rt' = [r EXCEPT !.active = c, !.session = TRUE, !.epoch = f.epoch]
      /\ recv' = [recv EXCEPT ![c].pc = "run", ![c].epoch = f.epoch]
      /\ net' = IF rt.active = None THEN n ELSE ClientClose(n, rt.active)
      /\ act' = [act EXCEPT !.pc = "snapshot"] /\ act.pc = "hello" /\ act.conn = c
      /\ proxy' = proxy /\ reconnect' = reconnect /\ stdin' = stdin /\ stdout' = stdout
      /\ stdoutOverlap' = stdoutOverlap
      /\ rt.done = "no" /\ ~AdvanceC2SAckFails(rt, f.clientToServerRx)
  BY DEF CommitActivation, AcceptArrives, CommitRefused
<1>4. n.clientEnd = net.clientEnd
  BY <1>1, ClientEnds
<1>5. /\ r \in RtType
      /\ Window(r.c2sBuf, r.c2sBufFrom, r.c2sAck, r.c2sNext)
      /\ Len(r.c2sBuf) <= Len(rt.c2sBuf) /\ r.done = rt.done
  BY <1>2, <1>3, ClientFacts, AdvanceC2SAckWindow
<1> HIDE DEF f, n, r
<1>6. /\ rt' \in RtType /\ SameC2S(r, rt') /\ rt'.active = c /\ rt'.done = "no"
  BY <1>2, <1>3, <1>5 DEF RtType, SameC2S
<1>7. RtKept
  <2>1. Len(r.c2sBuf) \in Nat /\ Len(r.c2sBuf) < BufferBytes + Chunk
    BY <1>5, ClientFacts, BufferBytesAssumption, ChunkAssumption DEF Window
  <2> QED BY <1>5, <1>6, <2>1 DEF RtKept, SameC2S, Window, ClientReplayWindow, ClientBuffered
<1>8. /\ recv \in [Conns -> RecvType] /\ act \in ActType /\ rt.active \in Conns \cup {None}
      /\ net.clientEnd \in [Conns -> Ends] /\ Owned(net, rt, recv, act, stdin, reconnect)
  BY <1>1, ClientFacts DEF ClientInv, ClientOwner, NetType
<1>9. /\ recv' = [recv EXCEPT ![c] = [recv[c] EXCEPT !.pc = "run", !.epoch = f.epoch]]
  BY <1>3, <1>8
<1>10. RecvKept /\ recv'[c].pc = "run" /\ \A d \in Conns \ {c} : recv'[d] = recv[d]
  BY <1>2, <1>8, <1>9 DEF RecvKept, RecvType
<1>11. ActKept /\ act'.pc = "snapshot"
  BY <1>3, <1>8 DEF ActKept, ActType
<1>12. net' \in NetType
  BY <1>1, <1>3, <1>8, ConnectionType
<1>13. \/ net'.clientEnd = net.clientEnd
       \/ rt.active # None /\ net'.clientEnd = [net.clientEnd EXCEPT ![rt.active] = "closed"]
  <2>1. CASE rt.active = None
    BY <1>3, <1>4, <2>1
  <2>2. CASE rt.active # None
    <3>1. rt.active \in Conns /\ net' = ClientClose(n, rt.active)
      BY <1>3, <1>8, <2>2
    <3>2. ClientClose(n, rt.active).clientEnd = [n.clientEnd EXCEPT ![rt.active] = "closed"]
      BY <1>1, <3>1, ClientEnds
    <3> QED BY <1>4, <2>2, <3>1, <3>2
  <2> QED BY <2>1, <2>2
<1>14. recv[c].pc = "off" /\ net.clientEnd[c] = "open" /\ (rt.active # None => rt.active # c)
  BY <1>3, <1>8 DEF Owned
<1>15. net'.clientEnd[c] = "open"
  BY <1>8, <1>13, <1>14
<1>16. ClientOwner'
  <2>1. \A d \in Conns : net'.clientEnd[d] = "none" => recv'[d].pc = "off"
    BY <1>8, <1>10, <1>13, <1>15 DEF Owned
  <2>2. stdin'.pc \in {"read", "send", "finSend"} => recv'[stdin'.conn].pc # "off"
    BY <1>3, <1>8, <1>10 DEF Owned, ClientInv, ClientPcs
  <2> QED BY <1>3, <1>6, <1>8, <1>10, <1>11, <1>15, <2>1, <2>2 DEF ClientOwner, Owned, Receivers
<1> QED BY <1>3, <1>7, <1>10, <1>11, <1>12, <1>16, ClientUnchanged, ClientInvParts

LEMMA TakeSnapshotKeeps ==
  ASSUME ClientInv, proxy # "exited", TakeSnapshot
  PROVE  ClientInv'
<1> DEFINE epoch == recv[act.conn].epoch
           fin   == IF rt.c2sFin THEN <<Fin(epoch, rt.c2sFinAt)>> ELSE <<>>
           out   == DataChunks(epoch, rt.c2sBufFrom, rt.c2sBuf) \o fin
<1>1. /\ act.pc = "snapshot" /\ net' = net /\ rt' = rt /\ stdin' = stdin /\ recv' = recv
      /\ stdout' = stdout /\ stdoutOverlap' = stdoutOverlap
      /\ \/ out = <<>> /\ ActivationEnds(TRUE)
         \/ /\ out # <<>> /\ act' = [act EXCEPT !.pc = "replay", !.out = out]
            /\ proxy' = proxy /\ reconnect' = reconnect
  BY DEF TakeSnapshot
<1>2. /\ net \in NetType /\ act \in ActType /\ rt.c2sFinAt \in Nat
      /\ rt.c2sBufFrom \in Nat /\ rt.c2sBuf \in Seq(Nat)
  BY ClientFacts DEF Window
<1>3. act.conn \in Conns /\ epoch \in Nat
  BY <1>1, ClientFacts DEF ClientInv, ClientPcs
<1>4. out \in Seq(Frame)
  <2>1. DataChunks(epoch, rt.c2sBufFrom, rt.c2sBuf) \in Seq(Frame)
    BY <1>2, <1>3, DataChunksType
  <2>2. fin \in Seq(Frame)
    BY <1>2, <1>3, OffsetFrameType
  <2> HIDE DEF fin, epoch
  <2> QED BY <2>1, <2>2
<1> HIDE DEF out
<1>5. CASE ActivationEnds(TRUE)
  BY <1>1, <1>2, <1>5, ClientUnchanged, ActivationEndsKeeps
<1>6. CASE /\ out # <<>> /\ act' = [act EXCEPT !.pc = "replay", !.out = out]
           /\ proxy' = proxy /\ reconnect' = reconnect
  <2>1. ActKept /\ act'.pc = "replay"
    BY <1>2, <1>3, <1>4, <1>6 DEF ActKept, ActType
  <2>2. StdinKept /\ EndsKept
    BY <1>1, ClientUnchanged DEF EndsKept
  <2>3. ClientOwner'
    BY <1>1, <1>6, <2>1, <2>2, OwnerKept DEF ClientInv, ClientOwner, Owned
  <2> QED BY <1>1, <1>2, <1>6, <2>1, <2>3, ClientUnchanged, ClientInvParts
<1> QED BY <1>1, <1>5, <1>6

LEMMA SendReplayKeeps ==
  ASSUME ClientInv, proxy # "exited", SendReplay
  PROVE  ClientInv'
<1>1. /\ act.pc = "replay" /\ net' = ClientSend(net, act.conn, Head(act.out))
      /\ rt' = rt /\ stdin' = stdin /\ recv' = recv
      /\ stdout' = stdout /\ stdoutOverlap' = stdoutOverlap
      /\ \/ ActivationEnds(TRUE)
         \/ /\ Len(act.out) # 1 /\ act' = [act EXCEPT !.out = Tail(@)]
            /\ proxy' = proxy /\ reconnect' = reconnect
  BY DEF SendReplay
<1>2. /\ net \in NetType /\ act \in ActType /\ act.conn \in Conns
      /\ act.out \in Seq(Frame) /\ act.out # <<>>
  BY <1>1, ClientFacts DEF ActType, ClientInv, ClientPcs
<1>3. Head(act.out) \in Frame /\ Tail(act.out) \in Seq(Frame) /\ (Len(act.out) # 1 => Tail(act.out) # <<>>)
  BY <1>2, TailLeft
<1>4. net' \in NetType /\ net'.clientEnd = net.clientEnd
  BY <1>1, <1>2, <1>3, SendType, SendEnds
<1>5. CASE ActivationEnds(TRUE)
  BY <1>1, <1>4, <1>5, ClientUnchanged, ActivationEndsKeeps
<1>6. CASE /\ Len(act.out) # 1 /\ act' = [act EXCEPT !.out = Tail(@)]
           /\ proxy' = proxy /\ reconnect' = reconnect
  <2>1. ActKept /\ act'.pc = "replay"
    BY <1>1, <1>2, <1>3, <1>6 DEF ActKept, ActType
  <2>2. StdinKept /\ EndsKept
    BY <1>1, <1>4, ClientUnchanged DEF EndsKept
  <2>3. ClientOwner'
    BY <1>1, <1>4, <1>6, <2>1, <2>2, OwnerKept DEF ClientInv, ClientOwner, Owned
  <2> QED BY <1>1, <1>4, <1>6, <2>1, <2>3, ClientUnchanged, ClientInvParts
<1> QED BY <1>1, <1>5, <1>6

LEMMA SendReplayFailsKeeps ==
  ASSUME ClientInv, proxy # "exited", SendReplayFails
  PROVE  ClientInv'
<1>1. /\ act.pc = "replay" /\ net' = ClientClose(net, act.conn) /\ rt' = DropActive(rt, act.conn)
      /\ ActivationEnds(FALSE) /\ stdin' = stdin /\ recv' = recv
      /\ stdout' = stdout /\ stdoutOverlap' = stdoutOverlap
  BY DEF SendReplayFails
<1>2. net \in NetType /\ act.conn \in Conns
  BY <1>1, ClientFacts DEF ClientInv, ClientPcs
<1>3. net' \in NetType /\ net'.clientEnd = [net.clientEnd EXCEPT ![act.conn] = "closed"]
  BY <1>1, <1>2, ConnectionType, ClientEnds
<1>4. RtKept /\ rt'.done = rt.done /\ rt'.active \in {rt.active, None} /\ rt'.active # act.conn
  BY <1>1, <1>2, DropKeeps, NoneAssumption
<1> QED BY <1>1, <1>3, <1>4, ActivationEndsKeeps

-----------------------------------------------------------------------------
(* stdinLoop. *)

\* A step of stdinLoop (or of another goroutine of the runtime) that leaves
\* the connections and their receiveLoops alone and keeps the active one.
LEMMA QuietKeeps ==
  ASSUME ClientInv, proxy # "exited", net' = net, recv' = recv, act' = act, proxy' = proxy,
         PlacesKept, stdout' = stdout, stdoutOverlap' = stdoutOverlap, RtKept, StdinKept,
         rt'.active = rt.active, rt'.done = rt.done,
         \/ stdin'.pc \notin {"read", "send", "finSend"}
         \/ stdin.pc \in {"read", "send", "finSend"} /\ stdin'.conn = stdin.conn
         \/ rt.active # None /\ stdin'.conn = rt.active,
         reconnect' = "done" => reconnect = "done"
  PROVE  ClientInv'
<1>1. Owned(net, rt, recv, act, stdin, reconnect) /\ net \in NetType
  BY ClientFacts DEF ClientInv, ClientOwner
<1>2. EndsKept
  BY DEF EndsKept
<1>3. ClientOwner'
  BY <1>1, <1>2, OwnerKept DEF Owned
<1> QED BY <1>1, <1>3, ClientUnchanged, ClientInvParts

LEMMA StdinIdleKept ==
  ASSUME NEW pc \in {"wait", "finWait", "done"}, stdin' = StdinIdle(pc)
  PROVE  StdinKept /\ stdin'.pc = pc
BY NoFrameType DEF StdinKept, StdinIdle, StdinType

LEMMA StdinTakesKeeps ==
  ASSUME ClientInv, proxy # "exited", StdinWait \/ StdinFinTake
  PROVE  ClientInv'
<1>1. /\ net' = net /\ rt' = rt /\ recv' = recv /\ act' = act /\ proxy' = proxy
      /\ reconnect' = reconnect /\ stdout' = stdout /\ stdoutOverlap' = stdoutOverlap
      /\ rt.active # None
  BY DEF StdinWait, StdinFinTake
<1>2. stdin \in StdinType /\ rt.active \in Conns
  BY <1>1, ClientFacts
<1>3. StdinKept /\ stdin'.conn = rt.active
  <2>1. CASE StdinWait
    BY <1>2, <2>1 DEF StdinWait, StdinKept, StdinType
  <2>2. CASE StdinFinTake
    <3>1. Fin(recv[rt.active].epoch, rt.c2sFinAt) \in Frame
      BY <1>2, ClientFacts, OffsetFrameType
    <3> QED BY <1>2, <2>2, <3>1 DEF StdinFinTake, StdinKept, StdinType
  <2> QED BY <2>1, <2>2
<1>4. RtKept /\ PlacesKept
  BY <1>1, ClientUnchanged
<1> QED BY <1>1, <1>3, <1>4, QuietKeeps

LEMMA StdinReadKeeps ==
  ASSUME ClientInv, proxy # "exited", StdinRead
  PROVE  ClientInv'
<1>1. PICK n \in 1..Chunk :
        LET bytes == [i \in 1..n |-> rt.c2sNext + i]
        IN  /\ rt' = [rt EXCEPT !.c2sNext = @ + n, !.c2sBuf = @ \o bytes]
            /\ stdin' = [stdin EXCEPT !.pc = "send",
                           !.frame = Data(recv[stdin.conn].epoch, rt.c2sNext, bytes)]
  BY DEF StdinRead
<1>2. PICK bytes : bytes = [i \in 1..n |-> rt.c2sNext + i]
  OBVIOUS
<1>3. /\ rt' = [rt EXCEPT !.c2sNext = rt.c2sNext + n, !.c2sBuf = rt.c2sBuf \o bytes]
      /\ stdin' = [stdin EXCEPT !.pc = "send",
                     !.frame = Data(recv[stdin.conn].epoch, rt.c2sNext, bytes)]
  BY <1>1, <1>2, ClientFacts DEF RtType
<1>4. n \in Nat /\ n <= Chunk
  BY ChunkAssumption
<1>5. /\ bytes \in Seq(Nat)
      /\ Len(rt.c2sBuf \o bytes) = Len(rt.c2sBuf) + n
      /\ Window(rt.c2sBuf \o bytes, rt.c2sBufFrom, rt.c2sAck, rt.c2sNext + n)
  BY <1>2, <1>4, ClientFacts, WindowGrows, SMTT(30)
<1>6. /\ rt' \in RtType
      /\ rt'.c2sBuf = rt.c2sBuf \o bytes /\ rt'.c2sNext = rt.c2sNext + n
      /\ rt'.c2sBufFrom = rt.c2sBufFrom /\ rt'.c2sAck = rt.c2sAck
      /\ rt'.active = rt.active /\ rt'.done = rt.done
  BY <1>3, <1>5, ClientFacts DEF RtType, Window
<1>7. RtKept
  <2>1. Len(rt.c2sBuf) \in Nat /\ Len(rt.c2sBuf) < BufferBytes
    BY ClientFacts DEF StdinRead, ClientHasRoom
  <2>2. Len(rt'.c2sBuf) < BufferBytes + Chunk
    BY <1>4, <1>5, <1>6, <2>1, BufferBytesAssumption, ChunkAssumption
  <2> QED BY <1>5, <1>6, <2>2 DEF RtKept, ClientReplayWindow, ClientBuffered, Window
<1>8. /\ net' = net /\ recv' = recv /\ act' = act /\ proxy' = proxy /\ reconnect' = reconnect
      /\ stdout' = stdout /\ stdoutOverlap' = stdoutOverlap /\ stdin.pc = "read"
  BY DEF StdinRead
<1>9. stdin.conn \in Conns /\ stdin \in StdinType
  BY <1>8, ClientFacts DEF ClientInv, ClientPcs
<1>10. Data(recv[stdin.conn].epoch, rt.c2sNext, bytes) \in Frame
  BY <1>5, <1>9, ClientFacts, DataType
<1>11. StdinKept /\ stdin'.conn = stdin.conn
  BY <1>3, <1>9, <1>10 DEF StdinKept, StdinType
<1> QED BY <1>6, <1>7, <1>8, <1>11, ClientUnchanged, QuietKeeps

\* dropActive of a connection that had a receiveLoop, with its socket closed:
\* if it was the active one, none is active now.
LEMMA DropActiveKeeps ==
  ASSUME ClientInv, proxy # "exited", NEW x \in Conns, recv[x].pc # "off",
         rt' = DropActive(rt, x), net' = ClientClose(net, x),
         \A d \in Conns : recv'[d].pc = "off" <=> recv[d].pc = "off",
         \A d \in Conns \ {x} : recv'[d] = recv[d], RecvKept, StdinKept,
         stdin' = stdin \/ stdin'.pc \notin {"read", "send", "finSend"},
         act' = act, proxy' = proxy, reconnect' = reconnect,
         stdout' = stdout, stdoutOverlap' = stdoutOverlap
  PROVE  ClientInv'
<1>1. /\ RtKept /\ rt'.done = rt.done
      /\ rt'.active = IF rt.active = x THEN None ELSE rt.active
  BY DropKeeps
<1>2. /\ net' \in NetType /\ net \in NetType
      /\ net'.clientEnd = [net.clientEnd EXCEPT ![x] = "closed"]
  BY ClientFacts, ConnectionType, ClientEnds
<1>3. /\ Owned(net, rt, recv, act, stdin, reconnect) /\ EndsKept
      /\ rt.active \in Conns \cup {None} /\ net.clientEnd \in [Conns -> Ends]
  BY <1>2, ClientFacts DEF ClientInv, ClientOwner, EndsKept, NetType
<1>4. rt'.done = "no" /\ rt'.active # None =>
        recv'[rt'.active].pc \in Receivers /\ net'.clientEnd[rt'.active] = "open"
  BY <1>1, <1>2, <1>3 DEF Owned
<1>5. ClientOwner'
  BY <1>1, <1>3, <1>4, OwnerKept
<1> QED BY <1>1, <1>2, <1>5, ClientUnchanged, ClientInvParts

\* finish: nothing is asked of the connections of a runtime that is done.
LEMMA FinishStepKeeps ==
  ASSUME ClientInv, proxy # "exited", NEW r \in RtType, SameC2S(rt, r), r.active = rt.active,
         NEW err \in Outcomes \ {"no"}, NEW n \in NetType, n.clientEnd = net.clientEnd,
         rt' = Finish(r, err), net' = FinishNet(n, r),
         \A d \in Conns : recv'[d].pc = "off" <=> recv[d].pc = "off",
         RecvKept, StdinKept, PlacesKept, StdoutKept,
         stdin' = stdin \/ stdin'.pc \notin {"read", "send", "finSend"},
         act' = act, proxy' = proxy
  PROVE  ClientInv'
<1>1. RtKept /\ rt'.done # "no" /\ rt'.active \in {rt.active, None}
  BY FinishKeeps
<1>2. /\ net' \in NetType
      /\ net'.clientEnd = net.clientEnd
           \/ (rt.active # None /\ net'.clientEnd = [net.clientEnd EXCEPT ![rt.active] = "closed"])
  BY FinishNetType
<1>3. Owned(net, rt, recv, act, stdin, reconnect) /\ rt.active \in Conns \cup {None}
  BY ClientFacts DEF ClientInv, ClientOwner
<1>4. EndsKept
  BY <1>2, <1>3 DEF EndsKept, Owned
<1>5. ClientOwner'
  BY <1>1, <1>4, OwnerKept
<1> QED BY <1>1, <1>2, <1>5, ClientUnchanged, ClientInvParts

LEMMA StdinSendsKeeps ==
  ASSUME ClientInv, proxy # "exited", StdinSend \/ StdinFinSend
  PROVE  ClientInv'
<1>1. /\ recv' = recv /\ act' = act /\ proxy' = proxy /\ reconnect' = reconnect
      /\ stdout' = stdout /\ stdoutOverlap' = stdoutOverlap /\ stdin.pc \in {"send", "finSend"}
  BY DEF StdinSend, StdinFinSend
<1>2. PICK pc \in {"wait", "done"}, retry \in {"wait", "finWait"} : StdinSends(pc, retry)
  BY DEF StdinSend, StdinFinSend
<1>3. stdin.conn \in Conns /\ stdin.frame \in Frame /\ net \in NetType
  BY <1>1, ClientFacts DEF ClientInv, ClientPcs, StdinType
<1>4. CASE net' = ClientSend(net, stdin.conn, stdin.frame) /\ rt' = rt /\ stdin' = StdinIdle(pc)
  <2>1. net' \in NetType /\ net'.clientEnd = net.clientEnd
    BY <1>3, <1>4, SendType, SendEnds
  <2>2. StdinKept /\ stdin'.pc = pc
    BY <1>4, StdinIdleKept
  <2>3. Owned(net, rt, recv, act, stdin, reconnect) /\ EndsKept
    BY <2>1 DEF ClientInv, ClientOwner, EndsKept
  <2>4. ClientOwner'
    BY <1>1, <1>4, <2>1, <2>2, <2>3, OwnerKept DEF Owned
  <2> QED BY <1>1, <1>4, <2>1, <2>2, <2>4, ClientUnchanged, ClientInvParts
<1>5. CASE /\ rt' = DropActive(rt, stdin.conn) /\ net' = ClientClose(net, stdin.conn)
           /\ stdin' = StdinIdle(retry)
  <2>1. StdinKept /\ stdin'.pc = retry
    BY <1>5, StdinIdleKept
  <2>2. recv[stdin.conn].pc # "off"
    BY <1>1 DEF ClientInv, ClientOwner, Owned
  <2>3. RecvKept
    BY <1>1, ClientUnchanged
  <2> QED BY <1>1, <1>3, <1>5, <2>1, <2>2, <2>3, DropActiveKeeps
<1> QED BY <1>2, <1>4, <1>5 DEF StdinSends

LEMMA StdinEndsKeeps ==
  ASSUME ClientInv, proxy # "exited", StdinEOF \/ StdinError \/ StdinStops
  PROVE  ClientInv'
<1>1. /\ recv' = recv /\ act' = act /\ proxy' = proxy /\ reconnect' = reconnect
      /\ stdout' = stdout /\ stdoutOverlap' = stdoutOverlap
  BY DEF StdinEOF, StdinError, StdinStops
<1>2. RecvKept /\ PlacesKept /\ StdoutKept /\ rt \in RtType /\ net \in NetType
  BY <1>1, ClientUnchanged, ClientFacts
<1>3. CASE StdinEOF
  <2>1. StdinKept /\ stdin'.pc = "finWait"
    BY <1>3, StdinIdleKept DEF StdinEOF
  <2>2. rt' \in RtType /\ SameC2S(rt, rt') /\ rt'.active = rt.active /\ rt'.done = rt.done
    BY <1>2, <1>3 DEF StdinEOF, MarkClientFin, RtType, SameC2S
  <2>3. RtKept
    BY <2>2, SameC2SKept
  <2> QED BY <1>1, <1>2, <1>3, <2>1, <2>2, <2>3, QuietKeeps DEF StdinEOF
<1>4. CASE StdinError
  <2>1. StdinKept /\ stdin'.pc = "done"
    BY <1>4, StdinIdleKept DEF StdinError
  <2>2. rt' = Finish(rt, "stdin_error") /\ net' = FinishNet(net, rt)
    BY <1>4 DEF StdinError
  <2>3. "stdin_error" \in Outcomes \ {"no"} /\ SameC2S(rt, rt)
    BY DEF Outcomes, SameC2S
  <2> QED BY <1>1, <1>2, <2>1, <2>2, <2>3, FinishStepKeeps
<1>5. CASE StdinStops
  <2>1. StdinKept /\ stdin'.pc = "done"
    BY <1>5, StdinIdleKept DEF StdinStops
  <2>2. rt' = rt /\ net' = net
    BY <1>5 DEF StdinStops
  <2> QED BY <1>1, <1>2, <2>1, <2>2, ClientUnchanged, QuietKeeps
<1> QED BY <1>3, <1>4, <1>5

-----------------------------------------------------------------------------
(* reconnectLoop, heartbeats, and Proxy. *)

LEMMA ReconnectLoopKeeps ==
  ASSUME ClientInv, proxy # "exited", CheckDown \/ DialFails \/ DeadlineReset \/ ResumeTimeout
  PROVE  ClientInv'
<1>1. /\ recv' = recv /\ act' = act /\ proxy' = proxy /\ stdin' = stdin
      /\ stdout' = stdout /\ stdoutOverlap' = stdoutOverlap
      /\ reconnect' \in {"down", "wait", "done"}
  BY DEF CheckDown, DialFails, DeadlineReset, ResumeTimeout
<1>2. PlacesKept /\ RecvKept /\ StdinKept /\ StdoutKept /\ rt \in RtType /\ net \in NetType
  BY <1>1, ClientUnchanged, ClientFacts DEF PlacesKept, ClientInv, ClientTypeOK
<1>3. CASE CheckDown \/ DialFails \/ DeadlineReset
  <2>1. rt' = rt /\ net' = net /\ reconnect' # "done"
    BY <1>3 DEF CheckDown, DialFails, DeadlineReset
  <2> QED BY <1>1, <1>2, <2>1, ClientUnchanged, QuietKeeps
<1>4. CASE ResumeTimeout
  <2>1. rt' = Finish(rt, "resume_timeout") /\ net' = FinishNet(net, rt)
    BY <1>4 DEF ResumeTimeout
  <2>2. "resume_timeout" \in Outcomes \ {"no"} /\ SameC2S(rt, rt)
    BY DEF Outcomes, SameC2S
  <2> QED BY <1>1, <1>2, <2>1, <2>2, FinishStepKeeps
<1> QED BY <1>3, <1>4

LEMMA DropAndCancelKeeps ==
  ASSUME ClientInv, proxy # "exited", Cancel \/ \E c \in Conns : HeartbeatDrop(c)
  PROVE  ClientInv'
<1>1. /\ recv' = recv /\ act' = act /\ proxy' = proxy /\ stdin' = stdin
      /\ stdout' = stdout /\ stdoutOverlap' = stdoutOverlap /\ reconnect' = reconnect
  BY DEF Cancel, HeartbeatDrop
<1>2. PlacesKept /\ RecvKept /\ StdinKept /\ StdoutKept /\ rt \in RtType /\ net \in NetType
  BY <1>1, ClientUnchanged, ClientFacts
<1>3. ASSUME NEW c \in Conns, HeartbeatDrop(c)
      PROVE  ClientInv'
  <2>1. rt' = DropActive(rt, c) /\ net' = ClientClose(net, c) /\ rt.active = c
    BY <1>3 DEF HeartbeatDrop
  <2>2. recv[c].pc # "off"
    BY <2>1, NoneAssumption DEF ClientInv, ClientOwner, Owned
  <2> QED BY <1>1, <1>2, <2>1, <2>2, DropActiveKeeps
<1>4. CASE Cancel
  <2>1. rt' = Finish(rt, "canceled") /\ net' = FinishNet(net, rt)
    BY <1>4 DEF Cancel
  <2>2. "canceled" \in Outcomes \ {"no"} /\ SameC2S(rt, rt)
    BY DEF Outcomes, SameC2S
  <2> QED BY <1>1, <1>2, <2>1, <2>2, FinishStepKeeps
<1> QED BY <1>3, <1>4

LEMMA ExitKeeps ==
  ASSUME ClientInv, Exit
  PROVE  ClientInv'
<1>1. /\ proxy' = "exited" /\ act' = ActIdle /\ reconnect' = "done" /\ stdin' = StdinIdle("done")
      /\ recv' = [c \in Conns |-> Stopped(recv[c])]
      /\ net' = [net EXCEPT
           !.clientEnd = [c \in Conns |-> IF @[c] = "open" THEN "closed" ELSE @[c]],
           !.down = [c \in Conns |-> <<>>],
           !.broken = {}]
      /\ rt' = rt /\ stdout' = stdout /\ stdoutOverlap' = stdoutOverlap
  BY DEF Exit
<1>2. net' \in NetType
  <2> <<>> \in Seq(Frame)
    OBVIOUS
  <2> QED BY <1>1, ClientFacts DEF NetType, Ends
<1>3. ActKept /\ PlacesKept /\ StdinKept
  BY <1>1, StdinIdleKept DEF ActKept, ActIdle, ActType, PlacesKept
<1>4. RecvKept
  BY <1>1, ClientFacts, NoFrameType DEF RecvKept, RecvType, Stopped
<1>5. ClientOwner'
  BY <1>1 DEF ClientOwner
<1> QED BY <1>1, <1>2, <1>3, <1>4, <1>5, ClientUnchanged, ClientInvParts

-----------------------------------------------------------------------------
(* receiveLoop. *)

\* A receiveLoop that goes on, whatever it reads, sends or writes.
LEMMA ReceiverGoesOnKeeps ==
  ASSUME ClientInv, proxy # "exited", NEW c \in Conns, recv[c].pc \in Receivers,
         RecvKept, recv'[c].pc \in Receivers, \A d \in Conns \ {c} : recv'[d] = recv[d],
         net' \in NetType, net'.clientEnd = net.clientEnd,
         RtKept, rt'.active = rt.active, rt'.done = rt.done, StdoutKept,
         proxy' = proxy, act' = act, reconnect' = reconnect, stdin' = stdin
  PROVE  ClientInv'
<1>1. /\ Owned(net, rt, recv, act, stdin, reconnect) /\ EndsKept
      /\ rt.active \in Conns \cup {None}
      /\ \A d \in Conns : recv'[d].pc = "off" <=> recv[d].pc = "off"
  BY ClientFacts DEF ClientInv, ClientOwner, EndsKept, Receivers
<1>2. ClientOwner'
  BY <1>1, ClientUnchanged, OwnerKept DEF Owned
<1> QED BY <1>2, ClientUnchanged, ClientInvParts

LEMMA FinishLoopKeeps ==
  ASSUME ClientInv, proxy # "exited", NEW c \in Conns, recv[c].pc # "off",
         NEW n \in NetType, n.clientEnd = net.clientEnd, NEW err \in Outcomes \ {"no"},
         FinishLoop(c, n, err), StdoutKept,
         proxy' = proxy, act' = act, reconnect' = reconnect, stdin' = stdin
  PROVE  ClientInv'
<1>1. /\ rt' = Finish(rt, err) /\ net' = FinishNet(n, rt)
      /\ recv' = [recv EXCEPT ![c] = Stopped(@)]
  BY DEF FinishLoop
<1>2. rt \in RtType /\ SameC2S(rt, rt)
  BY ClientFacts DEF SameC2S
<1> QED BY <1>1, <1>2, ReceiverEnds, ClientUnchanged, FinishStepKeeps

LEMMA RecvFrameKeeps ==
  ASSUME ClientInv, NEW c \in Conns, RecvFrame(c) \/ BeginStdoutWrite(c)
  PROVE  ClientInv'
<1>1. /\ proxy # "exited" /\ recv[c].pc \in Receivers /\ proxy' = proxy /\ act' = act
      /\ reconnect' = reconnect /\ stdin' = stdin /\ rt' = rt /\ stdout' = stdout
      /\ stdoutOverlap' = stdoutOverlap
      /\ net' = net \/ (net.down[c] # <<>> /\ net' = ClientRecv(net, c))
  BY DEF RecvFrame, BeginStdoutWrite, Receiving, Live, Receivers
<1>2. net' \in NetType /\ net'.clientEnd = net.clientEnd
  <2>1. net \in NetType
    BY ClientFacts
  <2>2. ClientRecv(net, c).clientEnd = net.clientEnd
    BY <2>1, ClientEnds
  <2>3. net.down[c] # <<>> => ClientRecv(net, c) \in NetType
    BY <2>1, ReceivedType
  <2> QED BY <1>1, <2>1, <2>2, <2>3
<1>3. recv \in [Conns -> RecvType] /\ recv[c] \in RecvType
  BY ClientFacts
<1>4. /\ RecvKept /\ recv'[c].pc \in Receivers
      /\ \A d \in Conns \ {c} : recv'[d] = recv[d]
  <2>1. CASE recv' = recv
    BY <1>1, <1>3, <2>1 DEF RecvKept
  <2>2. CASE /\ net.down[c] # <<>>
             /\ recv' = [recv EXCEPT ![c].pc = "handle", ![c].frame = Head(net.down[c])]
    <3>1. Head(net.down[c]) \in Frame
      BY <2>2, ClientFacts, ReceivedType
    <3> QED BY <1>3, <2>2, <3>1 DEF RecvKept, RecvType, Receivers
  <2>3. CASE recv' = [recv EXCEPT ![c].pc = "write"]
    BY <1>3, <2>3 DEF RecvKept, RecvType, Receivers
  <2> QED BY <2>1, <2>2, <2>3 DEF RecvFrame, BeginStdoutWrite
<1> QED BY <1>1, <1>2, <1>4, ClientUnchanged, ReceiverGoesOnKeeps

LEMMA RecvErrorKeeps ==
  ASSUME ClientInv, NEW c \in Conns, RecvError(c)
  PROVE  ClientInv'
<1>1. /\ proxy # "exited" /\ recv[c].pc # "off" /\ proxy' = proxy /\ act' = act
      /\ reconnect' = reconnect /\ stdin' = stdin /\ stdout' = stdout
      /\ stdoutOverlap' = stdoutOverlap /\ rt' = DropActive(rt, c) /\ net' = ClientClose(net, c)
      /\ recv' = [recv EXCEPT ![c] = Stopped(@)]
  BY DEF RecvError, Live
<1> QED BY <1>1, ReceiverEnds, ClientUnchanged, DropActiveKeeps

\* An acknowledgement goes out and the loop goes on.
LEMMA AckedKeeps ==
  ASSUME ClientInv, proxy # "exited", NEW c \in Conns, recv[c].pc \in Receivers,
         NEW rx \in Nat, net' = ClientSend(net, c, Ack(recv[c].epoch, rx)),
         recv' = [recv EXCEPT ![c] = Waiting(@)],
         RtKept, rt'.active = rt.active, rt'.done = rt.done, StdoutKept,
         proxy' = proxy, act' = act, reconnect' = reconnect, stdin' = stdin
  PROVE  ClientInv'
<1>1. Ack(recv[c].epoch, rx) \in Frame
  BY ClientFacts, OffsetFrameType
<1>2. net' \in NetType /\ net'.clientEnd = net.clientEnd
  BY <1>1, ClientFacts, SendType, SendEnds
<1>3. recv'[c].pc = "run" /\ recv[c].pc # "off"
  BY ReceiverWaits DEF Receivers
<1> QED BY <1>2, <1>3, ReceiverEnds, ReceiverGoesOnKeeps DEF Receivers

LEMMA ErrorSent ==
  ASSUME ClientInv, NEW c \in Conns
  PROVE  ClientSend(net, c, Error) \in NetType /\ ClientSend(net, c, Error).clientEnd = net.clientEnd
<1>1. Error \in Frame /\ net \in NetType
  BY ClientFacts, EndFrameType DEF Codes
<1> QED BY <1>1, SendType, SendEnds

LEMMA RecvAnswersKeeps ==
  ASSUME ClientInv, NEW c \in Conns,
         RecvDuplicate(c) \/ RecvMisplaced(c) \/ RecvFin(c) \/ RecvMisplacedFin(c) \/ RecvClose(c)
  PROVE  ClientInv'
<1>1. /\ proxy # "exited" /\ recv[c].pc = "handle" /\ proxy' = proxy /\ act' = act
      /\ reconnect' = reconnect /\ stdin' = stdin
  BY DEF RecvDuplicate, RecvMisplaced, RecvFin, RecvMisplacedFin, RecvClose, Receiving, Live
<1>2. StdoutKept
  BY ClientUnchanged
  DEF RecvDuplicate, RecvMisplaced, RecvFin, RecvMisplacedFin, RecvClose, StdoutKept, StdoutType,
      ClientInv, ClientTypeOK
<1>3. net \in NetType /\ rt.s2cRx \in Nat /\ recv[c].pc \in Receivers /\ recv[c].pc # "off"
  BY <1>1, ClientFacts DEF Receivers
<1>4. \A err \in {"ack_send", "fin_gap", "nil", "terminal_close"} :
        FinishLoop(c, net, err) => ClientInv'
  <2> SUFFICES ASSUME NEW err \in {"ack_send", "fin_gap", "nil", "terminal_close"},
                      FinishLoop(c, net, err)
               PROVE  ClientInv'
    OBVIOUS
  <2>1. err \in Outcomes \ {"no"}
    BY DEF Outcomes
  <2> QED BY <1>1, <1>2, <1>3, <2>1, FinishLoopKeeps
<1>5. \A err \in {"gap", "partial_duplicate"} :
        FinishLoop(c, ClientSend(net, c, Error), err) => ClientInv'
  <2> SUFFICES ASSUME NEW err \in {"gap", "partial_duplicate"},
                      FinishLoop(c, ClientSend(net, c, Error), err)
               PROVE  ClientInv'
    OBVIOUS
  <2>1. err \in Outcomes \ {"no"}
    BY DEF Outcomes
  <2> QED BY <1>1, <1>2, <1>3, <2>1, ErrorSent, FinishLoopKeeps
<1>6. ASSUME net' = ClientSend(net, c, Ack(recv[c].epoch, rt.s2cRx)),
             recv' = [recv EXCEPT ![c] = Waiting(@)], rt' = rt
      PROVE  ClientInv'
  BY <1>1, <1>2, <1>3, <1>6, ClientUnchanged, AckedKeeps
<1>7. CASE RecvDuplicate(c)
  BY <1>4, <1>6, <1>7 DEF RecvDuplicate
<1>8. CASE RecvMisplaced(c)
  BY <1>5, <1>8 DEF RecvMisplaced
<1>9. CASE RecvFin(c)
  BY <1>6, <1>9 DEF RecvFin
<1>10. CASE RecvMisplacedFin(c)
  BY <1>4, <1>10 DEF RecvMisplacedFin
<1>11. CASE RecvClose(c)
  BY <1>4, <1>11 DEF RecvClose
<1> QED BY <1>7, <1>8, <1>9, <1>10, <1>11

\* Stdout receives more of the stream.
LEMMA StdoutGrows ==
  ASSUME ClientInv, NEW bytes \in Seq(Nat), stdout' = [stdout EXCEPT !.data = @ \o bytes],
         NEW overlap \in BOOLEAN, stdoutOverlap' = (stdoutOverlap \/ overlap)
  PROVE  StdoutKept
<1>1. stdout \in StdoutType /\ stdout.data \in Seq(Nat) /\ stdoutOverlap \in BOOLEAN
  BY DEF ClientInv, ClientTypeOK, StdoutType
<1>2. stdout.data \o bytes \in Seq(Nat)
  BY <1>1, ConcatProperties
<1> QED BY <1>1, <1>2 DEF StdoutType, StdoutKept

\* A receive offset that moves is all that changes in the runtime.
LEMMA S2CRxMoves ==
  ASSUME ClientInv, NEW rx \in Nat
  PROVE  LET r == [rt EXCEPT !.s2cRx = rx]
         IN  r \in RtType /\ SameC2S(rt, r) /\ r.active = rt.active /\ r.done = rt.done
BY ClientFacts DEF RtType, SameC2S

LEMMA FinishStdoutWriteKeeps ==
  ASSUME ClientInv, NEW c \in Conns, FinishStdoutWrite(c)
  PROVE  ClientInv'
<1> DEFINE f  == recv[c].frame
           rx == rt.s2cRx + Len(f.payload)
<1>1. /\ proxy # "exited" /\ recv[c].pc = "write"
      /\ stdout' = [stdout EXCEPT !.data = @ \o f.payload]
      /\ rt' = [rt EXCEPT !.s2cRx = rx]
      /\ stdoutOverlap' = (stdoutOverlap \/ OthersWriting(c))
      /\ net' = ClientSend(net, c, Ack(recv[c].epoch, rx))
      /\ recv' = [recv EXCEPT ![c] = Waiting(@)]
      /\ proxy' = proxy /\ act' = act /\ reconnect' = reconnect /\ stdin' = stdin
  BY DEF FinishStdoutWrite, Live
<1>2. f.payload \in Seq(Nat) /\ rx \in Nat
  <2>1. f.payload \in Seq(Nat) /\ rt.s2cRx \in Nat
    BY ClientFacts
  <2>2. Len(f.payload) \in Nat
    BY <2>1
  <2> QED BY <2>1, <2>2
<1> HIDE DEF f, rx
<1>3. StdoutKept
  BY <1>1, <1>2, StdoutGrows
<1>4. RtKept /\ rt'.active = rt.active /\ rt'.done = rt.done
  BY <1>1, <1>2, S2CRxMoves, SameC2SKept
<1> QED BY <1>1, <1>2, <1>3, <1>4, AckedKeeps DEF Receivers

LEMMA StdoutWriteFailsKeeps ==
  ASSUME ClientInv, NEW c \in Conns, StdoutWriteFails(c)
  PROVE  ClientInv'
<1> DEFINE f == recv[c].frame
<1>1. PICK k \in 0..(Len(f.payload) - 1) :
        LET rx == rt.s2cRx + k
            r  == [rt EXCEPT !.s2cRx = rx]
        IN  /\ stdout' = [stdout EXCEPT !.data = @ \o SubSeq(f.payload, 1, k)]
            /\ stdoutOverlap' = (stdoutOverlap \/ OthersWriting(c))
            /\ rt' = Finish(r, "stdout_error")
            /\ net' = FinishNet(ClientSend(ClientSend(net, c, Ack(recv[c].epoch, rx)), c, Error), r)
  BY DEF StdoutWriteFails
<1>2. /\ proxy # "exited" /\ recv[c].pc = "write" /\ recv' = [recv EXCEPT ![c] = Stopped(@)]
      /\ proxy' = proxy /\ act' = act /\ reconnect' = reconnect /\ stdin' = stdin
  BY DEF StdoutWriteFails, Live
<1>3. /\ f.payload \in Seq(Nat) /\ Len(f.payload) \in Nat /\ net \in NetType
      /\ k \in Nat /\ k <= Len(f.payload) /\ rt.s2cRx + k \in Nat
  <2>1. f.payload \in Seq(Nat) /\ rt.s2cRx \in Nat /\ net \in NetType
    BY ClientFacts
  <2>2. Len(f.payload) \in Nat
    BY <2>1
  <2> QED BY <2>1, <2>2
<1> HIDE DEF f
<1> DEFINE rx == rt.s2cRx + k
           r  == [rt EXCEPT !.s2cRx = rx]
           n1 == ClientSend(net, c, Ack(recv[c].epoch, rx))
           n2 == ClientSend(n1, c, Error)
<1>4. r \in RtType /\ SameC2S(rt, r) /\ r.active = rt.active /\ r.done = rt.done
  BY <1>3, S2CRxMoves
<1>5. n2 \in NetType /\ n2.clientEnd = net.clientEnd
  <2>1. Ack(recv[c].epoch, rx) \in Frame /\ Error \in Frame
    BY <1>3, ClientFacts, OffsetFrameType, EndFrameType DEF Codes
  <2>2. n1 \in NetType /\ n1.clientEnd = net.clientEnd
    BY <1>3, <2>1, SendType, SendEnds
  <2> HIDE DEF n1
  <2> QED BY <2>1, <2>2, SendType, SendEnds
<1>6. rt' = Finish(r, "stdout_error") /\ net' = FinishNet(n2, r)
  BY <1>1
<1> HIDE DEF rx, r, n1, n2
<1>7. StdoutKept
  <2>1. SubSeq(f.payload, 1, k) \in Seq(Nat)
    BY <1>3
  <2> QED BY <1>1, <2>1, StdoutGrows
<1>8. "stdout_error" \in Outcomes \ {"no"}
  BY DEF Outcomes
<1> QED BY <1>2, <1>4, <1>5, <1>6, <1>7, <1>8, ReceiverEnds, ClientUnchanged, FinishStepKeeps

LEMMA RecvAckKeeps ==
  ASSUME ClientInv, NEW c \in Conns, RecvAck(c)
  PROVE  ClientInv'
<1> DEFINE offset == recv[c].frame.offset
<1>1. /\ proxy # "exited" /\ recv[c].pc = "handle" /\ recv[c].pc # "off"
      /\ proxy' = proxy /\ act' = act /\ reconnect' = reconnect /\ stdin' = stdin
      /\ stdout' = stdout /\ stdoutOverlap' = stdoutOverlap
  BY DEF RecvAck, Receiving, Live
<1>2. offset \in Nat /\ net \in NetType /\ StdoutKept
  BY <1>1, ClientFacts, ClientUnchanged
<1>3. CASE FinishLoop(c, net, "ack_ahead")
  <2>1. "ack_ahead" \in Outcomes \ {"no"}
    BY DEF Outcomes
  <2> QED BY <1>1, <1>2, <1>3, <2>1, FinishLoopKeeps
<1>4. CASE /\ ~AdvanceC2SAckFails(rt, offset)
           /\ rt' = AdvanceC2SAck(rt, offset)
           /\ recv' = [recv EXCEPT ![c] = Waiting(@)] /\ net' = net
  <2>1. /\ rt' \in RtType
        /\ Window(rt'.c2sBuf, rt'.c2sBufFrom, rt'.c2sAck, rt'.c2sNext)
        /\ Len(rt'.c2sBuf) <= Len(rt.c2sBuf)
        /\ rt'.active = rt.active /\ rt'.done = rt.done
    BY <1>2, <1>4, ClientFacts, AdvanceC2SAckWindow
  <2>2. Len(rt'.c2sBuf) \in Nat /\ Len(rt'.c2sBuf) < BufferBytes + Chunk
    BY <2>1, ClientFacts, BufferBytesAssumption, ChunkAssumption DEF Window
  <2>3. RtKept
    BY <2>1, <2>2 DEF RtKept, ClientReplayWindow, ClientBuffered, Window
  <2>4. recv'[c].pc = "run"
    BY <1>4, ReceiverWaits
  <2> QED BY <1>1, <1>2, <1>4, <2>1, <2>3, <2>4, ReceiverEnds, ReceiverGoesOnKeeps DEF Receivers
<1> QED BY <1>3, <1>4 DEF RecvAck

-----------------------------------------------------------------------------

\* Every step of the client keeps its invariant.
THEOREM ClientStepKeeps ==
  ASSUME ClientInv, ClientNext
  PROVE  ClientInv'
<1>1. CASE Exit
  BY <1>1, ExitKeeps
<1>2. ASSUME NEW c \in Conns, RecvStep(c)
      PROVE  ClientInv'
  BY <1>2, RecvFrameKeeps, RecvErrorKeeps, RecvAnswersKeeps, FinishStdoutWriteKeeps,
     StdoutWriteFailsKeeps, RecvAckKeeps
  DEF RecvStep
<1>3. CASE ActivationStep
  <2>1. act.pc # "idle"
    BY <1>3 DEF ActivationStep, TakeSnapshot, SendReplay, SendReplayFails, HelloFails,
                CommitActivation, RefuseCommit, AcceptArrives
  <2>2. proxy # "exited"
    BY <2>1 DEF ClientInv, ClientPcs
  <2> QED BY <1>3, <2>2, TakeSnapshotKeeps, SendReplayKeeps, SendReplayFailsKeeps,
             HelloEndsKeeps, CommitActivationKeeps
          DEF ActivationStep
<1>4. CASE StdinStep
  <2>1. proxy # "exited"
    BY <1>4 DEF StdinStep, StdinWait, StdinRead, StdinSend, StdinEOF, StdinError, StdinFinTake,
                StdinFinSend, StdinStops
  <2> QED BY <1>4, <2>1, StdinTakesKeeps, StdinReadKeeps, StdinSendsKeeps, StdinEndsKeeps
          DEF StdinStep
<1>5. ASSUME NEW by \in {"proxy", "reconnect", "switch"}, NEW c \in Conns, Connect(by, c)
      PROVE  ClientInv'
  BY <1>5, ConnectKeeps
<1>6. CASE ReconnectStep
  <2>1. ASSUME NEW c \in Conns, HelloDeadline(c)
        PROVE  ClientInv'
    <3>1. proxy # "exited"
      BY <2>1 DEF HelloDeadline, ClientInv, ClientPcs
    <3> QED BY <2>1, <3>1, HelloDeadlineKeeps
  <2>2. CASE CheckDown \/ DialFails \/ DeadlineReset \/ ResumeTimeout
    <3>1. proxy # "exited"
      BY <2>2 DEF CheckDown, DialFails, DeadlineReset, ResumeTimeout
    <3> QED BY <2>2, <3>1, ReconnectLoopKeeps
  <2> QED BY <1>5, <1>6, <2>1, <2>2 DEF ReconnectStep
<1>7. CASE Cancel \/ \E c \in Conns : HeartbeatDrop(c)
  <2>1. proxy # "exited"
    BY <1>7 DEF Cancel, HeartbeatDrop
  <2> QED BY <1>7, <2>1, DropAndCancelKeeps
<1> QED BY <1>1, <1>2, <1>3, <1>4, <1>5, <1>6, <1>7 DEF ClientNext
=============================================================================
