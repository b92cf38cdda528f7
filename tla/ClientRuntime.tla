---------------------------- MODULE ClientRuntime ----------------------------
(***************************************************************************)
(* The clientRuntime behind `moltssh proxy` and its goroutines: Proxy      *)
(* itself, stdinLoop, a receiveLoop per activated connection, and the two  *)
(* that activate connections, reconnectLoop and switchLoop, which take     *)
(* turns under switchMu (variable act).  As in ServerSession, a section    *)
(* under rt.mu is one step and so is each thing done between two of them.  *)
(***************************************************************************)
EXTENDS Wire

CONSTANT
  StdinLen      \* bound: bytes stdin ever has

ASSUME StdinLenAssumption == StdinLen \in Nat

VARIABLES
  rt,            \* the clientRuntime
  proxy,         \* where Proxy is
  act,           \* the activation that holds switchMu
  reconnect,     \* where reconnectLoop is
  stdin,         \* where stdinLoop is
  recv,          \* recv[c]: c's clientConn and its receiveLoop
  stdout,        \* what stdout has received
  stdoutOverlap  \* history: a write to stdout finished while another
                 \* receiveLoop was in the middle of its own

clientVars == <<rt, proxy, act, reconnect, stdin, recv, stdout, stdoutOverlap>>

\* Why the runtime finished.  "nil" is a clean end; the others are errors.
Outcomes == {"no", "nil", "resume_timeout", "terminal_close", "canceled", "stdin_error",
          "gap", "partial_duplicate", "fin_gap", "ack_ahead", "ack_send", "stdout_error"}

RtType == [active     : Conns \cup {None},
           session    : BOOLEAN,          \* sessionID # ""
           epoch      : Nat,
           c2sNext    : Nat,
           c2sAck     : Nat,
           c2sBuf     : Seq(Nat),
           c2sBufFrom : Nat,
           c2sFin     : BOOLEAN,
           c2sFinAt   : Nat,
           s2cRx      : Nat,
           done       : Outcomes]            \* finished and doneErr

ActType == [pc   : {"idle", "hello", "snapshot", "replay"},
            by   : {"proxy", "reconnect", "switch"},
            conn : Conns \cup {None},
            out  : Seq(Frame)]            \* what replayClientBytes still has to send

StdinType == [pc    : {"wait", "read", "send", "finWait", "finSend", "done"},
              conn  : Conns \cup {None},
              frame : Frame]

RecvType == [pc    : {"off", "run", "handle", "write", "done"},
             epoch : Nat,
             frame : Frame]

StdoutType == [data : Seq(Nat), eof : BOOLEAN]

ActIdle == [pc |-> "idle", by |-> "proxy", conn |-> None, out |-> <<>>]

ClientInit ==
  /\ rt = [active |-> None, session |-> FALSE, epoch |-> 0, c2sNext |-> 0, c2sAck |-> 0,
           c2sBuf |-> <<>>, c2sBufFrom |-> 0, c2sFin |-> FALSE, c2sFinAt |-> 0,
           s2cRx |-> 0, done |-> "no"]
  /\ proxy = "starting"
  /\ act = ActIdle
  /\ reconnect = "wait"
  /\ stdin = [pc |-> "wait", conn |-> None, frame |-> NoFrame]
  /\ recv = [c \in Conns |-> [pc |-> "off", epoch |-> 0, frame |-> NoFrame]]
  /\ stdout = [data |-> <<>>, eof |-> FALSE]
  /\ stdoutOverlap = FALSE

-----------------------------------------------------------------------------
(* The runtime's methods, as functions of its state. *)

AdvanceC2SAckFails(r, offset) ==
  /\ offset >= r.c2sAck
  /\ offset > r.c2sNext \/ offset - r.c2sBufFrom > Len(r.c2sBuf)

\* Mutants of AdvanceC2SAck: the buffer's start is not moved; the offset is
\* taken for an inclusive one.
AdvanceC2SAckNoRebase(r, offset) ==
  IF offset < r.c2sAck THEN r
  ELSE [r EXCEPT !.c2sBuf = SubSeq(@, offset - r.c2sBufFrom + 1, Len(@)), !.c2sAck = offset]
AdvanceC2SAckInclusive(r, offset) ==
  IF offset < r.c2sAck THEN r
  ELSE [r EXCEPT !.c2sBuf = SubSeq(@, offset - r.c2sBufFrom + 2, Len(@)),
                 !.c2sBufFrom = offset + 1,
                 !.c2sAck = offset + 1]

AdvanceC2SAck(r, offset) ==
  IF offset < r.c2sAck THEN r
  ELSE [r EXCEPT !.c2sBuf = SubSeq(@, offset - r.c2sBufFrom + 1, Len(@)),
                 !.c2sBufFrom = offset,
                 !.c2sAck = offset]

\* Mutant of DropActive: the comparison is inverted.
DropOthers(r, c) == IF r.active # c THEN [r EXCEPT !.active = None] ELSE r
\* dropActive closes its connection even when that is no longer the active one.
DropActive(r, c) == IF r.active = c THEN [r EXCEPT !.active = None] ELSE r

\* Mutant of Finish: finished and doneErr are not set.
FinishUnmarked(r, err) == [r EXCEPT !.active = None]
Finish(r, err) == IF r.done # "no" THEN r ELSE [r EXCEPT !.active = None, !.done = err]
FinishNet(n, r) == IF r.done # "no" \/ r.active = None THEN n ELSE ClientClose(n, r.active)

Stopped(r) == [r EXCEPT !.pc = "done", !.frame = NoFrame]
Waiting(r) == [r EXCEPT !.pc = "run", !.frame = NoFrame]

\* A receiveLoop that calls finish and returns.
FinishLoop(c, n, err) ==
  /\ rt' = Finish(rt, err)
  /\ net' = FinishNet(n, rt)
  /\ recv' = [recv EXCEPT ![c] = Stopped(@)]

-----------------------------------------------------------------------------
(* Activation of a connection, under switchMu. *)

\* Who may ask for one: Proxy once, to open the session; reconnectLoop after
\* it found no active connection (and does not look again); switchLoop when
\* the connection it measured is active, or was the last active one.
MayConnect(by) ==
  CASE by = "proxy"     -> proxy = "starting"
    [] by = "reconnect" -> proxy = "running" /\ reconnect = "down"
    [] by = "switch"    -> /\ "switch" \in Events
                           /\ proxy = "running" /\ rt.session /\ rt.done = "no"

\* A dialled (or probed) connection, and the hello with the current offsets.
Connect(by, c) ==
  /\ act.pc = "idle"
  /\ MayConnect(by)
  /\ net.clientEnd[c] = "none"
  /\ net' = ClientSend(Open(net, c), c, Hello(by # "proxy", rt.c2sAck, rt.s2cRx))
  /\ act' = [pc |-> "hello", by |-> by, conn |-> c, out |-> <<>>]
  /\ reconnect' = IF by = "reconnect" THEN "attempt" ELSE reconnect
  /\ UNCHANGED <<rt, proxy, stdin, recv, stdout, stdoutOverlap>>

\* The caller gets its error or its nil back and switchMu is free again.
ActivationEnds(ok) ==
  /\ act' = ActIdle
  /\ reconnect' = IF act.by = "reconnect" THEN "wait" ELSE reconnect
  /\ proxy' = IF act.by = "proxy" THEN (IF ok THEN "running" ELSE "exited") ELSE proxy

\* startSession fails: the read failed, Proxy's context ended, or a frame came
\* that is not accept.
HelloFails(c) ==
  /\ act.pc = "hello" /\ act.conn = c
  /\ \/ ClientReadFails(net, c)
     \/ rt.done = "canceled"
     \/ net.down[c] # <<>> /\ Head(net.down[c]).type # "accept"
  /\ net' = ClientClose(net, c)
  /\ ActivationEnds(FALSE)
  /\ UNCHANGED <<rt, stdin, recv, stdout, stdoutOverlap>>

\* resume.timeout passes while reconnectLoop waits for accept.  Activations of
\* switchLoop and Proxy have no deadline.
HelloDeadline(c) ==
  /\ act.pc = "hello" /\ act.conn = c /\ act.by = "reconnect"
  /\ net' = ClientClose(net, c)
  /\ act' = ActIdle
  /\ reconnect' = "expired"
  /\ UNCHANGED <<rt, proxy, stdin, recv, stdout, stdoutOverlap>>

AcceptArrives(c) ==
  /\ act.pc = "hello" /\ act.conn = c
  /\ net.down[c] # <<>>
  /\ Head(net.down[c]).type = "accept"

CommitRefused(f) ==
  rt.done # "no" \/ f.clientToServerRx > rt.c2sNext \/ AdvanceC2SAckFails(rt, f.clientToServerRx)

\* commitActivation: the new connection becomes the active one, the old one
\* is closed and the new receiveLoop starts.
CommitActivation(c) ==
  /\ AcceptArrives(c)
  /\ LET f == Head(net.down[c])
         n == ClientRecv(net, c)
     IN  /\ ~CommitRefused(f)
         /\ rt' = [AdvanceC2SAck(rt, f.clientToServerRx) EXCEPT
                     !.active = c, !.session = TRUE, !.epoch = f.epoch]
         /\ recv' = [recv EXCEPT ![c].pc = "run", ![c].epoch = f.epoch]
         /\ net' = IF rt.active = None THEN n ELSE ClientClose(n, rt.active)
  /\ act' = [act EXCEPT !.pc = "snapshot"]
  /\ UNCHANGED <<proxy, reconnect, stdin, stdout, stdoutOverlap>>

RefuseCommit(c) ==
  /\ AcceptArrives(c)
  /\ CommitRefused(Head(net.down[c]))
  /\ net' = ClientClose(net, c)
  /\ ActivationEnds(FALSE)
  /\ UNCHANGED <<rt, stdin, recv, stdout, stdoutOverlap>>

\* replayClientBytes copies what the server has not acknowledged...
TakeSnapshot ==
  /\ act.pc = "snapshot"
  /\ LET epoch == recv[act.conn].epoch
         fin   == IF rt.c2sFin THEN <<Fin(epoch, rt.c2sFinAt)>> ELSE <<>>
         out   == DataChunks(epoch, rt.c2sBufFrom, rt.c2sBuf) \o fin
     IN  IF out = <<>> THEN ActivationEnds(TRUE)
         ELSE act' = [act EXCEPT !.pc = "replay", !.out = out] /\ UNCHANGED <<proxy, reconnect>>
  /\ UNCHANGED <<net, rt, stdin, recv, stdout, stdoutOverlap>>

\* ...and sends it, unlocked, while stdinLoop may send too.
SendReplay ==
  /\ act.pc = "replay"
  /\ ClientSendMaySucceed(net, act.conn)
  /\ net' = ClientSend(net, act.conn, Head(act.out))
  /\ IF Len(act.out) = 1 THEN ActivationEnds(TRUE)
     ELSE act' = [act EXCEPT !.out = Tail(@)] /\ UNCHANGED <<proxy, reconnect>>
  /\ UNCHANGED <<rt, stdin, recv, stdout, stdoutOverlap>>

SendReplayFails ==
  /\ act.pc = "replay"
  /\ ClientSendMayFail(net, act.conn)
  /\ rt' = DropActive(rt, act.conn)
  /\ net' = ClientClose(net, act.conn)
  /\ ActivationEnds(FALSE)
  /\ UNCHANGED <<stdin, recv, stdout, stdoutOverlap>>

-----------------------------------------------------------------------------
(* stdinLoop. *)

StdinIdle(pc) == [pc |-> pc, conn |-> None, frame |-> NoFrame]

\* waitBuffer's condition.
\* Mutant of ClientHasRoom: the limit is passed, not reached, before it waits.
ClientHasRoomLate == Len(rt.c2sBuf) <= BufferBytes
ClientHasRoom == Len(rt.c2sBuf) < BufferBytes

\* waitActive returns the connection the next bytes will be sent on...
StdinWait ==
  /\ proxy = "running"
  /\ stdin.pc = "wait" /\ rt.active # None
  /\ stdin' = [stdin EXCEPT !.pc = "read", !.conn = rt.active]
  /\ UNCHANGED <<net, rt, proxy, act, reconnect, recv, stdout, stdoutOverlap>>

\* ...whenever they come: the read of stdin may take forever.
StdinRead ==
  /\ proxy = "running"
  /\ stdin.pc = "read" /\ ClientHasRoom
  /\ \E n \in 1..Chunk :
       LET bytes == [i \in 1..n |-> rt.c2sNext + i]
       IN  /\ rt.c2sNext + n <= StdinLen
           /\ rt' = [rt EXCEPT !.c2sNext = @ + n, !.c2sBuf = @ \o bytes]
           /\ stdin' = [stdin EXCEPT !.pc = "send",
                          !.frame = Data(recv[stdin.conn].epoch, rt.c2sNext, bytes)]
  /\ UNCHANGED <<net, proxy, act, reconnect, recv, stdout, stdoutOverlap>>

\* conn.send, and dropActive if it fails; then the loop goes on at pc.
StdinSends(pc, retry) ==
  \/ /\ ClientSendMaySucceed(net, stdin.conn)
     /\ net' = ClientSend(net, stdin.conn, stdin.frame)
     /\ rt' = rt
     /\ stdin' = StdinIdle(pc)
  \/ /\ ClientSendMayFail(net, stdin.conn)
     /\ rt' = DropActive(rt, stdin.conn)
     /\ net' = ClientClose(net, stdin.conn)
     /\ stdin' = StdinIdle(retry)

StdinSend ==
  /\ proxy = "running"
  /\ stdin.pc = "send"
  /\ StdinSends("wait", "wait")
  /\ UNCHANGED <<proxy, act, reconnect, recv, stdout, stdoutOverlap>>

\* Mutant of MarkClientFin: off by one.
MarkClientFinShort(r) == [r EXCEPT !.c2sFin = TRUE, !.c2sFinAt = r.c2sNext - 1]
MarkClientFin(r) == [r EXCEPT !.c2sFin = TRUE, !.c2sFinAt = r.c2sNext]

StdinEOF ==
  /\ "stdin_eof" \in Events
  /\ proxy = "running"
  /\ stdin.pc = "read" /\ ClientHasRoom
  /\ rt' = MarkClientFin(rt)
  /\ stdin' = StdinIdle("finWait")
  /\ UNCHANGED <<net, proxy, act, reconnect, recv, stdout, stdoutOverlap>>

StdinError ==
  /\ "stdin_error" \in Events
  /\ proxy = "running"
  /\ stdin.pc = "read" /\ ClientHasRoom
  /\ rt' = Finish(rt, "stdin_error")
  /\ net' = FinishNet(net, rt)
  /\ stdin' = StdinIdle("done")
  /\ UNCHANGED <<proxy, act, reconnect, recv, stdout, stdoutOverlap>>

\* sendClientFin waits for a connection and sends fin until a send succeeds.
StdinFinTake ==
  /\ proxy = "running"
  /\ stdin.pc = "finWait" /\ rt.active # None
  /\ stdin' = [pc |-> "finSend", conn |-> rt.active,
               frame |-> Fin(recv[rt.active].epoch, rt.c2sFinAt)]
  /\ UNCHANGED <<net, rt, proxy, act, reconnect, recv, stdout, stdoutOverlap>>

StdinFinSend ==
  /\ proxy = "running"
  /\ stdin.pc = "finSend"
  /\ StdinSends("done", "finWait")
  /\ UNCHANGED <<proxy, act, reconnect, recv, stdout, stdoutOverlap>>

\* waitActive or waitBuffer sees the closed done channel.
StdinStops ==
  /\ proxy = "running"
  /\ rt.done # "no"
  /\ stdin.pc \in {"wait", "finWait"} \/ (stdin.pc = "read" /\ ~ClientHasRoom)
  /\ stdin' = StdinIdle("done")
  /\ UNCHANGED <<net, rt, proxy, act, reconnect, recv, stdout, stdoutOverlap>>

-----------------------------------------------------------------------------
(* reconnectLoop, the switch cycle's heartbeat, and Proxy itself. *)

\* The loop reads the state once, then waits out its backoff.
CheckDown ==
  /\ proxy = "running"
  /\ reconnect = "wait" /\ rt.active = None /\ rt.session /\ rt.done = "no"
  /\ reconnect' = "down"
  /\ UNCHANGED <<net, rt, proxy, act, stdin, recv, stdout, stdoutOverlap>>

\* No path can be dialled: back to the state check.
DialFails ==
  /\ "dial_error" \in Events
  /\ proxy = "running"
  /\ reconnect = "down" /\ act.pc = "idle"
  /\ reconnect' = "wait"
  /\ UNCHANGED <<net, rt, proxy, act, stdin, recv, stdout, stdoutOverlap>>

\* The deadline passed during an attempt, but another connection was activated.
DeadlineReset ==
  /\ proxy = "running"
  /\ reconnect = "expired" /\ rt.active # None
  /\ reconnect' = "wait"
  /\ UNCHANGED <<net, rt, proxy, act, stdin, recv, stdout, stdoutOverlap>>

\* The deadline passed, seen after the backoff or at the top of the loop.
ResumeTimeout ==
  /\ proxy = "running"
  /\ reconnect = "down" \/ (reconnect = "expired" /\ rt.active = None)
  /\ rt' = Finish(rt, "resume_timeout")
  /\ net' = FinishNet(net, rt)
  /\ reconnect' = "done"
  /\ UNCHANGED <<proxy, act, stdin, recv, stdout, stdoutOverlap>>

\* Too many lost heartbeats and no candidate to switch to.
HeartbeatDrop(c) ==
  /\ "heartbeat" \in Events
  /\ proxy = "running"
  /\ rt.active = c
  /\ rt' = DropActive(rt, c)
  /\ net' = ClientClose(net, c)
  /\ UNCHANGED <<proxy, act, reconnect, stdin, recv, stdout, stdoutOverlap>>

\* Proxy's context is canceled.
Cancel ==
  /\ "cancel" \in Events
  /\ proxy # "exited"
  /\ rt.done = "no"
  /\ rt' = Finish(rt, "canceled")
  /\ net' = FinishNet(net, rt)
  /\ UNCHANGED <<proxy, act, reconnect, stdin, recv, stdout, stdoutOverlap>>

\* Proxy returns and the process ends, with its goroutines and sockets.
Exit ==
  /\ proxy = "running" /\ rt.done # "no"
  /\ proxy' = "exited"
  /\ act' = ActIdle
  /\ reconnect' = "done"
  /\ stdin' = StdinIdle("done")
  /\ recv' = [c \in Conns |-> Stopped(recv[c])]
  /\ net' = [net EXCEPT
       !.clientEnd = [c \in Conns |-> IF @[c] = "open" THEN "closed" ELSE @[c]],
       !.down = [c \in Conns |-> <<>>],
       !.broken = {}]
  /\ UNCHANGED <<rt, stdout, stdoutOverlap>>

-----------------------------------------------------------------------------
(* receiveLoop: one frame at a time. *)

Live == proxy # "exited"

\* A frame is read and checked against the active connection and its epoch;
\* what it asks for happens later.
RecvFrame(c) ==
  /\ Live
  /\ recv[c].pc = "run"
  /\ net.down[c] # <<>>
  /\ LET f == Head(net.down[c]) IN
       recv' = IF rt.active = c /\ f.epoch = rt.epoch
               THEN [recv EXCEPT ![c].pc = "handle", ![c].frame = f]
               ELSE recv
  /\ net' = ClientRecv(net, c)
  /\ UNCHANGED <<rt, proxy, act, reconnect, stdin, stdout, stdoutOverlap>>

RecvError(c) ==
  /\ Live
  /\ recv[c].pc = "run"
  /\ ClientReadFails(net, c)
  /\ rt' = DropActive(rt, c)
  /\ net' = ClientClose(net, c)
  /\ recv' = [recv EXCEPT ![c] = Stopped(@)]
  /\ UNCHANGED <<proxy, act, reconnect, stdin, stdout, stdoutOverlap>>

Receiving(c, type) == Live /\ recv[c].pc = "handle" /\ recv[c].frame.type = type

\* Data the client already has is acknowledged again; a send that fails here
\* is returned as an error and finishes the runtime.
RecvDuplicate(c) ==
  /\ Receiving(c, "data")
  /\ recv[c].frame.offset < rt.s2cRx
  /\ recv[c].frame.offset + Len(recv[c].frame.payload) <= rt.s2cRx
  /\ \/ /\ ClientSendMaySucceed(net, c)
        /\ net' = ClientSend(net, c, Ack(recv[c].epoch, rt.s2cRx))
        /\ recv' = [recv EXCEPT ![c] = Waiting(@)]
        /\ rt' = rt
     \/ /\ ClientSendMayFail(net, c)
        /\ FinishLoop(c, net, "ack_send")
  /\ UNCHANGED <<proxy, act, reconnect, stdin, stdout, stdoutOverlap>>

\* Mutant of IsNextData: a gap is let through.
IsNextOrLaterData(f) == f.offset >= rt.s2cRx
IsNextData(f) == f.offset = rt.s2cRx

\* A gap, or data the client has a part of: an error frame and finish.
RecvMisplaced(c) ==
  /\ Receiving(c, "data")
  /\ LET f == recv[c].frame IN
       \/ /\ f.offset > rt.s2cRx
          /\ FinishLoop(c, ClientSend(net, c, Error), "gap")
       \/ /\ f.offset < rt.s2cRx /\ f.offset + Len(f.payload) > rt.s2cRx
          /\ FinishLoop(c, ClientSend(net, c, Error), "partial_duplicate")
  /\ UNCHANGED <<proxy, act, reconnect, stdin, stdout, stdoutOverlap>>

\* s2cRx was read and matches: the write to stdout starts, unlocked.
BeginStdoutWrite(c) ==
  /\ Receiving(c, "data")
  /\ IsNextData(recv[c].frame)
  /\ recv' = [recv EXCEPT ![c].pc = "write"]
  /\ UNCHANGED <<net, rt, proxy, act, reconnect, stdin, stdout, stdoutOverlap>>

OthersWriting(c) == \E d \in Conns \ {c} : recv[d].pc = "write"

\* The write returned: s2cRx moves by what was written, whatever it is by now.
FinishStdoutWrite(c) ==
  /\ Live
  /\ recv[c].pc = "write"
  /\ LET f  == recv[c].frame
         rx == rt.s2cRx + Len(f.payload)
     IN  /\ stdout' = [stdout EXCEPT !.data = @ \o f.payload]
         /\ rt' = [rt EXCEPT !.s2cRx = rx]
         /\ stdoutOverlap' = (stdoutOverlap \/ OthersWriting(c))
         /\ net' = ClientSend(net, c, Ack(recv[c].epoch, rx))
  /\ recv' = [recv EXCEPT ![c] = Waiting(@)]
  /\ UNCHANGED <<proxy, act, reconnect, stdin>>

\* Whoever reads stdout is gone.
StdoutWriteFails(c) ==
  /\ "stdout_error" \in Events
  /\ Live
  /\ recv[c].pc = "write"
  /\ \E n \in 0..(Len(recv[c].frame.payload) - 1) :
       LET f  == recv[c].frame
           rx == rt.s2cRx + n
           r  == [rt EXCEPT !.s2cRx = rx]
           w  == ClientSend(ClientSend(net, c, Ack(recv[c].epoch, rx)), c, Error)
       IN  /\ stdout' = [stdout EXCEPT !.data = @ \o SubSeq(f.payload, 1, n)]
           /\ stdoutOverlap' = (stdoutOverlap \/ OthersWriting(c))
           /\ rt' = Finish(r, "stdout_error")
           /\ net' = FinishNet(w, r)
  /\ recv' = [recv EXCEPT ![c] = Stopped(@)]
  /\ UNCHANGED <<proxy, act, reconnect, stdin>>

RecvAck(c) ==
  /\ Receiving(c, "ack")
  /\ IF AdvanceC2SAckFails(rt, recv[c].frame.offset)
     THEN FinishLoop(c, net, "ack_ahead")
     ELSE /\ rt' = AdvanceC2SAck(rt, recv[c].frame.offset)
          /\ recv' = [recv EXCEPT ![c] = Waiting(@)]
          /\ net' = net
  /\ UNCHANGED <<proxy, act, reconnect, stdin, stdout, stdoutOverlap>>

\* Mutant of FinIsHere: only a fin for bytes already written is refused.
FinIsHereOrLater(f) == f.offset >= rt.s2cRx
FinIsHere(f) == f.offset = rt.s2cRx

RecvFin(c) ==
  /\ Receiving(c, "fin")
  /\ FinIsHere(recv[c].frame)
  /\ stdout' = [stdout EXCEPT !.eof = TRUE]
  /\ net' = ClientSend(net, c, Ack(recv[c].epoch, rt.s2cRx))
  /\ recv' = [recv EXCEPT ![c] = Waiting(@)]
  /\ UNCHANGED <<rt, proxy, act, reconnect, stdin, stdoutOverlap>>

RecvMisplacedFin(c) ==
  /\ Receiving(c, "fin")
  /\ ~FinIsHere(recv[c].frame)
  /\ FinishLoop(c, net, "fin_gap")
  /\ UNCHANGED <<proxy, act, reconnect, stdin, stdout, stdoutOverlap>>

RecvClose(c) ==
  /\ Receiving(c, "close")
  /\ FinishLoop(c, net, IF recv[c].frame.code \in {"normal", "target_closed"}
                        THEN "nil" ELSE "terminal_close")
  /\ UNCHANGED <<proxy, act, reconnect, stdin, stdout, stdoutOverlap>>

-----------------------------------------------------------------------------
\* The steps of c's receiveLoop.
RecvStep(c) ==
  \/ RecvFrame(c) \/ RecvError(c) \/ RecvDuplicate(c) \/ RecvMisplaced(c)
  \/ BeginStdoutWrite(c) \/ FinishStdoutWrite(c) \/ StdoutWriteFails(c)
  \/ RecvAck(c) \/ RecvFin(c) \/ RecvMisplacedFin(c) \/ RecvClose(c)

\* The steps of an activation once its hello is out.
ActivationStep ==
  \/ TakeSnapshot \/ SendReplay \/ SendReplayFails
  \/ \E c \in Conns : HelloFails(c) \/ CommitActivation(c) \/ RefuseCommit(c)

StdinStep ==
  \/ StdinWait \/ StdinRead \/ StdinSend \/ StdinEOF \/ StdinError
  \/ StdinFinTake \/ StdinFinSend \/ StdinStops

ReconnectStep ==
  \/ CheckDown \/ DialFails \/ DeadlineReset \/ ResumeTimeout
  \/ \E c \in Conns : Connect("reconnect", c) \/ HelloDeadline(c)

ClientNext ==
  \/ ActivationStep \/ StdinStep \/ ReconnectStep \/ Cancel \/ Exit
  \/ \E c \in Conns : \/ RecvStep(c) \/ HeartbeatDrop(c)
                      \/ Connect("proxy", c) \/ Connect("switch", c)

ClientTypeOK ==
  /\ net \in NetType
  /\ rt \in RtType
  /\ proxy \in {"starting", "running", "exited"}
  /\ act \in ActType
  /\ reconnect \in {"wait", "down", "attempt", "expired", "done"}
  /\ stdin \in StdinType
  /\ recv \in [Conns -> RecvType]
  /\ stdout \in StdoutType
  /\ stdoutOverlap \in BOOLEAN
=============================================================================
