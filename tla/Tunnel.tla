------------------------------- MODULE Tunnel -------------------------------
(***************************************************************************)
(* A client runtime and its server session, joined by the connections of   *)
(* Wire: the whole life of one tunnelled SSH byte stream.                  *)
(***************************************************************************)
EXTENDS ClientRuntime, ServerSession

vars == <<net, clientVars, serverVars>>

Init == NetInit /\ ClientInit /\ ServerInit

ClientStep == ClientNext /\ UNCHANGED serverVars
ServerStep == ServerNext /\ UNCHANGED clientVars
PathBreaks == (\E c \in Conns : Break(c)) /\ UNCHANGED <<clientVars, serverVars>>

\* The client process has ended and the server has let the session go.
Terminated ==
  /\ proxy = "exited" /\ sess.state # "live"
  /\ reader.pc \in {"off", "done"} /\ ~sess.callback
  /\ \A c \in Conns : handler[c].pc = "done" \/ net.serverEnd[c] = "none"
  /\ UNCHANGED vars

Next == ClientStep \/ ServerStep \/ PathBreaks \/ Terminated

Spec == Init /\ [][Next]_vars

\* The goroutines that have something to do get to do it, and timers that are
\* set fire.  Nothing is assumed of the environment: nobody has to type, the
\* target may stay silent, and no path has to break, come back or be better.
HandlerRuns(c) == HandlerStep(c) /\ UNCHANGED clientVars
ReaderRuns == (SendTargetData \/ SendTargetFin \/ ReaderStops) /\ UNCHANGED clientVars
RecvRuns(c) == RecvStep(c) /\ UNCHANGED serverVars
ActivationRuns == ActivationStep /\ UNCHANGED serverVars
StdinRuns ==
  (StdinWait \/ StdinSend \/ StdinFinTake \/ StdinFinSend \/ StdinStops) /\ UNCHANGED serverVars
\* reconnectLoop's own steps; its deadline passes in the end whatever happens.
ReconnectRuns ==
  (CheckDown \/ DeadlineReset \/ \E c \in Conns : HelloDeadline(c)) /\ UNCHANGED serverVars
DeadlinePasses == ResumeTimeout /\ UNCHANGED serverVars

Fairness ==
  /\ \A c \in Conns : WF_vars(HandlerRuns(c)) /\ WF_vars(RecvRuns(c))
  /\ WF_vars(ReaderRuns)
  /\ WF_vars(TimerFires /\ UNCHANGED clientVars)
  /\ WF_vars(TimerCallback /\ UNCHANGED clientVars)
  /\ WF_vars(ActivationRuns) /\ WF_vars(StdinRuns) /\ WF_vars(ReconnectRuns)
  /\ SF_vars(DeadlinePasses)
  /\ WF_vars(Exit /\ UNCHANGED serverVars)

FairSpec == Spec /\ Fairness

TypeOK == ClientTypeOK /\ ServerTypeOK

-----------------------------------------------------------------------------
(* The streams. *)

\* The client's replay buffer is exactly what it has read from stdin and the
\* server has not acknowledged, in place: a reconnect can always resend from
\* the server's offset, and appendClientBytes, advanceC2SAckLocked and commit
\* never disagree about what the buffer starts with.
ClientReplayWindow ==
  /\ rt.c2sBufFrom = rt.c2sAck
  /\ rt.c2sAck + Len(rt.c2sBuf) = rt.c2sNext
  /\ Slice(rt.c2sBuf, rt.c2sAck)

\* The same of the server's buffer of target bytes.
ServerReplayWindow ==
  /\ sess.s2cBufFrom = sess.s2cAck
  /\ sess.s2cAck + Len(sess.s2cBuf) = sess.s2cNext
  /\ Slice(sess.s2cBuf, sess.s2cAck)

\* What the client no longer keeps for replay has been written to the target:
\* no interleaving of old and new connections, replays and late acks makes a
\* receive offset run ahead of the bytes it stands for.
AckedBytesReachedTarget == rt.c2sAck <= Len(target.in)
AckedBytesReachedStdout == sess.s2cAck <= Len(stdout.data)

\* Unless two handlers wrote to the target at once (targetOverlap), the target
\* has received a prefix of stdin: nothing lost, repeated or out of order,
\* over any number of reconnects, and c2sRx counts it.
TargetIsPrefix ==
  ~targetOverlap =>
    /\ Slice(target.in, 0)
    /\ Len(target.in) = sess.c2sRx
    /\ Len(target.in) <= rt.c2sNext

StdoutIsPrefix ==
  ~stdoutOverlap =>
    /\ Slice(stdout.data, 0)
    /\ Len(stdout.data) = rt.s2cRx
    /\ Len(stdout.data) <= sess.s2cNext

\* The replay buffers are bounded: a reader that found room adds at most one
\* Read, however many connections come and go before the bytes are acknowledged.
BuffersBounded ==
  /\ Len(rt.c2sBuf) < BufferBytes + Chunk
  /\ Len(sess.s2cBuf) < BufferBytes + Chunk

\* The tunnel is two byte streams: each of its steps is a step of the one, of
\* the other or of neither, and each stream keeps its promise over breaks,
\* switches, replays and late frames until two handlers (two receive loops)
\* write at once.
Upward == INSTANCE ByteStream WITH
  taken <- rt.c2sNext, ended <- rt.c2sFin,
  delivered <- target.in, closed <- target.eof, torn <- targetOverlap
Downward == INSTANCE ByteStream WITH
  taken <- sess.s2cNext, ended <- sess.s2cFin,
  delivered <- stdout.data, closed <- stdout.eof, torn <- stdoutOverlap

\* stdin to the target: stdinLoop, replayClientBytes, handleClientData and
\* handleClientFin implement ByteStream.
StdinReachesTarget == Upward!Spec
\* The target to stdout: readTarget, resume's replay, handleServerData and
\* handleServerFin implement it, too.
TargetReachesStdout == Downward!Spec

-----------------------------------------------------------------------------
(* Who owns the session. *)

\* A live session never goes unattended: while a connection is active the
\* handler of that connection is at work (and will see it end), and while none
\* is, the disconnect timer is set or has fired.
SessionAttended ==
  sess.state = "live" =>
    IF sess.active = None
    THEN sess.ttl = "armed" \/ (sess.ttl = "expired" /\ sess.callback)
    ELSE /\ handler[sess.active].pc \in {"reply", "run", "handle", "write"}
         /\ handler[sess.active].epoch = sess.epoch

\* Neither does a client that has not finished: an active connection has its
\* receiveLoop, and with none reconnectLoop has not given up.
ClientAttended ==
  proxy = "running" /\ rt.done = "no" =>
    IF rt.active = None THEN reconnect # "done"
    ELSE /\ recv[rt.active].pc \in {"run", "handle", "write"}
         /\ net.clientEnd[rt.active] = "open"

\* When both ends think a connection active, they agree on the epoch, and no
\* client is ahead of its server.
EpochsAgree ==
  /\ rt.epoch <= sess.epoch
  /\ rt.active # None /\ rt.active = sess.active => rt.epoch = sess.epoch

\* A client only ever activates connections the server accepted later: an
\* activation that was overtaken is never committed.
ActivationsAdvance ==
  [][rt'.active \notin {None, rt.active} => rt'.epoch > rt.epoch]_vars

-----------------------------------------------------------------------------
(* What must happen in the end. *)

\* A client that is gone does not leave its session and target connection
\* behind: closed for good, even if a hello of its was still on the way.
SessionReleased == proxy = "exited" ~> [](sess.state # "live")

\* A client without a connection gets one or ends; it never hangs.
ClientRecovers ==
  proxy = "running" /\ rt.active = None ~> rt.active # None \/ proxy = "exited"

-----------------------------------------------------------------------------
(* What the documentation says and the code does not do (docs/mvp.md).  Each *)
(* is checked by a run of its own, which ends in a counterexample.           *)

\* "reconnecting resumes the SSH byte stream without duplication or
\* reordering" (393-395), of the bytes the target receives.
TargetExactlyOnce == Slice(target.in, 0)

\* "It exits non-zero only after resume.timeout, a terminal close, or a
\* terminal error" (360): a client is not ended by the replay of its own
\* server, be it a gap, a partial duplicate or an acknowledgement it cannot send.
HandoffIsNotFatal ==
  rt.done \notin {"gap", "partial_duplicate", "fin_gap", "ack_send"}

\* "resume.timeout: maximum time a live session may stay disconnected" (88):
\* the timer does not end a session that has a connection.
TimerSparesResumed ==
  [][sess.state = "live" /\ sess'.state = "closed" /\ sess'.code = "resume_timeout"
       => sess.active = None]_vars

\* "It must not overtake missing data" (285): when the client takes the end of
\* the session for a clean one, it has every byte of the target's stream.
CleanEndIsComplete ==
  rt.done = "nil" => Len(stdout.data) >= sess.s2cNext

\* "On reconnect, each side resends unacknowledged bytes" (283): what was read
\* from stdin reaches the target unless the session ends.
StdinDelivered ==
  \A n \in 1..StdinLen :
    rt.c2sNext >= n ~> Len(target.in) >= n \/ rt.done # "no" \/ sess.state = "closed"
=============================================================================
