------------------------------ MODULE Probing ------------------------------
(***************************************************************************)
(* How a client finds a path: one call of connectAny (of Proxy or of       *)
(* reconnectLoop) or of runSwitchCycle, with the goroutines it starts.     *)
(* Workers probe paths, each on a WebSocket of its own that stays open     *)
(* when the probe succeeds, so that the session can be resumed on it; the  *)
(* caller takes over at most one of them, and someone has to close every   *)
(* other.  What a connection carries once it is active is ClientRuntime's. *)
(***************************************************************************)
EXTENDS Naturals, Sequences, FiniteSets

CONSTANTS
  PathSeq,   \* the enabled paths, in the order of the configuration
  Priority,  \* Priority[p]: paths[].priority
  Workers,   \* maxConcurrentProbes
  RTTs,      \* bound: the round-trip times a probe may measure
  None

Paths == {PathSeq[i] : i \in DOMAIN PathSeq}

ASSUME PathSeqAssumption ==
  /\ PathSeq \in Seq(Paths)
  /\ \A i, j \in DOMAIN PathSeq : PathSeq[i] = PathSeq[j] => i = j
ASSUME PriorityAssumption == Priority \in [Paths -> Nat]
ASSUME WorkersAssumption == Workers \in Nat \ {0}
ASSUME RTTsAssumption == RTTs \in SUBSET Nat /\ RTTs # {}
ASSUME NonePathAssumption == None \notin Paths

VARIABLES
  call,      \* what was called, and with which paths; never changes
  ctxDone,   \* the caller's context has ended
  canceled,  \* the context of the batch was canceled
  probe,     \* probe[p]: p's job and its probeCandidate
  sock,      \* the sockets of the probes and of direct dials
  results,   \* the channel of streamProbeCandidates
  batch,     \* the goroutine of startProbeBatch; items is `failed' in a cold start
  main,      \* the caller
  drain,     \* drainProbeCandidates or drainProbeBatch
  active,    \* the path whose connection was activated
  tried      \* history: the paths whose activation was attempted

vars == <<call, ctxDone, canceled, probe, sock, results, batch, main, drain, active, tried>>

\* known is the last known good path in a warm start, the active one in a switch.
CallType == [kind : {"cold", "warm", "switch"}, known : Paths \cup {None}, probed : SUBSET Paths]

\* after is the AfterFunc that closes the socket when the probe's context ends;
\* held says that candidate.open is not nil, ok that candidate.Err is.
ProbeType == [pc    : {"off", "queued", "dial", "ping", "result", "sent"},
              late  : BOOLEAN,
              after : {"off", "armed", "stopped", "fired", "ran"},
              held  : BOOLEAN,
              ok    : BOOLEAN,
              rtt   : RTTs \cup {0}]

SockType == [{"probe", "direct"} -> [Paths -> {"none", "open", "closed"}]]

\* ranked: within activateRankedCandidates; todo: the candidates it has not got to.
MainType == [pc     : {"receive", "heartbeat", "wait", "choose", "next",
                       "dial", "hello", "commit", "returned"},
             path   : Paths \cup {None},
             how    : {"probe", "direct"},
             ranked : BOOLEAN,
             todo   : SUBSET Paths,
             result : {"", "ok", "kept", "error"}]

\* Mutant of PathsExcept: the excluded path is probed, too.
PathsNotExcept(p) == Paths
PathsExcept(p) == Paths \ {p}

MainAt(pc) == [pc |-> pc, path |-> None, how |-> "direct", ranked |-> FALSE,
               todo |-> {}, result |-> ""]

Init ==
  /\ \/ \E s \in SUBSET Paths :
          /\ call = [kind |-> "cold", known |-> None, probed |-> s]
          /\ main = MainAt("receive")
     \/ \E p \in Paths : \E s \in SUBSET PathsExcept(p) :
          /\ call = [kind |-> "warm", known |-> p, probed |-> s]
          /\ main = [MainAt("dial") EXCEPT !.path = p]
     \/ \E p \in Paths : \E s \in SUBSET PathsExcept(p) :
          /\ call = [kind |-> "switch", known |-> p, probed |-> s]
          /\ main = MainAt("heartbeat")
  /\ batch = [pc |-> IF call.kind = "cold" \/ call.probed = {} THEN "none" ELSE "run",
              items |-> {}]
  /\ probe = [p \in Paths |-> [pc |-> IF p \in call.probed THEN "queued" ELSE "off",
                               late |-> FALSE, after |-> "off", held |-> FALSE,
                               ok |-> FALSE, rtt |-> 0]]
  /\ sock = [h \in {"probe", "direct"} |-> [p \in Paths |-> "none"]]
  /\ ctxDone = FALSE /\ canceled = FALSE
  /\ results = <<>> /\ drain = "off" /\ active = None
  /\ tried = IF call.kind = "warm" THEN {call.known} ELSE {}

-----------------------------------------------------------------------------
(* streamProbeCandidates and probePathCandidate. *)

Position(p) == CHOOSE i \in DOMAIN PathSeq : PathSeq[i] = p
Busy == {p \in Paths : probe[p].pc \in {"dial", "ping", "result"}}
AllDelivered == \A p \in call.probed : probe[p].pc = "sent"

\* The context of p's probe: the caller's, the batch's, and its own timeout.
ProbeCtxDone(p) == ctxDone \/ canceled \/ probe[p].late

ProbeOnly == UNCHANGED <<call, ctxDone, canceled, results, batch, main, drain, active, tried>>

\* A free worker takes the next job.
StartProbe(p) ==
  /\ probe[p].pc = "queued"
  /\ Cardinality(Busy) < Workers
  /\ \A q \in Paths : probe[q].pc = "queued" => Position(p) <= Position(q)
  /\ probe' = [probe EXCEPT ![p].pc = "dial"]
  /\ UNCHANGED sock /\ ProbeOnly

ProbeDialFails(p) ==
  /\ probe[p].pc = "dial"
  /\ probe' = [probe EXCEPT ![p].pc = "result"]
  /\ UNCHANGED sock /\ ProbeOnly

\* The socket is open, its AfterFunc set and the ping written.
ProbeDialled(p) ==
  /\ probe[p].pc = "dial"
  /\ probe' = [probe EXCEPT ![p].pc = "ping", ![p].held = TRUE, ![p].after = "armed"]
  /\ sock' = [sock EXCEPT !.probe[p] = "open"]
  /\ ProbeOnly

ProbeTimeout(p) ==
  /\ probe[p].pc \in {"dial", "ping"}
  /\ ~probe[p].late
  /\ probe' = [probe EXCEPT ![p].late = TRUE]
  /\ UNCHANGED sock /\ ProbeOnly

\* The AfterFunc's goroutine starts: stop does not take it back from here on...
AfterFires(p) ==
  /\ probe[p].after = "armed" /\ ProbeCtxDone(p)
  /\ probe' = [probe EXCEPT ![p].after = "fired"]
  /\ UNCHANGED sock /\ ProbeOnly

\* ...and it closes the socket, whoever has it by now.
AfterCloses(p) ==
  /\ probe[p].after = "fired"
  /\ probe' = [probe EXCEPT ![p].after = "ran"]
  /\ sock' = [sock EXCEPT !.probe[p] = "closed"]
  /\ ProbeOnly

\* Mutant of StopClose: its result is ignored.
StopCloseIgnored(p) == TRUE
\* stopClose() returns true: the AfterFunc will not run.
StopClose(p) == probe[p].after = "armed"

Stopped(after) == IF after = "armed" THEN "stopped" ELSE after

ProbeFailed(p) == [probe[p] EXCEPT !.pc = "result", !.held = FALSE, !.after = Stopped(@)]

\* The matching pong is read; the candidate is good if the AfterFunc could be stopped.
PongArrives(p) ==
  /\ probe[p].pc = "ping" /\ sock.probe[p] = "open"
  /\ IF StopClose(p)
     THEN /\ \E rtt \in RTTs :
               probe' = [probe EXCEPT ![p].pc = "result", ![p].after = Stopped(@),
                                      ![p].ok = TRUE, ![p].rtt = rtt]
          /\ UNCHANGED sock
     ELSE /\ probe' = [probe EXCEPT ![p] = ProbeFailed(p)]
          /\ sock' = [sock EXCEPT !.probe[p] = "closed"]
  /\ ProbeOnly

\* The ping or the pong fails, or the deadline passes: candidate.close.
ProbeFails(p) ==
  /\ probe[p].pc = "ping"
  /\ probe' = [probe EXCEPT ![p] = ProbeFailed(p)]
  /\ sock' = [sock EXCEPT !.probe[p] = "closed"]
  /\ ProbeOnly

DeliverResult(p) ==
  /\ probe[p].pc = "result"
  /\ probe' = [probe EXCEPT ![p].pc = "sent"]
  /\ results' = Append(results, p)
  /\ UNCHANGED <<call, ctxDone, canceled, sock, batch, main, drain, active, tried>>

-----------------------------------------------------------------------------
(* Candidates that nobody took are closed. *)

\* Success, round-trip time, priority, order of declaration.
RanksBefore(p, q) ==
  LET a == probe[p]
      b == probe[q]
  IN  IF a.ok # b.ok THEN a.ok
      ELSE IF a.ok /\ a.rtt # b.rtt THEN a.rtt < b.rtt
      ELSE IF Priority[p] # Priority[q] THEN Priority[p] > Priority[q]
      ELSE Position(p) < Position(q)

\* rankProbeCandidates puts p first.
IsFirst(p, S) == \A q \in S \ {p} : RanksBefore(p, q)

\* closeProbeCandidates, on top of a state s of the sockets.
CloseCandidates(s, S) ==
  /\ sock' = [s EXCEPT !.probe =
                [p \in Paths |-> IF p \in S /\ probe[p].held THEN "closed" ELSE @[p]]]
  /\ probe' = [p \in Paths |-> IF p \in S THEN [probe[p] EXCEPT !.held = FALSE] ELSE probe[p]]

\* probeBatch collects what the workers deliver...
BatchReceives ==
  /\ batch.pc = "run" /\ results # <<>>
  /\ batch' = [batch EXCEPT !.items = @ \cup {Head(results)}]
  /\ results' = Tail(results)
  /\ UNCHANGED <<call, ctxDone, canceled, probe, sock, main, drain, active, tried>>

\* Mutant of BatchEnds: an ended context is reported, the sockets stay open.
BatchEndsUnclosed ==
  /\ batch.pc = "run" /\ results = <<>> /\ AllDelivered
  /\ batch' = [batch EXCEPT !.pc = IF ctxDone \/ canceled THEN "err" ELSE "ok"]
  /\ UNCHANGED <<call, ctxDone, canceled, probe, sock, results, main, drain, active, tried>>
\* ...and hands it on, or closes it all if its context has ended.
BatchEnds ==
  /\ batch.pc = "run" /\ results = <<>> /\ AllDelivered
  /\ IF ctxDone \/ canceled
     THEN batch' = [batch EXCEPT !.pc = "err"] /\ CloseCandidates(sock, batch.items)
     ELSE batch' = [batch EXCEPT !.pc = "ok"] /\ UNCHANGED <<probe, sock>>
  /\ UNCHANGED <<call, ctxDone, canceled, results, main, drain, active, tried>>

\* Mutant of DrainResult: the same result is looked at again and again.
DrainResultPeeked ==
  /\ drain = "run" /\ call.kind = "cold" /\ results # <<>>
  /\ CloseCandidates(sock, {Head(results)})
  /\ UNCHANGED <<call, ctxDone, canceled, results, batch, main, drain, active, tried>>
\* drainProbeCandidates, after a cold start that succeeded.
DrainResult ==
  /\ drain = "run" /\ call.kind = "cold" /\ results # <<>>
  /\ CloseCandidates(sock, {Head(results)})
  /\ results' = Tail(results)
  /\ UNCHANGED <<call, ctxDone, canceled, batch, main, drain, active, tried>>

DrainEnds ==
  /\ drain = "run" /\ call.kind = "cold" /\ results = <<>> /\ AllDelivered
  /\ drain' = "done" /\ canceled' = TRUE
  /\ UNCHANGED <<call, ctxDone, probe, sock, results, batch, main, active, tried>>

\* drainProbeBatch, after the last known good path was activated.
DrainBatch ==
  /\ drain = "run" /\ call.kind = "warm" /\ batch.pc \in {"ok", "err"}
  /\ CloseCandidates(sock, batch.items)
  /\ drain' = "done"
  /\ UNCHANGED <<call, ctxDone, canceled, results, batch, main, active, tried>>

-----------------------------------------------------------------------------
(* Activating one path: activateDirect and promoteCandidate. *)

Returned(m, result) == [m EXCEPT !.pc = "returned", !.path = None, !.todo = {}, !.result = result]

\* activateRankedCandidates and runSwitchCycle close what they hold as they
\* return (s: the sockets by then); connectAny's other returns hold nothing.
ReturnClosing(s, result) ==
  /\ CloseCandidates(s, batch.items)
  /\ main' = Returned(main, result)

\* Mutant of Transfer: the candidate keeps the socket it gives away.
TransferCopies(p) ==
  /\ main' = [main EXCEPT !.pc = "hello", !.path = p, !.how = "probe"]
  /\ tried' = tried \cup {p}
  /\ UNCHANGED probe
\* p's candidate gives its socket to startSession.
Transfer(p) ==
  /\ main' = [main EXCEPT !.pc = "hello", !.path = p, !.how = "probe"]
  /\ probe' = [probe EXCEPT ![p].held = FALSE]
  /\ tried' = tried \cup {p}

\* This attempt is over: the next one, in the order of the caller.
AttemptFails(s) ==
  /\ CASE main.ranked -> main' = [main EXCEPT !.pc = "next"] /\ sock' = s /\ UNCHANGED probe
       [] ~main.ranked /\ call.kind = "cold" ->
            main' = [main EXCEPT !.pc = "receive"] /\ sock' = s /\ UNCHANGED probe
       [] ~main.ranked /\ call.kind = "warm" ->
            /\ main' = IF batch.pc = "none" THEN Returned(main, "error")
                       ELSE [main EXCEPT !.pc = "wait"]
            /\ sock' = s /\ UNCHANGED probe
       [] ~main.ranked /\ call.kind = "switch" -> ReturnClosing(s, "error")
  /\ canceled' = (canceled \/ (call.kind = "warm" /\ ~main.ranked /\ batch.pc = "none"))
  /\ UNCHANGED <<call, ctxDone, results, batch, drain, active, tried>>

DialDirect ==
  /\ main.pc = "dial"
  /\ main' = [main EXCEPT !.pc = "hello", !.how = "direct"]
  /\ sock' = [sock EXCEPT !.direct[main.path] = "open"]
  /\ UNCHANGED <<call, ctxDone, canceled, probe, results, batch, drain, active, tried>>

DirectDialFails == main.pc = "dial" /\ AttemptFails(sock)

\* accept came, and the context had not ended.
HelloAccepted ==
  /\ main.pc = "hello"
  /\ ~ctxDone
  /\ sock[main.how][main.path] = "open"
  /\ main' = [main EXCEPT !.pc = "commit"]
  /\ UNCHANGED <<call, ctxDone, canceled, probe, sock, results, batch, drain, active, tried>>

\* startSession or commitActivation fails (or the replay that ends it):
\* whichever does closes the socket.
ActivationFails ==
  /\ main.pc \in {"hello", "commit"}
  /\ AttemptFails([sock EXCEPT ![main.how][main.path] = "closed"])

\* What the caller leaves to whom when its attempt succeeded.
Activated ==
  /\ main.pc = "commit"
  /\ active' = main.path
  /\ canceled' = (canceled \/ (call.kind = "warm" /\ ~main.ranked))
  /\ drain' = IF ~main.ranked /\ (call.kind = "cold" \/ (call.kind = "warm" /\ batch.pc # "none"))
              THEN "run" ELSE drain
  /\ IF main.ranked \/ call.kind = "switch"
     THEN ReturnClosing(sock, "ok")
     ELSE main' = Returned(main, "ok") /\ UNCHANGED <<probe, sock>>
  /\ UNCHANGED <<call, ctxDone, results, batch, tried>>

-----------------------------------------------------------------------------
(* The callers. *)

\* activateFirstAvailable: whoever answers first.
ReceiveCandidate ==
  /\ main.pc = "receive" /\ results # <<>>
  /\ results' = Tail(results)
  /\ LET p == Head(results) IN
       IF probe[p].ok
       THEN Transfer(p) /\ UNCHANGED batch
       ELSE /\ batch' = [batch EXCEPT !.items = @ \cup {p}]
            /\ UNCHANGED <<main, probe, tried>>
  /\ UNCHANGED <<call, ctxDone, canceled, sock, drain, active>>

\* No probe is left: the failed ones are dialled once more.
ReceiveClosed ==
  /\ main.pc = "receive" /\ results = <<>> /\ AllDelivered
  /\ canceled' = TRUE
  /\ main' = IF batch.items = {} THEN Returned(main, "error")
             ELSE [main EXCEPT !.pc = "next", !.ranked = TRUE, !.todo = batch.items]
  /\ UNCHANGED <<call, ctxDone, probe, sock, results, batch, drain, active, tried>>

\* connectAny after the last known good path failed, and runSwitchCycle.
BatchArrives ==
  /\ main.pc = "wait" /\ batch.pc # "run"
  /\ canceled' = TRUE
  /\ main' = CASE batch.pc = "err" -> Returned(main, "error")
               [] batch.pc # "err" /\ call.kind = "warm" ->
                    [main EXCEPT !.pc = "next", !.ranked = TRUE, !.todo = batch.items]
               [] OTHER -> [main EXCEPT !.pc = "choose"]
  /\ UNCHANGED <<call, ctxDone, probe, sock, results, batch, drain, active, tried>>

\* Mutant of NextAttempt: a path whose probe failed is not dialled.
NextGoodAttempt ==
  /\ main.pc = "next"
  /\ \E p \in main.todo :
       LET m == [main EXCEPT !.todo = @ \ {p}]
       IN  /\ IsFirst(p, main.todo)
           /\ main' = IF probe[p].ok THEN [m EXCEPT !.pc = "hello", !.path = p, !.how = "probe"]
                      ELSE m
           /\ probe' = [probe EXCEPT ![p].held = FALSE]
           /\ tried' = IF probe[p].ok THEN tried \cup {p} ELSE tried
  /\ UNCHANGED <<call, ctxDone, canceled, sock, results, batch, drain, active>>

\* activateRankedCandidates: the good candidates are promoted in their order,
\* then the other paths dialled in theirs.
NextAttempt ==
  /\ main.pc = "next"
  /\ \E p \in main.todo :
       LET m == [main EXCEPT !.todo = @ \ {p}, !.path = p]
       IN  /\ IsFirst(p, main.todo)
           /\ main' = IF probe[p].ok THEN [m EXCEPT !.pc = "hello", !.how = "probe"]
                      ELSE [m EXCEPT !.pc = "dial"]
           /\ probe' = [probe EXCEPT ![p].held = FALSE]
           /\ tried' = tried \cup {p}
  /\ UNCHANGED <<call, ctxDone, canceled, sock, results, batch, drain, active>>

NoneLeft ==
  /\ main.pc = "next" /\ main.todo = {}
  /\ ReturnClosing(sock, "error")
  /\ UNCHANGED <<call, ctxDone, canceled, results, batch, drain, active, tried>>

\* runSwitchCycle waits for its heartbeat, then for its probes...
HeartbeatEnds ==
  /\ main.pc = "heartbeat"
  /\ main' = [main EXCEPT !.pc = "wait"]
  /\ UNCHANGED <<call, ctxDone, canceled, probe, sock, results, batch, drain, active, tried>>

\* ...and promotes the candidate that has done best often enough, if...
PromoteBest ==
  /\ main.pc = "choose"
  /\ \E p \in batch.items : probe[p].ok /\ Transfer(p)
  /\ UNCHANGED <<call, ctxDone, canceled, sock, results, batch, drain, active>>

\* ...there is one, it is worth it and the active connection has not changed.
KeepActive ==
  /\ main.pc = "choose"
  /\ ReturnClosing(sock, "kept")
  /\ UNCHANGED <<call, ctxDone, canceled, results, batch, drain, active, tried>>

CtxEnds ==
  /\ ~ctxDone
  /\ ctxDone' = TRUE
  /\ UNCHANGED <<call, canceled, probe, sock, results, batch, main, drain, active, tried>>

-----------------------------------------------------------------------------
WorkerStep(p) ==
  \/ StartProbe(p) \/ ProbeDialFails(p) \/ ProbeDialled(p) \/ ProbeTimeout(p)
  \/ PongArrives(p) \/ ProbeFails(p) \/ DeliverResult(p)
AfterStep(p) == AfterFires(p) \/ AfterCloses(p)
BatchStep == BatchReceives \/ BatchEnds
DrainStep == DrainResult \/ DrainEnds \/ DrainBatch
CallerStep ==
  \/ ReceiveCandidate \/ ReceiveClosed \/ BatchArrives \/ NextAttempt \/ NoneLeft
  \/ HeartbeatEnds \/ PromoteBest \/ KeepActive
  \/ DialDirect \/ DirectDialFails \/ HelloAccepted \/ ActivationFails \/ Activated

\* Everything the call started has ended.
Quiescent ==
  /\ main.pc = "returned" /\ drain # "run" /\ batch.pc # "run" /\ AllDelivered
  /\ \A p \in Paths : probe[p].after # "fired"

Next ==
  \/ CallerStep \/ BatchStep \/ DrainStep \/ CtxEnds
  \/ \E p \in Paths : WorkerStep(p) \/ AfterStep(p)
  \/ Quiescent /\ UNCHANGED vars

Spec == Init /\ [][Next]_vars

-----------------------------------------------------------------------------
TypeOK ==
  /\ call \in CallType /\ call.probed \subseteq Paths \ {call.known}
  /\ ctxDone \in BOOLEAN /\ canceled \in BOOLEAN
  /\ probe \in [Paths -> ProbeType]
  /\ sock \in SockType
  /\ results \in Seq(Paths)
  /\ batch \in [pc : {"none", "run", "ok", "err"}, items : SUBSET Paths]
  /\ main \in MainType
  /\ drain \in {"off", "run", "done"}
  /\ active \in Paths \cup {None}
  /\ tried \subseteq Paths

\* A probe that is passed on as good has left nothing behind that would close
\* its socket: neither its timeout nor the cancellation of its batch, fired
\* before or after the pong, reaches a connection that is being activated or
\* is active.
HandedOverAlive ==
  \A p \in Paths :
    probe[p].ok => /\ probe[p].after = "stopped"
                   /\ probe[p].held => sock.probe[p] = "open"

\* When all is over, every socket is closed but that of the activated path:
\* none is lost between the workers, the channel, the batch, the drains and
\* the caller, whoever of them stops first.
NothingLeaks ==
  Quiescent =>
    \A p \in Paths : "open" \in {sock.probe[p], sock.direct[p]} => active = p

\* The caller reports success exactly when a path was activated, and nothing
\* that runs on or returns after it (a drain, a batch, a deferred
\* closeProbeCandidates, an AfterFunc) closes the activated connection.
OutcomeIsTrue ==
  main.pc = "returned" =>
    /\ main.result = "ok" <=> active # None
    /\ active # None => sock[main.how][active] = "open"

\* connectAny does not give up before every path had its attempt, unless its
\* context has ended.
EveryPathTried ==
  main.pc = "returned" /\ main.result = "error" /\ ~ctxDone /\ call.kind # "switch" =>
    tried = call.probed \cup ({call.known} \ {None})

\* What a call leaves running comes to an end.
Settles == main.pc = "returned" ~> Quiescent
=============================================================================
