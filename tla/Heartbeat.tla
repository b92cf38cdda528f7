----------------------------- MODULE Heartbeat -----------------------------
(***************************************************************************)
(* The heartbeat of one client connection: activeHeartbeat, which switchLoop *)
(* calls once a cycle, and the heartbeatTracker it shares with receiveLoop, *)
(* which brings the pongs, and with whoever closes the connection.  The    *)
(* result comes through a channel of one slot of the ping's own; the       *)
(* tracker sends on it with its mutex held, so that a second result would  *)
(* block everyone, and a caller that no result reaches would never return. *)
(***************************************************************************)
EXTENDS Naturals, Sequences

CONSTANTS
  Nonces,  \* the nonces of the pings that are sent on this connection
  NoNonce

ASSUME NoNonceAssumption == NoNonce \notin Nonces

VARIABLES
  tracker,  \* tracker.pending (its nonce) and tracker.closed
  slot,     \* slot[n]: the channel `done' of ping n
  pings,    \* the nonces used so far
  pongs,    \* the pongs that the peer has sent
  beat,     \* activeHeartbeat
  current   \* rt.active is this connection

heartbeatVars == <<tracker, slot, pings, pongs, beat, current>>

ResultType == {"rtt", "timed out", "closed"}
BeatType == [pc    : {"idle", "checked", "begun", "select", "late", "drain"},
             nonce : Nonces \cup {NoNonce},
             out   : ResultType \cup {"none", "error"}]

HeartbeatInit ==
  /\ tracker = [pending |-> NoNonce, closed |-> FALSE]
  /\ slot = [n \in Nonces |-> <<>>]
  /\ pings = {} /\ pongs = {}
  /\ beat = [pc |-> "idle", nonce |-> NoNonce, out |-> "none"]
  /\ current = TRUE

-----------------------------------------------------------------------------
(* heartbeatTracker: each operation holds its mutex throughout.  A send on *)
(* a full channel waits: the operation is not enabled.                     *)

\* Mutant of Resolve: the ping stays pending.
ResolveKeepsPending(n, result) ==
  /\ slot[n] = <<>>
  /\ slot' = [slot EXCEPT ![n] = <<result>>]
  /\ UNCHANGED tracker
\* The pending ping n gets its result.
Resolve(n, result) ==
  /\ slot[n] = <<>>
  /\ slot' = [slot EXCEPT ![n] = <<result>>]
  /\ tracker' = [tracker EXCEPT !.pending = NoNonce]

\* Mutant of PongMatches: any pong will do.
AnyPongMatches(n) == tracker.pending # NoNonce
PongMatches(n) == tracker.pending = n

\* resolvePong, called by receiveLoop.
PongReceived(n) ==
  /\ n \in pongs
  /\ IF PongMatches(n) THEN Resolve(tracker.pending, "rtt") ELSE UNCHANGED <<tracker, slot>>
  /\ UNCHANGED <<pings, pongs, beat, current>>

\* tracker.close: a pending ping is told.
CloseTracker ==
  IF tracker.closed THEN UNCHANGED <<tracker, slot>>
  ELSE /\ tracker' = [pending |-> NoNonce, closed |-> TRUE]
       /\ IF tracker.pending = NoNonce THEN UNCHANGED slot
          ELSE slot' = [slot EXCEPT ![tracker.pending] = Append(@, "closed")]

\* dropActive, finish or a newer activation: the connection is not active any
\* more...
Replaced ==
  /\ current
  /\ current' = FALSE
  /\ UNCHANGED <<tracker, slot, pings, pongs, beat>>

\* ...and then closed.
CloseConnection ==
  /\ ~current
  /\ CloseTracker
  /\ UNCHANGED <<pings, pongs, beat, current>>

\* The peer answers, once or more often, in any order.
SendPong(n) ==
  /\ n \in pings
  /\ pongs' = pongs \cup {n}
  /\ UNCHANGED <<tracker, slot, pings, beat, current>>

-----------------------------------------------------------------------------
(* activeHeartbeat. *)

BeatReturns(out) == beat' = [beat EXCEPT !.pc = "idle", !.out = out]

\* isActive
BeatChecks ==
  /\ beat.pc = "idle"
  /\ beat' = IF current THEN [pc |-> "checked", nonce |-> NoNonce, out |-> "none"]
             ELSE [beat EXCEPT !.out = "closed"]
  /\ UNCHANGED <<tracker, slot, pings, pongs, current>>

\* begin finds the tracker closed, or the ping of an earlier heartbeat.
BeginRefused ==
  /\ beat.pc = "checked"
  /\ tracker.closed \/ tracker.pending # NoNonce
  /\ BeatReturns(IF tracker.closed THEN "closed" ELSE "error")
  /\ UNCHANGED <<tracker, slot, pings, pongs, current>>

BeginPing(n) ==
  /\ beat.pc = "checked"
  /\ n \in Nonces \ pings
  /\ ~tracker.closed /\ tracker.pending = NoNonce
  /\ tracker' = [tracker EXCEPT !.pending = n]
  /\ beat' = [beat EXCEPT !.pc = "begun", !.nonce = n]
  /\ pings' = pings \cup {n}
  /\ UNCHANGED <<slot, pongs, current>>

PingSent ==
  /\ beat.pc = "begun"
  /\ beat' = [beat EXCEPT !.pc = "select"]
  /\ UNCHANGED <<tracker, slot, pings, pongs, current>>

\* Mutant of PingFails: the connection is left open.
PingFailsOpen ==
  /\ beat.pc = "begun"
  /\ BeatReturns("closed")
  /\ UNCHANGED <<tracker, slot, pings, pongs, current>>
\* dropActive closes the connection, and with it the tracker.
PingFails ==
  /\ beat.pc = "begun"
  /\ BeatReturns("closed")
  /\ current' = FALSE
  /\ CloseTracker
  /\ UNCHANGED <<pings, pongs>>

BeatReceives ==
  /\ beat.pc \in {"select", "drain"} /\ slot[beat.nonce] # <<>>
  /\ BeatReturns(Head(slot[beat.nonce]))
  /\ slot' = [slot EXCEPT ![beat.nonce] = Tail(@)]
  /\ UNCHANGED <<tracker, pings, pongs, current>>

\* The timer, or the end of the context, also when a result is there already.
BeatTimer ==
  /\ beat.pc = "select"
  /\ beat' = [beat EXCEPT !.pc = "late"]
  /\ UNCHANGED <<tracker, slot, pings, pongs, current>>

\* tracker.timeout: nobody has resolved the ping, or someone has just done so.
BeatTimesOut ==
  /\ beat.pc = "late"
  /\ IF tracker.pending = beat.nonce
     THEN Resolve(beat.nonce, "timed out") /\ BeatReturns("timed out")
     ELSE beat' = [beat EXCEPT !.pc = "drain"] /\ UNCHANGED <<tracker, slot>>
  /\ UNCHANGED <<pings, pongs, current>>

BeatStep ==
  \/ BeatChecks \/ BeginRefused \/ (\E n \in Nonces : BeginPing(n))
  \/ PingSent \/ PingFails \/ BeatReceives \/ BeatTimer \/ BeatTimesOut

HeartbeatNext ==
  \/ BeatStep \/ Replaced \/ CloseConnection
  \/ \E n \in Nonces : PongReceived(n) \/ SendPong(n)

HeartbeatSpec == HeartbeatInit /\ [][HeartbeatNext]_heartbeatVars

-----------------------------------------------------------------------------
HeartbeatTypeOK ==
  /\ tracker \in [pending : Nonces \cup {NoNonce}, closed : BOOLEAN]
  /\ slot \in [Nonces -> Seq(ResultType)]
  /\ pings \subseteq Nonces /\ pongs \subseteq pings
  /\ beat \in BeatType
  /\ current \in BOOLEAN

\* Whatever pong, timer, close and send do to each other, a heartbeat that is
\* under way has its ping pending or exactly one result waiting for it, so it
\* returns; once it has returned nothing is pending, so the next one can begin.
PingResolvedOnce ==
  /\ beat.pc \in {"begun", "select", "late", "drain"} =>
       IF tracker.pending = beat.nonce THEN slot[beat.nonce] = <<>> /\ beat.pc # "drain"
       ELSE tracker.pending = NoNonce /\ Len(slot[beat.nonce]) = 1
  /\ beat.pc \in {"idle", "checked"} => tracker.pending = NoNonce

\* A heartbeat succeeds on the pong of its own ping only, and no pong, however
\* late, makes up for a heartbeat that has timed out.
OwnPongOnly == beat.out = "rtt" => beat.nonce \in pongs
=============================================================================
