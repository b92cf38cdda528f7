---------------------------- MODULE SessionTable ----------------------------
(***************************************************************************)
(* The sessions of a server, and who reaches which: the table that hello   *)
(* looks sessions up in, the handlers of several connections, and          *)
(* closeTerminal, which marks a session closed, hangs up and takes it from *)
(* the table in three steps.  Clients come, lose their connection at any   *)
(* moment (also before they learn the id of the session that was opened    *)
(* for them), come back with the id they know or without one, and give up. *)
(* The server may be restarted.  What a session carries is ServerSession's. *)
(***************************************************************************)
CONSTANTS
  Callers,  \* clients
  Links,    \* connections; each is used once
  Ids,      \* session ids
  NoCaller, NoLink, NoId

ASSUME NobodyAssumption == NoCaller \notin Callers /\ NoLink \notin Links /\ NoId \notin Ids

VARIABLES
  table,     \* wsServer.sessions
  sessions,  \* the sessions that were ever created
  served,    \* served[l]: wsServer.handle of connection l
  callers    \* callers[k]: what client k knows

tableVars == <<table, sessions, served, callers>>

\* "closed": by closeTerminal, which keeps `active' to hang up on it; "hung":
\* it has; "gone": it has returned, or the server has.  owner: the client
\* whose hello opened the session.
SessionType == [state  : {"none", "live", "closed", "hung", "gone"},
                active : Links \cup {NoLink},
                ttl    : {"off", "armed", "fired"},
                owner  : Callers \cup {NoCaller}]

\* wants: the session id of the hello; old: the connection that resume replaces.
ServedType == [pc     : {"unused", "hello", "dialled", "resume", "accept", "run", "done"},
               caller : Callers \cup {NoCaller},
               wants  : Ids \cup {NoId},
               id     : Ids \cup {NoId},
               old    : Links \cup {NoLink},
               open   : BOOLEAN]

CallerType == [pc : {"out", "hello", "in", "ended"}, link : Links \cup {NoLink}, id : Ids \cup {NoId}]

TableInit ==
  /\ table = {}
  /\ sessions = [i \in Ids |-> [state |-> "none", active |-> NoLink, ttl |-> "off", owner |-> NoCaller]]
  /\ served = [l \in Links |-> [pc |-> "unused", caller |-> NoCaller, wants |-> NoId, id |-> NoId,
                                old |-> NoLink, open |-> FALSE]]
  /\ callers = [k \in Callers |-> [pc |-> "out", link |-> NoLink, id |-> NoId]]

-----------------------------------------------------------------------------
(* Clients. *)

\* The hello of startSession: with the id that the client has, if any.
SayHello(k, l) ==
  /\ callers[k].pc = "out" /\ served[l].pc = "unused"
  /\ callers' = [callers EXCEPT ![k].pc = "hello", ![k].link = l]
  /\ served' = [served EXCEPT ![l] = [@ EXCEPT !.pc = "hello", !.caller = k,
                                               !.wants = callers[k].id, !.open = TRUE]]
  /\ UNCHANGED <<table, sessions>>

\* commitActivation keeps the id.
AcceptReceived(k) ==
  /\ callers[k].pc = "hello"
  /\ LET s == served[callers[k].link]
     IN  /\ s.pc = "run" /\ s.open
         /\ callers' = [callers EXCEPT ![k].pc = "in", ![k].id = s.id]
  /\ UNCHANGED <<table, sessions, served>>

\* The connection is lost or closed, by either side or in between.
LinkLost(k) ==
  /\ callers[k].link # NoLink
  /\ served' = [served EXCEPT ![callers[k].link].open = FALSE]
  /\ callers' = [callers EXCEPT ![k].pc = "out", ![k].link = NoLink]
  /\ UNCHANGED <<table, sessions>>

CallerEnds(k) ==
  /\ callers[k].pc = "out"
  /\ callers' = [callers EXCEPT ![k].pc = "ended"]
  /\ UNCHANGED <<table, sessions, served>>

-----------------------------------------------------------------------------
(* wsServer.handle and accept. *)

\* An error frame, if any, and the handler returns: the connection is closed.
HandlerReturns(l) == [served EXCEPT ![l] = [@ EXCEPT !.pc = "done", !.open = FALSE]]

\* The connection breaks before the hello comes, or the hello is malformed.
HelloRefused(l) ==
  /\ served[l].pc = "hello"
  /\ served' = HandlerReturns(l)
  /\ UNCHANGED <<table, sessions, callers>>

\* net.Dial and newSessionID have succeeded.
TargetDialled(l) ==
  /\ served[l].pc = "hello" /\ served[l].wants = NoId
  /\ served' = [served EXCEPT ![l].pc = "dialled"]
  /\ UNCHANGED <<table, sessions, callers>>

\* Mutant of FreshIds: an id that is not in use will do.
UnlistedIds == Ids \ table
\* newSessionID: 256 random bits are never drawn twice.
FreshIds == {i \in Ids : sessions[i].state = "none"}

\* The session is listed and its reader started, whoever is still there.
OpenSession(l) ==
  /\ served[l].pc = "dialled"
  /\ \E i \in FreshIds :
       /\ sessions' = [sessions EXCEPT ![i] = [state |-> "live", active |-> l, ttl |-> "off",
                                               owner |-> served[l].caller]]
       /\ table' = table \cup {i}
       /\ served' = [served EXCEPT ![l] = [@ EXCEPT !.pc = "accept", !.id = i]]
  /\ UNCHANGED callers

\* closeTerminal's first part.
CloseSession(i) ==
  IF sessions[i].state = "live"
  THEN sessions' = [sessions EXCEPT ![i].state = "closed", ![i].ttl = "off"]
  ELSE UNCHANGED sessions

\* disconnect starts the timer.
DisconnectSession(i, l) ==
  IF sessions[i].state = "live" /\ sessions[i].active = l
  THEN sessions' = [sessions EXCEPT ![i].active = NoLink, ![i].ttl = "armed"]
  ELSE UNCHANGED sessions

\* The table is read under its own mutex; the session it yields may be closed
\* before resume locks it.
Lookup(l) ==
  /\ served[l].pc = "hello" /\ served[l].wants # NoId
  /\ served' = IF served[l].wants \in table
               THEN [served EXCEPT ![l] = [@ EXCEPT !.pc = "resume", !.id = served[l].wants]]
               ELSE HandlerReturns(l)
  /\ UNCHANGED <<table, sessions, callers>>

\* Mutant of MayResume: the table is believed.
ListedMayResume(s) == TRUE
MayResume(s) == s.state = "live"

\* Its timer, if it has fired, cannot be stopped any more.
ResumeSession(l) ==
  /\ served[l].pc = "resume"
  /\ LET s == sessions[served[l].id]
     IN  /\ MayResume(s)
         /\ sessions' = [sessions EXCEPT ![served[l].id] =
                           [s EXCEPT !.active = l, !.ttl = IF s.ttl = "armed" THEN "off" ELSE @]]
         /\ served' = [served EXCEPT ![l] = [@ EXCEPT !.pc = "accept", !.old = s.active]]
  /\ UNCHANGED <<table, callers>>

\* The session is closed, or its offsets do not fit.
ResumeFails(l) ==
  /\ served[l].pc = "resume"
  /\ served' = HandlerReturns(l)
  /\ UNCHANGED <<table, sessions, callers>>

\* Its time is over and the timer late: the handler closes it.
ResumeTooLate(l) ==
  /\ served[l].pc = "resume"
  /\ LET s == sessions[served[l].id] IN s.active = NoLink /\ s.ttl # "off"
  /\ CloseSession(served[l].id)
  /\ served' = HandlerReturns(l)
  /\ UNCHANGED <<table, callers>>

\* What resume does between its unlock and accept.
OldClosed(l) ==
  IF served[l].old = NoLink THEN served ELSE [served EXCEPT ![served[l].old].open = FALSE]

\* A send may succeed although nobody is there.
AcceptSent(l) ==
  /\ served[l].pc = "accept"
  /\ served' = [OldClosed(l) EXCEPT ![l].pc = "run"]
  /\ UNCHANGED <<table, sessions, callers>>

\* Mutant of AcceptFails: the error is returned and that is all.
AcceptFailsOnly(l) == UNCHANGED sessions
\* A new session ends when its accept cannot be sent; one that was resumed is
\* disconnected.
AcceptFails(l) ==
  IF served[l].wants = NoId THEN CloseSession(served[l].id) ELSE DisconnectSession(served[l].id, l)

AcceptNotSent(l) ==
  /\ served[l].pc = "accept" /\ ~served[l].open
  /\ AcceptFails(l)
  /\ served' = [OldClosed(l) EXCEPT ![l] = HandlerReturns(l)[l]]
  /\ UNCHANGED <<table, callers>>

\* run ends with its connection.
RunEnds(l) ==
  /\ served[l].pc = "run" /\ ~served[l].open
  /\ DisconnectSession(served[l].id, l)
  /\ served' = HandlerReturns(l)
  /\ UNCHANGED <<table, callers>>

-----------------------------------------------------------------------------
(* How sessions end. *)

TimeToLiveEnds(i) ==
  /\ sessions[i].ttl = "armed"
  /\ sessions' = [sessions EXCEPT ![i].ttl = "fired"]
  /\ UNCHANGED <<table, served, callers>>

\* The timer's callback gets the mutex, also after a resume.
TimerCloses(i) ==
  /\ sessions[i].ttl = "fired"
  /\ CloseSession(i)
  /\ UNCHANGED <<table, served, callers>>

\* closeTerminal of a live session, up to its unlock.
Closes(i) ==
  /\ sessions[i].state = "live"
  /\ CloseSession(i)
  /\ UNCHANGED <<table, served, callers>>

\* readTarget finds that the target has closed.
TargetEnds(i) == Closes(i)

\* handleClientData cannot write to the target.  The handler may have been
\* superseded since it checked that its connection is active, here and below.
TargetWriteFails(l) == served[l].pc = "run" /\ Closes(served[l].id)

\* run reads a close.
ClientCloses(l) == served[l].pc = "run" /\ Closes(served[l].id)

\* The rest of closeTerminal: close the connection and the target...
HangUp(i) ==
  /\ sessions[i].state = "closed"
  /\ served' = IF sessions[i].active = NoLink THEN served
               ELSE [served EXCEPT ![sessions[i].active].open = FALSE]
  /\ sessions' = [sessions EXCEPT ![i].state = "hung", ![i].active = NoLink]
  /\ UNCHANGED <<table, callers>>

\* ...and forget the session.
Forget(i) ==
  /\ sessions[i].state = "hung"
  /\ table' = table \ {i}
  /\ sessions' = [sessions EXCEPT ![i].state = "gone"]
  /\ UNCHANGED <<served, callers>>

\* The process dies and comes back: sessions are kept in memory only.
Restart ==
  /\ table' = {}
  /\ sessions' = [i \in Ids |-> IF sessions[i].state = "none" THEN sessions[i]
                                ELSE [sessions[i] EXCEPT !.state = "gone", !.active = NoLink, !.ttl = "off"]]
  /\ served' = [l \in Links |-> IF served[l].pc = "unused" THEN served[l] ELSE HandlerReturns(l)[l]]
  /\ UNCHANGED callers

-----------------------------------------------------------------------------
HandlerStep(l) ==
  \/ HelloRefused(l) \/ TargetDialled(l) \/ OpenSession(l) \/ Lookup(l)
  \/ ResumeSession(l) \/ ResumeFails(l) \/ ResumeTooLate(l)
  \/ AcceptSent(l) \/ AcceptNotSent(l) \/ RunEnds(l)
SessionStep(i) == TimerCloses(i) \/ HangUp(i) \/ Forget(i)

TableNext ==
  \/ \E k \in Callers : AcceptReceived(k) \/ LinkLost(k) \/ CallerEnds(k)
  \/ \E k \in Callers, l \in Links : SayHello(k, l)
  \/ \E l \in Links : HandlerStep(l) \/ TargetWriteFails(l) \/ ClientCloses(l)
  \/ \E i \in Ids : SessionStep(i) \/ TimeToLiveEnds(i) \/ TargetEnds(i)
  \/ Restart

TableSpec == TableInit /\ [][TableNext]_tableVars

Answered(k) == callers[k].pc = "hello" /\ (AcceptReceived(k) \/ LinkLost(k))

-----------------------------------------------------------------------------
TableTypeOK ==
  /\ table \subseteq Ids
  /\ sessions \in [Ids -> SessionType]
  /\ served \in [Links -> ServedType]
  /\ callers \in [Callers -> CallerType]

\* Whoever comes back with an id reaches the session that was opened for it or
\* none: ids do not come back, not with a session that has ended nor with a
\* server that was restarted.
OwnSessionOnly ==
  \A k \in Callers : callers[k].id # NoId => sessions[callers[k].id].owner = k

\* A live session can be found, one that has ended serves nobody: a hello that
\* found a session in the table just before it was closed does not end up on
\* a connection that nobody will hang up.
EndedServesNobody ==
  \A i \in Ids :
    /\ sessions[i].state = "live" => i \in table
    /\ sessions[i].state \in {"hung", "gone"} => sessions[i].active = NoLink

Attended(i) == \E k \in Callers : callers[k].pc = "in" /\ sessions[i].active = callers[k].link

\* Nobody has to come back: a session whose client is not there, because it
\* never learnt of the session or has given up, ends and leaves the table,
\* unless the client returns.
OrphansEnd ==
  \A i \in Ids :
    (i \in table /\ ~Attended(i)) ~> (i \notin table \/ Attended(i))
=============================================================================
