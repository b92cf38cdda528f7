----------------------------- MODULE Components -----------------------------
(***************************************************************************)
(* The components around the tunnel, each by itself: a behaviour is one of *)
(* the component that `part' names, while the others rest in an initial    *)
(* state.  One run checks them all.                                        *)
(***************************************************************************)
EXTENDS Probing, Upkeep, Heartbeat, Dial, PathCache, SessionTable, Config, Framing

VARIABLE part

Parts == {"probing", "upkeep", "heartbeat", "dial", "cache", "table", "config", "framing"}

allVars == <<part, vars, upkeepVars, heartbeatVars, dialVars, cacheVars, tableVars, configVars, frameVars>>

\* A component that rests does so in one state.
Resting(p, condition) == part # p => condition

ComponentsInit ==
  /\ part \in Parts
  /\ Init /\ Resting("probing", call.kind = "cold" /\ call.probed = {})
  /\ UpkeepInit /\ Resting("upkeep", link.path = AnyRoute)
  /\ HeartbeatInit
  /\ DialInit /\ Resting("dial", wss)
  /\ CacheInit /\ Resting("cache", cache = "absent" /\ enabled = [p \in Proxies |-> Names])
  /\ TableInit
  /\ ConfigInit
  /\ FramingInit /\ Resting("framing", outgoing.header = MaxHeaderBytes /\ outgoing.payload = 0 /\ outgoing.type = "")

\* A step of the component that runs.
ProbingRuns(step) ==
  /\ part = "probing" /\ step
  /\ UNCHANGED <<part, upkeepVars, heartbeatVars, dialVars, cacheVars, tableVars, configVars, frameVars>>
UpkeepRuns(step) ==
  /\ part = "upkeep" /\ step
  /\ UNCHANGED <<part, vars, heartbeatVars, dialVars, cacheVars, tableVars, configVars, frameVars>>
HeartbeatRuns(step) ==
  /\ part = "heartbeat" /\ step
  /\ UNCHANGED <<part, vars, upkeepVars, dialVars, cacheVars, tableVars, configVars, frameVars>>
DialRuns(step) ==
  /\ part = "dial" /\ step
  /\ UNCHANGED <<part, vars, upkeepVars, heartbeatVars, cacheVars, tableVars, configVars, frameVars>>
CacheRuns(step) ==
  /\ part = "cache" /\ step
  /\ UNCHANGED <<part, vars, upkeepVars, heartbeatVars, dialVars, tableVars, configVars, frameVars>>
TableRuns(step) ==
  /\ part = "table" /\ step
  /\ UNCHANGED <<part, vars, upkeepVars, heartbeatVars, dialVars, cacheVars, configVars, frameVars>>
ConfigRuns(step) ==
  /\ part = "config" /\ step
  /\ UNCHANGED <<part, vars, upkeepVars, heartbeatVars, dialVars, cacheVars, tableVars, frameVars>>
FramingRuns(step) ==
  /\ part = "framing" /\ step
  /\ UNCHANGED <<part, vars, upkeepVars, heartbeatVars, dialVars, cacheVars, tableVars, configVars>>

ComponentsNext ==
  \/ ProbingRuns(Next)
  \/ UpkeepRuns(UpkeepNext)
  \/ HeartbeatRuns(HeartbeatNext)
  \/ DialRuns(DialNext)
  \/ CacheRuns(CacheNext)
  \/ TableRuns(TableNext)
  \/ ConfigRuns(ConfigNext)
  \/ FramingRuns(FramingNext)

ComponentsSpec == ComponentsInit /\ [][ComponentsNext]_allVars

ComponentsTypeOK ==
  /\ part \in Parts
  /\ TypeOK /\ UpkeepTypeOK /\ HeartbeatTypeOK /\ DialTypeOK
  /\ CacheTypeOK /\ TableTypeOK /\ ConfigTypeOK /\ FramingTypeOK

-----------------------------------------------------------------------------
(* Liveness, each under the fairness of its component: goroutines run,     *)
(* timers fire, and what has a deadline or a context ends with it.         *)

On(p, step) == part = p /\ step

\* Nothing is assumed of the caller: an activation may wait for its accept for
\* ever.
CallFairness ==
  /\ \A p \in Paths : WF_vars(On("probing", WorkerStep(p))) /\ WF_vars(On("probing", AfterStep(p)))
  /\ WF_vars(On("probing", BatchStep)) /\ WF_vars(On("probing", DrainStep))

\* An attempt of reconnectLoop ends by its deadline; nothing ends the hello of
\* a switch but its connection.
LoopsFairness ==
  /\ WF_upkeepVars(On("upkeep", SignalReconnect)) /\ WF_upkeepVars(On("upkeep", UpkeepTick))
  /\ WF_upkeepVars(On("upkeep", CycleStep)) /\ WF_upkeepVars(On("upkeep", LoopStep))
  /\ WF_upkeepVars(On("upkeep", AttemptExpires))

DialFairness ==
  /\ WF_dialVars(On("dial", OpenerStep)) /\ WF_dialVars(On("dial", LookupEnds))
  /\ WF_dialVars(On("dial", DialsReturn)) /\ WF_dialVars(On("dial", ClosedUpgradeEnds))

\* Some handler goes on as long as one can, so do closers and timers, and a
\* client that waits for its accept gets it or loses the connection.
TableFairness ==
  /\ WF_tableVars(On("table", \E l \in Links : HandlerStep(l)))
  /\ WF_tableVars(On("table", \E i \in Ids : SessionStep(i) \/ TimeToLiveEnds(i)))
  /\ WF_tableVars(On("table", \E k \in Callers : Answered(k)))

\* What a call of connectAny or of runSwitchCycle leaves running comes to an
\* end: no probe, no drain and no callback outlives it for ever.
CallsSettle == part = "probing" /\ CallFairness => Settles

\* A lost connection comes back or the client ends, as long as hellos of
\* switches end.
OutagesEnd == part = "upkeep" /\ LoopsFairness => AnsweredOutageEnds

\* A connection that does not answer any more is given up, whether or not there
\* is another path: switchLoop's ticker goes on.
FailuresActedOn ==
  part = "upkeep" /\ LoopsFairness /\ WF_upkeepVars(On("upkeep", StartCycle)) => FailureActedOn

\* openWebSocketWith returns once its context has ended, also from an upgrade
\* that knows no context.
OpensEnd == part = "dial" /\ DialFairness => DialEnds

\* A session whose client does not come back leaves the server's table.
OrphanedSessionsEnd == part = "table" /\ TableFairness => OrphansEnd
=============================================================================
