--------------------------- MODULE ComponentsProofs ---------------------------
(***************************************************************************)
(* The components in one specification: what was proved of each by itself  *)
(* holds in the behaviours in which the run checks them, and `Components'  *)
(* adds nothing to any of them.                                            *)
(***************************************************************************)
EXTENDS Components, PathProofs, PartsProofs

AllInits ==
  /\ Init /\ UpkeepInit /\ HeartbeatInit /\ DialInit
  /\ CacheInit /\ TableInit /\ ConfigInit /\ FramingInit

AllSteps ==
  /\ [Next]_vars /\ [UpkeepNext]_upkeepVars /\ [HeartbeatNext]_heartbeatVars /\ [DialNext]_dialVars
  /\ [CacheNext]_cacheVars /\ [TableNext]_tableVars /\ [ConfigNext]_configVars /\ [FramingNext]_frameVars

LEMMA InitOfAll == ComponentsInit => AllInits /\ part \in Parts
  BY DEF ComponentsInit, AllInits

\* A step of one component is a step or a stutter of every component.
LEMMA StepOfAll ==
  ASSUME [ComponentsNext]_allVars
  PROVE  AllSteps /\ part' = part
<1>1. CASE UNCHANGED allVars
  BY <1>1 DEF allVars, AllSteps
<1>2. CASE ProbingRuns(Next)
  BY <1>2 DEF ProbingRuns, AllSteps
<1>3. CASE UpkeepRuns(UpkeepNext)
  BY <1>3 DEF UpkeepRuns, AllSteps
<1>4. CASE HeartbeatRuns(HeartbeatNext)
  BY <1>4 DEF HeartbeatRuns, AllSteps
<1>5. CASE DialRuns(DialNext)
  BY <1>5 DEF DialRuns, AllSteps
<1>6. CASE CacheRuns(CacheNext)
  BY <1>6 DEF CacheRuns, AllSteps
<1>7. CASE TableRuns(TableNext)
  BY <1>7 DEF TableRuns, AllSteps
<1>8. CASE ConfigRuns(ConfigNext)
  BY <1>8 DEF ConfigRuns, AllSteps
<1>9. CASE FramingRuns(FramingNext)
  BY <1>9 DEF FramingRuns, AllSteps
<1> QED
  BY <1>1, <1>2, <1>3, <1>4, <1>5, <1>6, <1>7, <1>8, <1>9 DEF ComponentsNext

\* Every behaviour of the composition is, seen through the variables of one
\* component, a behaviour of that component: what connectAny, the loops, a
\* heartbeat, a dial, the cache, the session table, the configuration and the
\* framing do alone they do here.
THEOREM ComponentsImplementEach ==
  ComponentsSpec => /\ Spec /\ UpkeepSpec /\ HeartbeatSpec /\ DialSpec
                    /\ CacheSpec /\ TableSpec /\ ConfigSpec /\ FramingSpec
<1>1. ComponentsInit => /\ Init /\ UpkeepInit /\ HeartbeatInit /\ DialInit
                        /\ CacheInit /\ TableInit /\ ConfigInit /\ FramingInit
  BY InitOfAll DEF AllInits
<1>2. [ComponentsNext]_allVars =>
        /\ [Next]_vars /\ [UpkeepNext]_upkeepVars /\ [HeartbeatNext]_heartbeatVars /\ [DialNext]_dialVars
        /\ [CacheNext]_cacheVars /\ [TableNext]_tableVars /\ [ConfigNext]_configVars /\ [FramingNext]_frameVars
  BY StepOfAll DEF AllSteps
<1> QED
  BY <1>1, <1>2, PTL
  DEF ComponentsSpec, Spec, UpkeepSpec, HeartbeatSpec, DialSpec, CacheSpec, TableSpec, ConfigSpec, FramingSpec

LEMMA PartStays == ComponentsSpec => [](part \in Parts)
<1>1. ComponentsInit => part \in Parts
  BY InitOfAll
<1>2. part \in Parts /\ [ComponentsNext]_allVars => (part \in Parts)'
  BY StepOfAll
<1> QED BY <1>1, <1>2, PTL DEF ComponentsSpec

LEMMA FramesTyped == FramingInv => FramingTypeOK
<1> SUFFICES ASSUME FramingInv PROVE FramingTypeOK
  OBVIOUS
<1>1. \A m : Decode(m).is \in {"error", "frame"}
  BY DEF Decode, Error
<1>2. Nothing.is = "nothing"
  BY DEF Nothing
<1>3. incoming.is \in {"nothing", "error", "frame"}
  <2>1. CASE incoming = Nothing
    BY <1>2, <2>1
  <2>2. CASE incoming = Decode(message)
    BY <1>1, <2>2
  <2> QED BY <2>1, <2>2 DEF FramingInv
<1> QED BY <1>3 DEF FramingInv, FramingTypeOK

\* Whatever the sizes and bounds, every component keeps to its types.
THEOREM ComponentsTyped == ComponentsSpec => []ComponentsTypeOK
<1>1. HeartbeatSpec => []HeartbeatTypeOK
  <2>1. PingInv => HeartbeatTypeOK
    BY DEF PingInv
  <2> QED BY <2>1, PingInvariance, PTL
<1>2. DialSpec => []DialTypeOK
  <2>1. DialInv => DialTypeOK
    BY DEF DialInv
  <2> QED BY <2>1, DialInvariance, PTL
<1>3. CacheSpec => []CacheTypeOK
  <2>1. CacheInv => CacheTypeOK
    BY DEF CacheInv
  <2> QED BY <2>1, CacheInvariance, PTL
<1>4. TableSpec => []TableTypeOK
  <2>1. TableInv => TableTypeOK
    BY DEF TableInv
  <2> QED BY <2>1, TableInvariance, PTL
<1>5. FramingSpec => []FramingTypeOK
  BY FramesTyped, FramingInvariance, PTL
<1>6. /\ part \in Parts /\ TypeOK /\ UpkeepTypeOK /\ HeartbeatTypeOK /\ DialTypeOK
      /\ CacheTypeOK /\ TableTypeOK /\ ConfigTypeOK /\ FramingTypeOK
      => ComponentsTypeOK
  BY DEF ComponentsTypeOK
<1> QED
  BY <1>1, <1>2, <1>3, <1>4, <1>5, <1>6, PartStays, ComponentsImplementEach,
     ProbingTyped, UpkeepTyped, ConfigTyped, PTL

\* What the run of Components checks, but for liveness, holds for every value
\* of the constants: nothing that one component promises depends on what the
\* others are doing.
THEOREM ComponentsKeepPromises ==
  ComponentsSpec => /\ [](/\ HandedOverAlive /\ NothingLeaks /\ OutcomeIsTrue /\ EveryPathTried
                          /\ NoLostWakeup /\ BackoffWithinDeadline
                          /\ PingResolvedOnce /\ OwnPongOnly /\ DialLeavesNothing
                          /\ CacheIsWhole /\ HintIsUsable /\ OwnSessionOnly /\ EndedServesNobody
                          /\ EndsAgree)
                    /\ SwitchesReplaceTheirSource /\ KeysAreWriteOnce /\ RefusalsAreFinal
  BY ComponentsImplementEach,
     GoodProbesLive, SocketsAreClosed, OutcomesAreTrue, PathsAreTried,
     WakeupsAreKept, BackoffsEndInTime, SwitchesReplaceSources,
     PingsResolve, PongsAreOwn, DialsLeaveNothing, CacheStaysWhole, HintsAreUsable,
     SessionsAreOwn, EndedServeNobody, KeysStay, RefusalsStay, FramesAgree, PTL
=============================================================================
