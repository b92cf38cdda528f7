------------------------------- MODULE Upkeep -------------------------------
(***************************************************************************)
(* Who keeps a client connected: switchLoop, which measures the paths,     *)
(* drops or replaces the active connection, and reconnectLoop, which       *)
(* brings a lost one back until resume.timeout.  They share rt.active,     *)
(* switchMu, which serializes activations, and the one-slot                *)
(* reconnectSignal.  What travels on a connection is ClientRuntime's, how  *)
(* a path is dialled or probed Probing's: here an attempt succeeds or      *)
(* fails; nor can the client end but by its resume timeout.  Time is       *)
(* counted in ticks; a timer is what is left of it.                        *)
(***************************************************************************)
EXTENDS Integers, Sequences

CONSTANTS
  Routes,            \* the enabled paths
  Preference,        \* Preference[r]: paths[].priority
  FailureThreshold,  \* probe.active_failure_threshold
  SuccessThreshold,  \* probe.candidate_success_threshold
  Cooldown,          \* probe.switch_cooldown, in ticks
  ResumeTimeout,     \* resume.timeout, in ticks
  RetryBase,         \* retryBaseDelay, in ticks
  RetryMax,          \* retryMaxDelay, in ticks
  MinDelta,          \* probe.better_rtt_min_delta
  RatioNum, RatioDen,\* probe.better_rtt_ratio, as a fraction
  RoundTrips,        \* bound: the round-trip times that are measured
  MaxAttempt,        \* bound: attempts beyond it wait no longer than it
  MaxEpoch           \* bound: activations of a behaviour

ASSUME RoutesAssumption == Routes # {} /\ Preference \in [Routes -> Nat]
ASSUME ThresholdAssumption ==
  FailureThreshold \in Nat \ {0} /\ SuccessThreshold \in Nat \ {0}
ASSUME TicksAssumption ==
  /\ Cooldown \in Nat /\ ResumeTimeout \in Nat \ {0}
  /\ RetryBase \in Nat \ {0} /\ RetryMax \in Nat /\ RetryBase <= RetryMax
ASSUME LatencyAssumption ==
  /\ MinDelta \in Nat /\ RatioNum \in Nat /\ RatioDen \in Nat \ {0}
  /\ RoundTrips \subseteq Nat
ASSUME UpkeepBounds == MaxAttempt \in Nat \ {0} /\ MaxEpoch \in Nat \ {0}

VARIABLES
  link,      \* rt.active, rt.epoch, rt.finished (resume timeout), and rt.active.path
  cool,      \* what is left of the cooldown since rt.lastSwitch
  wake,      \* reconnectSignal holds a signal
  droppers,  \* how many dropActive have unlocked and not signalled yet
  switchMu,  \* who holds it
  stats,     \* switchLoop's probeStat of each path
  cycle,     \* runSwitchCycle
  loop       \* runReconnectLoop

upkeepVars == <<link, cool, wake, droppers, switchMu, stats, cycle, loop>>

Minimum(a, b) == IF a < b THEN a ELSE b

\* Where there is no path.
AnyRoute == CHOOSE r \in Routes : TRUE

\* A connection is known by its epoch.
LinkType == [path : Routes, epoch : 1..MaxEpoch, up : BOOLEAN, finished : BOOLEAN]

\* Counts beyond the thresholds make no difference.
StatType == [success : 0..SuccessThreshold, fail : 0..FailureThreshold]

\* src, path, cool: the snapshot; "collect": the heartbeat has failed already.
CycleType == [pc : {"idle", "heartbeat", "collect", "lock", "hello", "replay"},
              src : 1..MaxEpoch, path : Routes, cool : 0..Cooldown,
              best : Routes, failed : BOOLEAN]

\* left: ticks until the deadline, once armed.
LoopType == [pc : {"look", "wait", "decide", "backoff", "check", "lock", "hello", "replay", "stopped"},
             armed : BOOLEAN, left : 0..ResumeTimeout, attempt : 0..MaxAttempt,
             sleep : 0..RetryMax]

IdleCycle == [pc |-> "idle", src |-> 1, path |-> AnyRoute, cool |-> 0,
              best |-> AnyRoute, failed |-> FALSE]

\* Proxy starts the loops when connectAny has succeeded.
UpkeepInit ==
  /\ \E r \in Routes : link = [path |-> r, epoch |-> 1, up |-> TRUE, finished |-> FALSE]
  /\ cycle = IdleCycle
  /\ cool = Cooldown /\ wake = FALSE /\ droppers = 0 /\ switchMu = "free"
  /\ stats = [r \in Routes |-> [success |-> 0, fail |-> 0]]
  /\ loop = [pc |-> "look", armed |-> FALSE, left |-> 0, attempt |-> 0, sleep |-> 0]

-----------------------------------------------------------------------------
(* rt.active. *)

DropActive(epoch) ==
  IF link.up /\ link.epoch = epoch
  THEN link' = [link EXCEPT !.up = FALSE, !.path = AnyRoute] /\ droppers' = droppers + 1
  ELSE UNCHANGED <<link, droppers>>

\* receiveLoop or a sender finds the active connection broken.
ConnectionFails ==
  /\ link.up
  /\ DropActive(link.epoch)
  /\ UNCHANGED <<cool, wake, switchMu, stats, cycle, loop>>

\* Mutant of SignalReconnect: the channel has no buffer, and the loop that is
\* about to wait may not have begun to.
SignalUnbuffered ==
  /\ droppers > 0
  /\ droppers' = droppers - 1
  /\ wake' \in {wake, TRUE}
  /\ UNCHANGED <<link, cool, switchMu, stats, cycle, loop>>
\* The second half of dropActive, after rt.mu is released.
SignalReconnect ==
  /\ droppers > 0
  /\ droppers' = droppers - 1
  /\ wake' = TRUE
  /\ UNCHANGED <<link, cool, switchMu, stats, cycle, loop>>

\* commitActivation, up to its unlock.
Commit(path) ==
  /\ ~link.finished
  /\ link.epoch < MaxEpoch
  /\ link' = [link EXCEPT !.path = path, !.epoch = @ + 1, !.up = TRUE]
  /\ cool' = Cooldown

-----------------------------------------------------------------------------
(* switchLoop. *)

StartCycle ==
  /\ cycle.pc = "idle" /\ link.up
  /\ cycle' = [cycle EXCEPT !.pc = "heartbeat", !.src = link.epoch, !.path = link.path, !.cool = cool]
  /\ UNCHANGED <<link, cool, wake, droppers, switchMu, stats, loop>>

\* The ping cannot be sent.
HeartbeatSendFails ==
  /\ cycle.pc = "heartbeat"
  /\ DropActive(cycle.src)
  /\ cycle' = [cycle EXCEPT !.pc = "collect"]
  /\ UNCHANGED <<cool, wake, switchMu, stats, loop>>

\* Mutant of Failed: a failure does not end a row of successes.
FailedKeeps(s) == [s EXCEPT !.fail = Minimum(@ + 1, FailureThreshold)]
Failed(s) == [success |-> 0, fail |-> Minimum(s.fail + 1, FailureThreshold)]
Succeeded(s) == [success |-> Minimum(s.success + 1, SuccessThreshold), fail |-> 0]

\* The result of a heartbeat or a probe that failed.
Missed == -1

\* All stats after a cycle whose heartbeat and probes took these times.
Observed(times) ==
  [r \in Routes |-> IF times[r] = Missed THEN Failed(stats[r]) ELSE Succeeded(stats[r])]

\* updateCandidateStats takes the first of the ranked candidates that has
\* succeeded often enough.
Eligible(times) ==
  {r \in Routes \ {cycle.path} : times[r] # Missed /\ Observed(times)[r].success >= SuccessThreshold}
IsBest(r, times) ==
  /\ r \in Eligible(times)
  /\ \A q \in Eligible(times) :
       times[r] < times[q] \/ (times[r] = times[q] /\ Preference[r] >= Preference[q])

\* The RTT of the active path is that of this heartbeat: only a healthy one
\* gets here.  One too short to measure leaves only the priorities to compare.
ShouldLatencySwitch(r, times) ==
  LET rtt   == times[cycle.path]
      delta == rtt - times[r]
      abs   == IF delta < 0 THEN -delta ELSE delta
  IN  /\ cycle.cool = 0
      /\ \/ rtt > 0 /\ delta >= MinDelta /\ delta * RatioDen >= RatioNum * rtt
         \/ (rtt = 0 \/ abs <= MinDelta) /\ Preference[r] > Preference[cycle.path]

\* Mutant of GiveUp: without a candidate the connection is kept.
GiveUpNever(failed) == UNCHANGED <<link, droppers>>
\* There is no candidate, so a connection that has failed is only dropped.
GiveUp(failed) == IF failed THEN DropActive(cycle.src) ELSE UNCHANGED <<link, droppers>>

\* The heartbeat and the probes have ended, and the cycle makes up its mind.
CycleDecides ==
  /\ cycle.pc \in {"heartbeat", "collect"}
  /\ \E times \in [Routes -> RoundTrips \cup {Missed}] :
       LET failed == Observed(times)[cycle.path].fail >= FailureThreshold
       IN  /\ cycle.pc = "collect" => times[cycle.path] = Missed
           /\ stats' = Observed(times)
           /\ \/ /\ Eligible(times) = {}
                 /\ cycle' = IdleCycle
                 /\ GiveUp(failed)
              \/ \E r \in Routes :
                   /\ IsBest(r, times)
                   /\ cycle' = IF failed \/ (times[cycle.path] # Missed /\ ShouldLatencySwitch(r, times))
                               THEN [cycle EXCEPT !.pc = "lock", !.best = r, !.failed = failed]
                               ELSE IdleCycle
                   /\ UNCHANGED <<link, droppers>>
  /\ UNCHANGED <<cool, wake, switchMu, loop>>

\* Mutant of CandidateSourceIsCurrent: a dropped source is not told from a later one.
AnySourceIsCurrent ==
  /\ ~link.finished
  /\ (link.up /\ link.epoch = cycle.src) \/ (cycle.failed /\ ~link.up)
CandidateSourceIsCurrent ==
  /\ ~link.finished
  /\ link.epoch = cycle.src
  /\ link.up \/ cycle.failed

CycleLocks ==
  /\ cycle.pc = "lock" /\ switchMu = "free"
  /\ IF CandidateSourceIsCurrent
     THEN cycle' = [cycle EXCEPT !.pc = "hello"] /\ switchMu' = "cycle"
     ELSE cycle' = IdleCycle /\ UNCHANGED switchMu
  /\ UNCHANGED <<link, cool, wake, droppers, stats, loop>>

CycleAccepted ==
  /\ cycle.pc = "hello"
  /\ Commit(cycle.best)
  /\ cycle' = [cycle EXCEPT !.pc = "replay"]
  /\ UNCHANGED <<wake, droppers, switchMu, stats, loop>>

\* No accept, or a refused commit.
CycleHelloFails ==
  /\ cycle.pc = "hello"
  /\ cycle' = IdleCycle /\ switchMu' = "free"
  /\ UNCHANGED <<link, cool, wake, droppers, stats, loop>>

\* replayClientBytes drops the connection if it cannot send on it.
CycleReplays ==
  /\ cycle.pc = "replay"
  /\ DropActive(link.epoch) \/ UNCHANGED <<link, droppers>>
  /\ cycle' = IdleCycle /\ switchMu' = "free"
  /\ UNCHANGED <<cool, wake, stats, loop>>

-----------------------------------------------------------------------------
(* runReconnectLoop. *)

\* retryCap
RetryCap(attempt) ==
  LET cap[n \in 1..MaxAttempt] ==
        IF n = 1 THEN RetryBase
        ELSE IF cap[n - 1] >= RetryMax THEN cap[n - 1]
        ELSE IF cap[n - 1] > RetryMax \div 2 THEN RetryMax
        ELSE 2 * cap[n - 1]
  IN  cap[attempt]

\* Mutant of Delays: the time that is left is not looked at.
DelaysUncapped == IF loop.attempt = 0 THEN {0} ELSE 0..(RetryCap(loop.attempt) - 1)
\* retryPolicy.next: the jitter picks a delay below the cap.
Delays ==
  IF loop.attempt = 0 THEN {0}
  ELSE 0..(Minimum(RetryCap(loop.attempt), loop.left) - 1)

UpAgain == [loop EXCEPT !.armed = FALSE, !.left = 0, !.attempt = 0]

LoopOnly == UNCHANGED <<link, cool, wake, droppers, switchMu, stats, cycle>>

LoopLooks ==
  /\ loop.pc = "look"
  /\ loop' = IF link.up THEN [UpAgain EXCEPT !.pc = "wait"]
             ELSE [loop EXCEPT !.pc = "decide", !.armed = TRUE,
                               !.left = IF loop.armed THEN @ ELSE ResumeTimeout]
  /\ LoopOnly

LoopWakes ==
  /\ loop.pc = "wait" /\ wake
  /\ wake' = FALSE
  /\ loop' = [loop EXCEPT !.pc = "look"]
  /\ UNCHANGED <<link, cool, droppers, switchMu, stats, cycle>>

LoopDecides ==
  /\ loop.pc = "decide" /\ loop.left > 0
  /\ \E delay \in Delays :
       loop' = [loop EXCEPT !.sleep = delay, !.pc = IF delay = 0 THEN "check" ELSE "backoff"]
  /\ LoopOnly

BackoffEnds ==
  /\ loop.pc = "backoff" /\ loop.sleep = 0
  /\ loop' = [loop EXCEPT !.pc = "check"]
  /\ LoopOnly

\* A signal, also an old one, ends the backoff.
BackoffInterrupted ==
  /\ loop.pc = "backoff" /\ wake
  /\ wake' = FALSE
  /\ loop' = [loop EXCEPT !.pc = "check", !.sleep = 0]
  /\ UNCHANGED <<link, cool, droppers, switchMu, stats, cycle>>

\* The deadline has passed, before or after the backoff.
LoopGivesUp ==
  /\ loop.pc \in {"decide", "check"} /\ loop.left = 0
  /\ link' = [link EXCEPT !.up = FALSE, !.path = AnyRoute, !.finished = TRUE]
  /\ loop' = [loop EXCEPT !.pc = "stopped"]
  /\ UNCHANGED <<cool, wake, droppers, switchMu, stats, cycle>>

\* connectAny tries the paths one after the other.
LoopAttempts ==
  /\ loop.pc = "check" /\ loop.left > 0
  /\ loop' = [loop EXCEPT !.pc = "lock"]
  /\ LoopOnly

LoopLocks ==
  /\ loop.pc = "lock" /\ switchMu = "free"
  /\ switchMu' = "loop"
  /\ loop' = [loop EXCEPT !.pc = "hello"]
  /\ UNCHANGED <<link, cool, wake, droppers, stats, cycle>>

\* Before the deadline of the attempt.
LoopAccepted ==
  /\ loop.pc = "hello" /\ loop.left > 0
  /\ \E r \in Routes : Commit(r)
  /\ loop' = [loop EXCEPT !.pc = "replay"]
  /\ UNCHANGED <<wake, droppers, switchMu, stats, cycle>>

\* Mutant of TryFails: the mutex is kept.
TryFailsLocked ==
  /\ \/ loop.left > 0 /\ loop' = [loop EXCEPT !.pc = "lock"]
     \/ loop' = [loop EXCEPT !.pc = "look", !.attempt = Minimum(@ + 1, MaxAttempt)]
  /\ UNCHANGED switchMu
\* There is another path, or this was the last; past the deadline, those
\* that are left fail at once.
TryFails ==
  /\ \/ loop.left > 0 /\ loop' = [loop EXCEPT !.pc = "lock"]
     \/ loop' = [loop EXCEPT !.pc = "look", !.attempt = Minimum(@ + 1, MaxAttempt)]
  /\ switchMu' = "free"

LoopTryFails ==
  /\ loop.pc = "hello"
  /\ TryFails
  /\ UNCHANGED <<link, cool, wake, droppers, stats, cycle>>

LoopReplayFails ==
  /\ loop.pc = "replay"
  /\ TryFails
  /\ DropActive(link.epoch)
  /\ UNCHANGED <<cool, wake, stats, cycle>>

LoopSucceeds ==
  /\ loop.pc = "replay"
  /\ loop' = [UpAgain EXCEPT !.pc = "look"]
  /\ switchMu' = "free"
  /\ UNCHANGED <<link, cool, wake, droppers, stats, cycle>>

-----------------------------------------------------------------------------
Less(n) == IF n = 0 THEN 0 ELSE n - 1

UpkeepTick ==
  /\ cool > 0 \/ cycle.cool > 0 \/ loop.left > 0 \/ loop.sleep > 0
  /\ cool' = Less(cool)
  /\ cycle' = [cycle EXCEPT !.cool = Less(@)]
  /\ loop' = [loop EXCEPT !.left = Less(@), !.sleep = Less(@)]
  /\ UNCHANGED <<link, wake, droppers, switchMu, stats>>

CycleHelloEnds == CycleAccepted \/ CycleHelloFails
CycleStep == HeartbeatSendFails \/ CycleDecides \/ CycleLocks \/ CycleReplays
LoopStep ==
  \/ LoopLooks \/ LoopWakes \/ LoopDecides \/ BackoffEnds \/ BackoffInterrupted
  \/ LoopGivesUp \/ LoopAttempts \/ LoopLocks \/ LoopReplayFails \/ LoopSucceeds
LoopHelloEnds == LoopAccepted \/ LoopTryFails
AttemptExpires == loop.left = 0 /\ LoopTryFails

\* The client has ended.
Ended == loop.pc = "stopped" /\ cycle.pc = "idle" /\ droppers = 0

UpkeepNext ==
  \/ ConnectionFails \/ SignalReconnect
  \/ StartCycle \/ CycleStep \/ CycleHelloEnds
  \/ LoopStep \/ LoopHelloEnds
  \/ UpkeepTick
  \/ Ended /\ UNCHANGED upkeepVars

UpkeepSpec == UpkeepInit /\ [][UpkeepNext]_upkeepVars

\* Goroutines run and time passes.  An attempt of reconnectLoop ends by its
\* deadline; nothing ends the hello of a switch but its connection.
UpkeepFairness ==
  /\ WF_upkeepVars(SignalReconnect) /\ WF_upkeepVars(UpkeepTick)
  /\ WF_upkeepVars(CycleStep) /\ WF_upkeepVars(LoopStep)
  /\ WF_upkeepVars(AttemptExpires)

UpkeepFairSpec == UpkeepSpec /\ UpkeepFairness

-----------------------------------------------------------------------------
UpkeepTypeOK ==
  /\ link \in LinkType
  /\ cool \in 0..Cooldown
  /\ wake \in BOOLEAN
  /\ droppers \in Nat
  /\ switchMu \in {"free", "cycle", "loop"}
  /\ stats \in [Routes -> StatType]
  /\ cycle \in CycleType
  /\ loop \in LoopType

\* Whenever reconnectLoop sleeps on its signal while the connection is lost,
\* the signal is there or the goroutine that lost it is about to send it: the
\* loop never sleeps through an outage, whatever it was doing when it began.
NoLostWakeup ==
  loop.pc = "wait" /\ ~link.up /\ ~link.finished => wake \/ droppers > 0

\* A switch replaces the connection its cycle has measured: no activation of
\* reconnectLoop came between, and so, unless that connection failed, the
\* cooldown has passed since the last activation of all although the cycle
\* looked at lastSwitch before its probes.
SwitchesReplaceTheirSource ==
  [][cycle.pc = "hello" /\ cycle'.pc = "replay" =>
       link.epoch = cycle.src /\ (cycle.failed \/ cool = 0)]_upkeepVars

\* A backoff ends before the deadline: a client with time left makes another
\* attempt.
BackoffWithinDeadline ==
  loop.pc = "backoff" => loop.armed /\ (loop.sleep = 0 \/ loop.sleep < loop.left)

\* An active connection whose heartbeats keep failing is not kept for ever: it
\* is lost, or a heartbeat succeeds again, or a switch is tried, whether or not
\* any other path answers.  (Where nothing is active there is no path to ask.)
FailureActedOn == []<>(~link.up \/ stats[link.path].success > 0 \/ cycle.pc = "hello")

\* "resume.timeout: Maximum time a live session may stay disconnected"
\* (docs/mvp.md, 88): a lost connection comes back or the client ends.
OutageEnds == ~link.up ~> link.up \/ link.finished

\* The same if every hello of a switch is answered or fails at last.
AnsweredOutageEnds == []<>(cycle.pc # "hello") => OutageEnds
=============================================================================
