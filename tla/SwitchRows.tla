----------------------------- MODULE SwitchRows -----------------------------
(***************************************************************************)
(* Upkeep with a history: for each path, its heartbeats that failed in a   *)
(* row and its probes that succeeded in a row, which probeStat does not    *)
(* tell apart.  The other kind does not interrupt a row.                   *)
(***************************************************************************)
EXTENDS Upkeep

VARIABLES
  missed,  \* failed heartbeats of each path in a row, while it was active
  probed   \* successful probes of each path in a row, while it was not

rowsVars == <<upkeepVars, missed, probed>>

RowsInit ==
  /\ UpkeepInit
  /\ missed = [r \in Routes |-> 0]
  /\ probed = [r \in Routes |-> 0]

\* A step in which a cycle has its results: a heartbeat of the path that it
\* found active, a probe of each other.
CycleMeasures == cycle.pc \in {"heartbeat", "collect"} /\ cycle'.pc \in {"idle", "lock"}

Good(r) == stats'[r].success > 0

Counted ==
  /\ missed' = [missed EXCEPT ![cycle.path] =
                  IF Good(cycle.path) THEN 0 ELSE Minimum(@ + 1, FailureThreshold)]
  /\ probed' = [r \in Routes |->
                  IF r = cycle.path THEN probed[r]
                  ELSE IF Good(r) THEN Minimum(probed[r] + 1, SuccessThreshold) ELSE 0]

RowsNext ==
  /\ UpkeepNext
  /\ IF CycleMeasures THEN Counted ELSE UNCHANGED <<missed, probed>>

RowsSpec == RowsInit /\ [][RowsNext]_rowsVars

-----------------------------------------------------------------------------
\* "Consecutive failed in-session heartbeats on the active path before
\* failover starts", "Consecutive successful probes required before an inactive
\* path may become active" (docs/mvp.md, 93-94): a cycle that goes for another
\* path has seen as many of the kind in question.
ThresholdsAreOfAKind ==
  [][CycleMeasures /\ cycle'.pc = "lock" =>
       /\ probed'[cycle'.best] >= SuccessThreshold
       /\ cycle'.failed => missed'[cycle.path] >= FailureThreshold]_rowsVars
=============================================================================
