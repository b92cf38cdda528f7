----------------------------- MODULE PathProofs -----------------------------
(***************************************************************************)
(* A client and its paths, for any paths, priorities, thresholds and       *)
(* times.  One call that looks for a path: what it promotes is alive, what *)
(* it does not is closed, and it says what it did.  And the two loops that *)
(* keep a client connected: reconnectLoop does not sleep through an        *)
(* outage, its backoff ends before its deadline, and a switch replaces the *)
(* connection that its cycle has measured, for the reasons it should have. *)
(***************************************************************************)
EXTENDS Probing, Upkeep, WellFoundedInduction, TLAPS

(* Induction on a set: a set of naturals with 0 and the successors of its  *)
(* members is Nat, for otherwise what is missing has a least element.      *)

LEMMA LeastNatural ==
  ASSUME NEW S \in SUBSET Nat, S # {}
  PROVE  \E m \in S : \A k \in S : m <= k
<1> DEFINE R == OpToRel(<, Nat)
<1>1. IsWellFoundedOn(R, Nat)
  BY NatLessThanWellFounded
<1>2. \A k, m \in Nat : k < m => <<k, m>> \in R
  BY DEF OpToRel
<1> HIDE DEF R
<1>3. PICK m \in S : \A k \in S : ~(<<k, m>> \in R)
  BY <1>1, WFMin
<1>4. \A k \in S : ~(k < m)
  BY <1>2, <1>3
<1> QED BY <1>4

LEMMA InductiveSet ==
  ASSUME NEW S \in SUBSET Nat, 0 \in S, \A n \in S : n + 1 \in S
  PROVE  S = Nat
<1> SUFFICES ASSUME Nat \ S # {} PROVE FALSE
  OBVIOUS
<1>1. PICK m \in Nat \ S : \A k \in Nat \ S : m <= k
  BY LeastNatural
<1>2. m # 0 /\ m - 1 \in S
  BY <1>1
<1> QED BY <1>1, <1>2

-----------------------------------------------------------------------------
(* rankProbeCandidates. *)

LEMMA PositionsDiffer ==
  /\ \A p \in Paths : Position(p) \in Nat /\ PathSeq[Position(p)] = p
  /\ \A p, q \in Paths : p # q => Position(p) # Position(q)
<1>1. PathSeq \in Seq(Paths)
  BY PathSeqAssumption
<1>2. ASSUME NEW p \in Paths
      PROVE  Position(p) \in DOMAIN PathSeq /\ PathSeq[Position(p)] = p
  <2>1. \E i \in DOMAIN PathSeq : PathSeq[i] = p
    BY DEF Paths
  <2> QED BY <2>1 DEF Position
<1>3. DOMAIN PathSeq \subseteq Nat
  BY <1>1
<1> QED BY <1>2, <1>3

\* The comparison that sort.SliceStable is given is a strict total order.
THEOREM RankingIsTotal ==
  ASSUME TypeOK
  PROVE  /\ \A p \in Paths : ~RanksBefore(p, p)
         /\ \A p, q \in Paths : p # q => RanksBefore(p, q) \/ RanksBefore(q, p)
         /\ \A p, q, r \in Paths : RanksBefore(p, q) /\ RanksBefore(q, r) => RanksBefore(p, r)
<1>1. /\ \A p \in Paths : probe[p].ok \in BOOLEAN /\ probe[p].rtt \in Nat /\ Priority[p] \in Nat
      /\ \A p \in Paths : Position(p) \in Nat
      /\ \A p, q \in Paths : p # q => Position(p) # Position(q)
  <2>1. ASSUME NEW p \in Paths
        PROVE  probe[p].ok \in BOOLEAN /\ probe[p].rtt \in Nat /\ Priority[p] \in Nat
    <3>1. probe[p] \in ProbeType
      BY DEF TypeOK
    <3>2. probe[p].ok \in BOOLEAN
      BY <3>1 DEF ProbeType
    <3>3. probe[p].rtt \in RTTs \cup {0}
      BY <3>1 DEF ProbeType
    <3>4. \A t \in RTTs \cup {0} : t \in Nat
      BY RTTsAssumption
    <3>5. Priority[p] \in Nat
      BY PriorityAssumption
    <3> QED BY <3>2, <3>3, <3>4, <3>5
  <2> QED BY <2>1, PositionsDiffer
<1>2. ASSUME NEW p \in Paths PROVE ~RanksBefore(p, p)
  BY <1>1 DEF RanksBefore
<1>3. ASSUME NEW p \in Paths, NEW q \in Paths, p # q
      PROVE  RanksBefore(p, q) \/ RanksBefore(q, p)
  BY <1>1, <1>3 DEF RanksBefore
<1>4. ASSUME NEW p \in Paths, NEW q \in Paths, NEW r \in Paths, RanksBefore(p, q), RanksBefore(q, r)
      PROVE  RanksBefore(p, r)
  BY <1>1, <1>4 DEF RanksBefore
<1> QED BY <1>2, <1>3, <1>4

\* Whatever candidates are left, one of them is the first: activateRankedCandidates
\* has a next attempt as long as there are any.
THEOREM RankingHasAFirst ==
  ASSUME TypeOK, NEW S \in SUBSET Paths, S # {}
  PROVE  \E p \in S : IsFirst(p, S)
<1> DEFINE Prefix(n) == {PathSeq[i] : i \in {j \in DOMAIN PathSeq : j <= n}}
           N == {n \in Nat : \A T \in SUBSET Prefix(n) : T # {} => \E p \in T : IsFirst(p, T)}
<1>1. PathSeq \in Seq(Paths) /\ Len(PathSeq) \in Nat /\ DOMAIN PathSeq = 1..Len(PathSeq)
  BY PathSeqAssumption
<1>2. 0 \in N
  BY <1>1
<1>3. ASSUME NEW n \in N PROVE n + 1 \in N
  <2>1. n \in Nat /\ n + 1 \in Nat
    OBVIOUS
  <2>2. \A T \in SUBSET Prefix(n) : T # {} => \E p \in T : IsFirst(p, T)
    OBVIOUS
  <2>3. SUFFICES ASSUME NEW T \in SUBSET Prefix(n + 1), T # {} PROVE \E p \in T : IsFirst(p, T)
    BY <2>1
  <2>4. Prefix(n + 1) \subseteq Prefix(n) \cup {PathSeq[n + 1]} /\ Prefix(n + 1) \subseteq Paths
    BY <1>1, <2>1 DEF Paths
  <2> HIDE DEF Prefix
  <2> DEFINE x == PathSeq[n + 1]
             R == T \ {x}
  <2>5. R \in SUBSET Prefix(n) /\ T \subseteq R \cup {x} /\ T \subseteq Paths /\ R \subseteq T /\ x \notin R
    BY <2>4
  <2> HIDE DEF x, R
  <2>6. CASE R = {}
    <3>1. x \in T /\ T \ {x} = {}
      BY <2>3, <2>5, <2>6
    <3> QED BY <3>1 DEF IsFirst
  <2>7. CASE R # {}
    <3>1. PICK p \in R : IsFirst(p, R)
      BY <2>2, <2>5, <2>7
    <3>2. CASE x \notin T
      <4>1. T = R
        BY <2>5, <3>2
      <4> QED BY <3>1, <4>1
    <3>3. CASE x \in T /\ RanksBefore(x, p)
      <4>1. \A q \in T \ {x} : RanksBefore(x, q)
        BY <2>5, <3>1, <3>3, RankingIsTotal DEF IsFirst
      <4> QED BY <3>3, <4>1 DEF IsFirst
    <3>4. CASE x \in T /\ ~RanksBefore(x, p)
      <4>1. RanksBefore(p, x)
        BY <2>5, <3>1, <3>4, RankingIsTotal
      <4>2. \A q \in T \ {p} : RanksBefore(p, q)
        BY <2>5, <3>1, <4>1 DEF IsFirst
      <4> QED BY <2>5, <3>1, <4>2 DEF IsFirst
    <3> QED BY <3>2, <3>3, <3>4
  <2> QED BY <2>6, <2>7
<1>4. Paths = Prefix(Len(PathSeq))
  BY <1>1 DEF Paths
<1> HIDE DEF N
<1>5. N = Nat
  <2>1. N \in SUBSET Nat
    BY DEF N
  <2> QED BY <1>2, <1>3, <2>1, InductiveSet
<1> QED BY <1>1, <1>4, <1>5 DEF N

-----------------------------------------------------------------------------
(* One call of connectAny or of runSwitchCycle. *)

Delivered == {results[i] : i \in DOMAIN results}
InHand(p, how) == main.pc \in {"hello", "commit"} /\ main.path = p /\ main.how = how
Quiet == results = <<>> /\ AllDelivered

\* What a probe holds, and what its callback has done, at each of its steps.
ProbeOK(p) ==
  /\ probe[p].pc = "off" <=> p \notin call.probed
  /\ probe[p].pc \in {"off", "queued", "dial"} =>
       ~probe[p].held /\ ~probe[p].ok /\ probe[p].after = "off" /\ sock.probe[p] = "none"
  /\ probe[p].pc = "ping" =>
       /\ probe[p].held /\ ~probe[p].ok
       /\ \/ probe[p].after \in {"armed", "fired"} /\ sock.probe[p] = "open"
          \/ probe[p].after = "ran" /\ sock.probe[p] = "closed"
  /\ probe[p].pc \in {"result", "sent"} =>
       /\ probe[p].after # "armed"
       /\ probe[p].ok => probe[p].after = "stopped" /\ (probe[p].held => sock.probe[p] = "open")
       /\ ~probe[p].ok => ~probe[p].held /\ sock.probe[p] # "open"

\* Who an open socket belongs to.
OwnerOK(p) ==
  /\ sock.probe[p] = "open" => probe[p].held \/ InHand(p, "probe") \/ active = p
  /\ sock.direct[p] = "open" => InHand(p, "direct") \/ active = p

\* Where a candidate that has not been taken is.
PlaceOK(p) ==
  /\ probe[p].held =>
       \/ probe[p].pc \in {"ping", "result"}
       \/ p \in Delivered
       \/ call.kind # "cold" /\ p \in batch.items
  /\ main.result # "ok" /\ probe[p].pc = "sent" => p \in Delivered \cup batch.items \cup tried

SetsOK ==
  /\ batch.items \subseteq call.probed /\ Delivered \subseteq call.probed
  /\ \A p \in batch.items \cup Delivered : probe[p].pc = "sent"
  /\ call.kind = "cold" => \A p \in batch.items : ~probe[p].ok
  /\ main.todo \subseteq batch.items
  /\ tried \subseteq call.probed \cup ({call.known} \ {None})
  /\ main.ranked /\ main.result # "ok" => batch.items \subseteq main.todo \cup tried

CallerOK ==
  /\ main.pc = "returned" <=> main.result # ""
  /\ active # None <=> main.result = "ok"
  /\ main.pc \in {"dial", "hello", "commit"} => main.path \in Paths
  /\ main.pc \in {"hello", "commit"} /\ main.how = "probe" =>
       probe[main.path].ok /\ ~probe[main.path].held
  /\ main.pc = "commit" => sock[main.how][main.path] = "open"
  /\ active # None =>
       /\ sock[main.how][active] = "open"
       /\ main.how = "probe" => probe[active].ok /\ ~probe[active].held
  /\ main.pc = "next" => main.ranked
  /\ main.pc = "wait" => ~main.ranked

KindOK ==
  /\ call.kind = "cold" =>
       /\ call.known = None /\ batch.pc = "none"
       /\ main.pc \notin {"heartbeat", "wait", "choose"}
       /\ main.pc = "dial" => main.ranked
       /\ main.ranked => Quiet
       /\ main.pc = "returned" /\ drain # "run" => Quiet
  /\ call.kind = "warm" =>
       /\ call.known \in tried
       /\ main.pc \notin {"receive", "heartbeat", "choose"}
  /\ call.kind = "switch" =>
       /\ main.pc \notin {"receive", "dial", "next"} /\ ~main.ranked
       /\ main.pc \notin {"heartbeat", "wait"} => batch.pc # "run"
  /\ call.kind # "cold" =>
       /\ call.known # None
       /\ batch.pc = "none" => call.probed = {}
       /\ main.ranked => batch.pc # "run"
       /\ main.pc = "returned" /\ drain # "run" => batch.pc # "run" /\ \A p \in Paths : ~probe[p].held

EndOK ==
  /\ drain = "run" => main.result = "ok" /\ call.kind # "switch"
  /\ batch.pc \in {"ok", "err"} => Quiet
  /\ batch.pc = "err" => /\ \A p \in Paths : ~probe[p].held
                         /\ ctxDone \/ main.result = "ok"
  /\ canceled /\ batch.pc = "run" => main.result = "ok"

ProbingInv ==
  /\ TypeOK /\ SetsOK /\ CallerOK /\ KindOK /\ EndOK /\ EveryPathTried
  /\ \A p \in Paths : ProbeOK(p) /\ OwnerOK(p) /\ PlaceOK(p)

LEMMA DeliveredAppend ==
  ASSUME results \in Seq(Paths), NEW p \in Paths, results' = Append(results, p)
  PROVE  Delivered' = Delivered \cup {p} /\ results' \in Seq(Paths) /\ results' # <<>>
<1>1. results' \in Seq(Paths) /\ Len(results') = Len(results) + 1 /\ Len(results) \in Nat
  OBVIOUS
<1>2. \A i \in 1..Len(results) : results'[i] = results[i]
  OBVIOUS
<1>3. results'[Len(results) + 1] = p
  OBVIOUS
<1>4. DOMAIN results = 1..Len(results) /\ DOMAIN results' = 1..Len(results')
  BY <1>1
<1>5. DOMAIN results' = DOMAIN results \cup {Len(results) + 1}
  BY <1>1, <1>4
<1>6. Delivered' = Delivered \cup {p}
  BY <1>2, <1>3, <1>4, <1>5 DEF Delivered
<1>7. results' # <<>>
  BY <1>1
<1> QED BY <1>1, <1>6, <1>7

LEMMA DeliveredTail ==
  ASSUME results \in Seq(Paths), results # <<>>, results' = Tail(results)
  PROVE  /\ Head(results) \in Paths /\ Head(results) \in Delivered
         /\ results' \in Seq(Paths)
         /\ Delivered' \subseteq Delivered
         /\ Delivered \subseteq Delivered' \cup {Head(results)}
<1>1. /\ Len(results) \in Nat /\ Len(results) >= 1 /\ Head(results) = results[1]
      /\ results' \in Seq(Paths) /\ Len(results') = Len(results) - 1
      /\ DOMAIN results = 1..Len(results) /\ DOMAIN results' = 1..Len(results')
  OBVIOUS
<1>2. \A i \in 1..Len(results') : results'[i] = results[i + 1] /\ i + 1 \in 1..Len(results)
  BY <1>1
<1>3. Delivered' \subseteq Delivered
  BY <1>1, <1>2 DEF Delivered
<1>4. \A i \in 1..Len(results) : i # 1 => i - 1 \in 1..Len(results') /\ results'[i - 1] = results[i]
  BY <1>1, <1>2
<1>5. Delivered \subseteq Delivered' \cup {Head(results)}
  <2>1. SUFFICES ASSUME NEW i \in 1..Len(results), i # 1 PROVE results[i] \in Delivered'
    BY <1>1 DEF Delivered
  <2> QED BY <1>1, <1>4, <2>1 DEF Delivered
<1>6. 1 \in DOMAIN results /\ results[1] \in Paths
  BY <1>1
<1> QED BY <1>1, <1>3, <1>5, <1>6 DEF Delivered

\* closeProbeCandidates takes the sockets that the candidates of S still hold.
LEMMA ClosesCandidates ==
  ASSUME probe \in [Paths -> ProbeType], NEW s \in SockType, NEW S \in SUBSET Paths,
         CloseCandidates(s, S)
  PROVE  /\ probe' \in [Paths -> ProbeType] /\ sock' \in SockType
         /\ \A p \in Paths :
              /\ probe'[p].held <=> probe[p].held /\ p \notin S
              /\ probe'[p].pc = probe[p].pc /\ probe'[p].ok = probe[p].ok
              /\ probe'[p].after = probe[p].after /\ probe'[p].late = probe[p].late
              /\ sock'.probe[p] = IF p \in S /\ probe[p].held THEN "closed" ELSE s.probe[p]
              /\ sock'.direct[p] = s.direct[p]
<1>1. \A p \in Paths : probe'[p] = IF p \in S THEN [probe[p] EXCEPT !.held = FALSE] ELSE probe[p]
  BY DEF CloseCandidates
<1>2. \A p \in Paths : probe[p] \in ProbeType
  OBVIOUS
<1>3. ASSUME NEW p \in Paths PROVE probe'[p] \in ProbeType
  <2>1. [probe[p] EXCEPT !.held = FALSE] \in ProbeType
    BY <1>2 DEF ProbeType
  <2> QED BY <1>1, <1>2, <2>1
<1>4. probe' \in [Paths -> ProbeType]
  BY <1>3 DEF CloseCandidates
<1>5. ASSUME NEW p \in Paths
      PROVE  /\ probe'[p].held <=> probe[p].held /\ p \notin S
             /\ probe'[p].pc = probe[p].pc /\ probe'[p].ok = probe[p].ok
             /\ probe'[p].after = probe[p].after /\ probe'[p].late = probe[p].late
  BY <1>1, <1>2 DEF ProbeType
<1>6. sock' \in SockType
  BY DEF CloseCandidates, SockType
<1>7. ASSUME NEW p \in Paths
      PROVE  /\ sock'.probe[p] = IF p \in S /\ probe[p].held THEN "closed" ELSE s.probe[p]
             /\ sock'.direct[p] = s.direct[p]
  BY DEF CloseCandidates, SockType
<1> QED BY <1>4, <1>5, <1>6, <1>7

\* What a step of a worker, or of a callback, on p's probe may do to it.
Advances(p) ==
  /\ UNCHANGED <<call, ctxDone, canceled, batch, main, drain, active, tried>>
  /\ probe' \in [Paths -> ProbeType] /\ sock' \in SockType
  /\ \A q \in Paths : sock'.direct[q] = sock.direct[q]
  /\ \A q \in Paths \ {p} : probe'[q] = probe[q] /\ sock'.probe[q] = sock.probe[q]
  /\ probe[p].pc # "off" /\ probe'[p].pc # "off"
  /\ probe[p].ok => /\ probe'[p].ok /\ probe'[p].held = probe[p].held
                    /\ sock'.probe[p] = sock.probe[p]
  /\ probe[p].pc = "sent" => probe'[p].held = probe[p].held /\ probe'[p].ok = probe[p].ok
  /\ \/ results' = results /\ (probe'[p].pc = "sent" <=> probe[p].pc = "sent")
     \/ results' = Append(results, p) /\ probe[p].pc = "result" /\ probe'[p].pc = "sent"
        /\ probe'[p].held = probe[p].held
  /\ sock'.probe[p] = "open" => probe'[p].held \/ (~probe[p].held /\ sock.probe[p] = "open")
  /\ ProbeOK(p)'

LEMMA WorkersAdvance ==
  ASSUME TypeOK, NEW p \in Paths, ProbeOK(p), WorkerStep(p) \/ AfterStep(p)
  PROVE  Advances(p)
<1>1. /\ probe \in [Paths -> ProbeType] /\ probe[p] \in ProbeType /\ sock \in SockType
  BY DEF TypeOK
<1>2. UNCHANGED <<call, ctxDone, canceled, batch, main, drain, active, tried>>
  BY DEF WorkerStep, AfterStep, StartProbe, ProbeDialFails, ProbeDialled, ProbeTimeout,
         PongArrives, ProbeFails, DeliverResult, AfterFires, AfterCloses, ProbeOnly
<1>3. CASE StartProbe(p)
  BY <1>1, <1>2, <1>3 DEF StartProbe, Advances, ProbeOK, ProbeType, ProbeOnly
<1>4. CASE ProbeDialFails(p)
  BY <1>1, <1>2, <1>4 DEF ProbeDialFails, Advances, ProbeOK, ProbeType, ProbeOnly
<1>5. CASE ProbeDialled(p)
  BY <1>1, <1>2, <1>5 DEF ProbeDialled, Advances, ProbeOK, ProbeType, SockType, ProbeOnly
<1>6. CASE ProbeTimeout(p)
  BY <1>1, <1>2, <1>6 DEF ProbeTimeout, Advances, ProbeOK, ProbeType, ProbeOnly
<1>7. CASE PongArrives(p)
  <2>1. probe[p].pc = "ping" /\ results' = results /\ call' = call
    BY <1>7 DEF PongArrives, ProbeOnly
  <2>2. CASE StopClose(p)
    <3>1. PICK rtt \in RTTs :
            probe' = [probe EXCEPT ![p].pc = "result", ![p].after = Stopped(@),
                                   ![p].ok = TRUE, ![p].rtt = rtt]
      BY <1>7, <2>2 DEF PongArrives
    <3>2. sock' = sock
      BY <1>7, <2>2 DEF PongArrives
    <3>3. /\ probe' \in [Paths -> ProbeType]
          /\ \A q \in Paths \ {p} : probe'[q] = probe[q]
          /\ probe'[p].pc = "result" /\ probe'[p].after = "stopped" /\ probe'[p].ok
          /\ probe'[p].held = probe[p].held
      BY <1>1, <2>2, <3>1 DEF StopClose, Stopped, ProbeType
    <3> QED BY <1>1, <1>2, <2>1, <2>2, <3>2, <3>3 DEF StopClose, Advances, ProbeOK
  <2>3. CASE ~StopClose(p)
    <3>1. probe' = [probe EXCEPT ![p] = ProbeFailed(p)] /\ sock' = [sock EXCEPT !.probe[p] = "closed"]
      BY <1>7, <2>3 DEF PongArrives
    <3> QED BY <1>1, <1>2, <2>1, <3>1 DEF ProbeFailed, Stopped, Advances, ProbeOK, ProbeType, SockType
  <2> QED BY <2>2, <2>3
<1>8. CASE ProbeFails(p)
  BY <1>1, <1>2, <1>8 DEF ProbeFails, ProbeFailed, Stopped, Advances, ProbeOK, ProbeType, SockType, ProbeOnly
<1>9. CASE DeliverResult(p)
  BY <1>1, <1>2, <1>9 DEF DeliverResult, Advances, ProbeOK, ProbeType
<1>10. CASE AfterFires(p)
  BY <1>1, <1>2, <1>10 DEF AfterFires, Advances, ProbeOK, ProbeType, ProbeOnly
<1>11. CASE AfterCloses(p)
  BY <1>1, <1>2, <1>11 DEF AfterCloses, Advances, ProbeOK, ProbeType, SockType, ProbeOnly
<1> QED BY <1>3, <1>4, <1>5, <1>6, <1>7, <1>8, <1>9, <1>10, <1>11 DEF WorkerStep, AfterStep

LEMMA ProbesKeep ==
  ASSUME ProbingInv, NEW p \in Paths, Advances(p)
  PROVE  ProbingInv'
<1>1. /\ TypeOK /\ SetsOK /\ CallerOK /\ KindOK /\ EndOK /\ EveryPathTried
      /\ \A q \in Paths : ProbeOK(q) /\ OwnerOK(q) /\ PlaceOK(q)
  BY DEF ProbingInv
<1>2. /\ UNCHANGED <<call, ctxDone, canceled, batch, main, drain, active, tried>>
      /\ probe' \in [Paths -> ProbeType] /\ sock' \in SockType
      /\ \A q \in Paths : sock'.direct[q] = sock.direct[q]
      /\ \A q \in Paths \ {p} : probe'[q] = probe[q] /\ sock'.probe[q] = sock.probe[q]
      /\ ProbeOK(p)'
  BY DEF Advances
<1>3. p \in call.probed
  BY <1>1 DEF Advances, ProbeOK
<1>4. \/ results' = results /\ Delivered' = Delivered
      \/ results' = Append(results, p) /\ Delivered' = Delivered \cup {p}
  <2>1. CASE results' = results
    BY <2>1 DEF Delivered
  <2>2. CASE results' = Append(results, p)
    BY <1>1, <2>2, DeliveredAppend DEF TypeOK
  <2> QED BY <2>1, <2>2 DEF Advances
<1>5. results' \in Seq(Paths)
  BY <1>1, DeliveredAppend DEF Advances, TypeOK
<1>6. \A q \in Paths : probe[q].ok => /\ probe'[q].ok /\ probe'[q].held = probe[q].held
                                      /\ sock'.probe[q] = sock.probe[q]
  BY <1>2 DEF Advances
<1>7. \A q \in Paths : probe[q].pc = "sent" =>
        /\ probe'[q].pc = "sent" /\ probe'[q].held = probe[q].held /\ probe'[q].ok = probe[q].ok
  BY <1>2 DEF Advances
<1>8. \A q \in Delivered' : probe'[q].pc = "sent" /\ q \in call.probed
  BY <1>1, <1>3, <1>4, <1>7 DEF Advances, SetsOK, TypeOK
<1>9. Quiet => Quiet' /\ probe'[p].held = probe[p].held
  BY <1>1, <1>2, <1>3, <1>7 DEF Quiet, AllDelivered, Advances, TypeOK
<1>10. \A q \in Paths : probe'[q].held =>
         \/ probe[q].held
         \/ q = p /\ probe'[p].pc \in {"ping", "result"}
  <2>1. probe'[p].held => probe'[p].pc \in {"ping", "result", "sent"}
    BY <1>1, <1>2 DEF ProbeOK, ProbeType, Advances
  <2> QED BY <1>1, <1>2, <2>1 DEF Advances
<1>11. TypeOK'
  BY <1>1, <1>2, <1>5 DEF TypeOK
<1>12. SetsOK'
  BY <1>1, <1>2, <1>7, <1>8 DEF SetsOK, TypeOK
<1>13. CallerOK'
  <2>1. main.how = "probe" \/ main.how = "direct"
    BY <1>1 DEF TypeOK, MainType
  <2>2. ASSUME NEW q \in Paths, main.how = "probe" => probe[q].ok
        PROVE  sock'[main.how][q] = sock[main.how][q]
    BY <1>2, <1>6, <2>1, <2>2
  <2>3. active # None => active \in Paths
    BY <1>1 DEF TypeOK
  <2> QED BY <1>1, <1>2, <1>6, <2>2, <2>3 DEF CallerOK
<1>14. batch.pc \in {"ok", "err", "none"} /\ call.kind # "cold" => Quiet
  BY <1>1, <1>3 DEF EndOK, KindOK
<1>15. KindOK'
  BY <1>1, <1>2, <1>9, <1>10, <1>14 DEF KindOK, TypeOK
<1>16. EndOK'
  BY <1>1, <1>2, <1>9, <1>10 DEF EndOK, TypeOK
<1>17. EveryPathTried'
  BY <1>1, <1>2 DEF EveryPathTried
<1>18. ASSUME NEW q \in Paths
       PROVE  (ProbeOK(q) /\ OwnerOK(q) /\ PlaceOK(q))'
  <2>1. ProbeOK(q)'
    BY <1>1, <1>2 DEF ProbeOK
  <2>2. OwnerOK(q)'
    BY <1>1, <1>2 DEF OwnerOK, InHand, Advances
  <2>3. PlaceOK(q)'
    <3>1. probe'[q].held => (\/ probe[q].pc \in {"ping", "result"}
                             \/ q \in Delivered
                             \/ call.kind # "cold" /\ q \in batch.items
                             \/ q = p /\ probe'[p].pc \in {"ping", "result"})
      BY <1>1, <1>10 DEF PlaceOK
    <3>2. probe[q].pc \in {"ping", "result"} => probe'[q].pc \in {"ping", "result"} \/ q \in Delivered' \/ ~probe'[q].held
      BY <1>2, <1>4 DEF Advances, ProbeOK, ProbeType
    <3>3. probe'[q].pc = "sent" => probe[q].pc = "sent" \/ q \in Delivered'
      BY <1>1, <1>2, <1>4, DeliveredAppend DEF Advances, TypeOK
    <3> QED BY <1>1, <1>2, <1>4, <3>1, <3>2, <3>3 DEF PlaceOK
  <2> QED BY <2>1, <2>2, <2>3
<1> QED BY <1>11, <1>12, <1>13, <1>15, <1>16, <1>17, <1>18 DEF ProbingInv

\* What is left of probes and sockets (s) when the candidates of S are closed.
Closing(s, S) ==
  /\ probe' \in [Paths -> ProbeType] /\ sock' \in SockType
  /\ \A p \in Paths :
       /\ ProbeOK(p)'
       /\ probe'[p].held <=> probe[p].held /\ p \notin S
       /\ probe'[p].pc = probe[p].pc /\ probe'[p].ok = probe[p].ok
       /\ sock'.probe[p] = "open" => probe'[p].held \/ (~probe[p].held /\ s.probe[p] = "open")
       /\ ~probe[p].held => sock'.probe[p] = s.probe[p]
       /\ sock'.direct[p] = s.direct[p]
  /\ AllDelivered' = AllDelivered

LEMMA ClosingKeeps ==
  ASSUME ProbingInv, NEW s \in SockType, NEW S \in SUBSET Paths, call' = call,
         \A p \in S : probe[p].pc = "sent",
         \A p \in Paths : \/ s.probe[p] = sock.probe[p]
                          \/ /\ s.probe[p] = "closed" /\ ~probe[p].held
                             /\ probe[p].pc \in {"result", "sent"},
         CloseCandidates(s, S)
  PROVE  Closing(s, S)
<1>1. TypeOK /\ \A p \in Paths : ProbeOK(p)
  BY DEF ProbingInv
<1>2. /\ probe' \in [Paths -> ProbeType] /\ sock' \in SockType
      /\ \A p \in Paths :
           /\ probe'[p].held <=> probe[p].held /\ p \notin S
           /\ probe'[p].pc = probe[p].pc /\ probe'[p].ok = probe[p].ok
           /\ probe'[p].after = probe[p].after
           /\ sock'.probe[p] = IF p \in S /\ probe[p].held THEN "closed" ELSE s.probe[p]
           /\ sock'.direct[p] = s.direct[p]
  BY <1>1, ClosesCandidates DEF TypeOK
<1>3. ASSUME NEW p \in Paths
      PROVE  /\ ProbeOK(p)'
             /\ sock'.probe[p] = "open" => probe'[p].held \/ (~probe[p].held /\ s.probe[p] = "open")
             /\ ~probe[p].held => sock'.probe[p] = s.probe[p]
  <2>1. ProbeOK(p) /\ probe[p] \in ProbeType /\ probe'[p] \in ProbeType
    BY <1>1, <1>2 DEF TypeOK
  <2> QED BY <1>2, <2>1 DEF ProbeOK, ProbeType
<1>4. AllDelivered' = AllDelivered
  BY <1>1, <1>2 DEF AllDelivered, TypeOK, CallType
<1> QED BY <1>2, <1>3, <1>4 DEF Closing

\* A candidate that is not being taken over, activated or held needs no socket.
LEMMA ActiveIsKept ==
  ASSUME CallerOK, TypeOK, main' = main, active' = active,
         \A p \in Paths : /\ ~probe[p].held => sock'.probe[p] = sock.probe[p] /\ ~probe'[p].held
                          /\ sock'.direct[p] = sock.direct[p]
                          /\ probe'[p].ok = probe[p].ok
  PROVE  CallerOK'
<1>1. main.how = "probe" \/ main.how = "direct"
  BY DEF TypeOK, MainType
<1>2. ASSUME NEW q \in Paths, main.how = "probe" => ~probe[q].held
      PROVE  sock'[main.how][q] = sock[main.how][q]
  BY <1>1, <1>2
<1>3. active # None => active \in Paths
  BY DEF TypeOK
<1> QED BY <1>2, <1>3 DEF CallerOK

LEMMA BatchKeeps == ASSUME ProbingInv, BatchStep PROVE ProbingInv'
<1>1. /\ TypeOK /\ SetsOK /\ CallerOK /\ KindOK /\ EndOK /\ EveryPathTried
      /\ \A q \in Paths : ProbeOK(q) /\ OwnerOK(q) /\ PlaceOK(q)
      /\ batch.pc = "run"
  BY DEF ProbingInv, BatchStep, BatchReceives, BatchEnds
<1>2. call.kind # "cold" /\ ~main.ranked /\ (main.pc = "returned" => drain = "run")
  BY <1>1 DEF KindOK
<1>3. CASE BatchReceives
  <2>1. /\ results # <<>> /\ results' = Tail(results)
        /\ batch' = [batch EXCEPT !.items = @ \cup {Head(results)}]
        /\ UNCHANGED <<call, ctxDone, canceled, probe, sock, main, drain, active, tried>>
    BY <1>3 DEF BatchReceives
  <2>2. /\ Head(results) \in Paths /\ Head(results) \in Delivered /\ results' \in Seq(Paths)
        /\ Delivered' \subseteq Delivered /\ Delivered \subseteq Delivered' \cup {Head(results)}
    BY <1>1, <2>1, DeliveredTail DEF TypeOK
  <2>3. /\ batch' \in [pc : {"none", "run", "ok", "err"}, items : SUBSET Paths]
        /\ batch'.pc = "run" /\ batch'.items = batch.items \cup {Head(results)}
    BY <1>1, <2>1, <2>2 DEF TypeOK
  <2>4. TypeOK'
    BY <1>1, <2>1, <2>2, <2>3 DEF TypeOK
  <2>5. SetsOK'
    BY <1>1, <1>2, <2>1, <2>2, <2>3 DEF SetsOK
  <2>6. CallerOK' /\ EveryPathTried'
    BY <1>1, <2>1 DEF CallerOK, EveryPathTried
  <2>7. KindOK' /\ EndOK'
    BY <1>1, <1>2, <2>1, <2>3 DEF KindOK, EndOK
  <2>8. ASSUME NEW p \in Paths
        PROVE  (ProbeOK(p) /\ OwnerOK(p) /\ PlaceOK(p))'
    <3>1. ProbeOK(p)' /\ OwnerOK(p)'
      BY <1>1, <2>1 DEF ProbeOK, OwnerOK, InHand
    <3>2. PlaceOK(p)'
      BY <1>1, <1>2, <2>1, <2>2, <2>3 DEF PlaceOK
    <3> QED BY <3>1, <3>2
  <2> QED BY <2>4, <2>5, <2>6, <2>7, <2>8 DEF ProbingInv
<1>4. CASE BatchEnds
  <2>1. /\ results = <<>> /\ AllDelivered
        /\ UNCHANGED <<call, ctxDone, canceled, results, main, drain, active, tried>>
    BY <1>4 DEF BatchEnds
  <2>2. \A p \in Paths : probe[p].held => p \in batch.items
    BY <1>1, <2>1 DEF PlaceOK, ProbeOK, AllDelivered, Delivered
  <2>3. batch.items \subseteq Paths /\ \A p \in batch.items : probe[p].pc = "sent"
    BY <1>1 DEF TypeOK, SetsOK
  <2>4. Delivered' = Delivered
    BY <2>1 DEF Delivered
  <2>5. CASE ctxDone \/ canceled
    <3>1. batch' = [batch EXCEPT !.pc = "err"] /\ CloseCandidates(sock, batch.items)
      BY <1>4, <2>5 DEF BatchEnds
    <3>2. /\ probe' \in [Paths -> ProbeType] /\ sock' \in SockType
          /\ \A p \in Paths :
               /\ ProbeOK(p)' /\ ~probe'[p].held
               /\ probe'[p].pc = probe[p].pc /\ probe'[p].ok = probe[p].ok
               /\ sock'.probe[p] = "open" => ~probe[p].held /\ sock.probe[p] = "open"
               /\ ~probe[p].held => sock'.probe[p] = sock.probe[p]
               /\ sock'.direct[p] = sock.direct[p]
          /\ AllDelivered' = AllDelivered
      <4>1. sock \in SockType /\ batch.items \in SUBSET Paths /\ call' = call
        BY <1>1, <2>1 DEF TypeOK
      <4>2. Closing(sock, batch.items)
        BY <2>3, <3>1, <4>1, ClosingKeeps
      <4> QED BY <2>2, <4>2 DEF Closing
    <3>3. /\ batch' \in [pc : {"none", "run", "ok", "err"}, items : SUBSET Paths]
          /\ batch'.pc = "err" /\ batch'.items = batch.items
      BY <1>1, <3>1 DEF TypeOK
    <3>4. TypeOK'
      BY <1>1, <2>1, <3>2, <3>3 DEF TypeOK
    <3>5. SetsOK'
      BY <1>1, <2>1, <2>4, <3>2, <3>3 DEF SetsOK, TypeOK, CallType
    <3>6. CallerOK'
      BY <1>1, <2>1, <3>2, ActiveIsKept
    <3>7. EveryPathTried'
      BY <1>1, <2>1 DEF EveryPathTried
    <3>8. KindOK' /\ EndOK'
      BY <1>1, <1>2, <2>1, <2>5, <3>2, <3>3 DEF KindOK, EndOK, Quiet
    <3>9. ASSUME NEW p \in Paths
          PROVE  (OwnerOK(p) /\ PlaceOK(p))'
      BY <1>1, <2>1, <2>4, <3>2, <3>3 DEF OwnerOK, PlaceOK, InHand
    <3> QED BY <3>2, <3>4, <3>5, <3>6, <3>7, <3>8, <3>9 DEF ProbingInv
  <2>6. CASE ~(ctxDone \/ canceled)
    <3>1. batch' = [batch EXCEPT !.pc = "ok"] /\ UNCHANGED <<probe, sock>>
      BY <1>4, <2>6 DEF BatchEnds
    <3>2. /\ batch' \in [pc : {"none", "run", "ok", "err"}, items : SUBSET Paths]
          /\ batch'.pc = "ok" /\ batch'.items = batch.items
      BY <1>1, <3>1 DEF TypeOK
    <3>3. TypeOK' /\ SetsOK' /\ CallerOK' /\ EveryPathTried'
      <4>1. TypeOK'
        BY <1>1, <2>1, <2>4, <3>1, <3>2 DEF TypeOK
      <4>2. SetsOK'
        BY <1>1, <2>1, <2>4, <3>1, <3>2 DEF SetsOK
      <4>3. CallerOK'
        BY <1>1, <2>1, <2>4, <3>1 DEF CallerOK
      <4>4. EveryPathTried'
        BY <1>1, <2>1, <2>4, <3>1 DEF EveryPathTried
      <4> QED BY <4>1, <4>2, <4>3, <4>4
    <3>4. KindOK' /\ EndOK'
      BY <1>1, <1>2, <2>1, <3>1, <3>2 DEF KindOK, EndOK, Quiet, AllDelivered
    <3>5. ASSUME NEW p \in Paths
          PROVE  (ProbeOK(p) /\ OwnerOK(p) /\ PlaceOK(p))'
      BY <1>1, <2>1, <2>4, <3>1, <3>2 DEF ProbeOK, OwnerOK, PlaceOK, InHand
    <3> QED BY <3>3, <3>4, <3>5 DEF ProbingInv
  <2> QED BY <2>5, <2>6
<1> QED BY <1>3, <1>4 DEF BatchStep

LEMMA DrainKeeps == ASSUME ProbingInv, DrainStep PROVE ProbingInv'
<1>1. /\ TypeOK /\ SetsOK /\ CallerOK /\ KindOK /\ EndOK /\ EveryPathTried
      /\ \A q \in Paths : ProbeOK(q) /\ OwnerOK(q) /\ PlaceOK(q)
      /\ drain = "run"
  BY DEF ProbingInv, DrainStep, DrainResult, DrainEnds, DrainBatch
<1>2. main.result = "ok" /\ call.kind # "switch" /\ sock \in SockType
  BY <1>1 DEF EndOK, TypeOK
<1>3. CASE DrainResult
  <2>1. /\ call.kind = "cold" /\ results # <<>> /\ results' = Tail(results)
        /\ CloseCandidates(sock, {Head(results)})
        /\ UNCHANGED <<call, ctxDone, canceled, batch, main, drain, active, tried>>
    BY <1>3 DEF DrainResult
  <2>2. /\ Head(results) \in Paths /\ Head(results) \in Delivered /\ results' \in Seq(Paths)
        /\ Delivered' \subseteq Delivered /\ Delivered \subseteq Delivered' \cup {Head(results)}
    BY <1>1, <2>1, DeliveredTail DEF TypeOK
  <2>3. Closing(sock, {Head(results)})
    BY <1>1, <1>2, <2>1, <2>2, ClosingKeeps DEF SetsOK
  <2>4. TypeOK' /\ SetsOK'
    BY <1>1, <2>1, <2>2, <2>3 DEF TypeOK, SetsOK, Closing, CallType
  <2>5. CallerOK'
    BY <1>1, <2>1, <2>3, ActiveIsKept DEF Closing
  <2>6. EveryPathTried' /\ KindOK' /\ EndOK'
    BY <1>1, <1>2, <2>1, <2>3 DEF EveryPathTried, KindOK, EndOK, Closing, Quiet, TypeOK
  <2>7. ASSUME NEW p \in Paths
        PROVE  (ProbeOK(p) /\ OwnerOK(p) /\ PlaceOK(p))'
    BY <1>1, <1>2, <2>1, <2>2, <2>3 DEF Closing, OwnerOK, PlaceOK, InHand
  <2> QED BY <2>4, <2>5, <2>6, <2>7 DEF ProbingInv
<1>4. CASE DrainEnds
  <2>1. /\ call.kind = "cold" /\ results = <<>> /\ AllDelivered /\ drain' = "done" /\ canceled' = TRUE
        /\ UNCHANGED <<call, ctxDone, probe, sock, results, batch, main, active, tried>>
    BY <1>4 DEF DrainEnds
  <2>2. Delivered' = Delivered
    BY <2>1 DEF Delivered
  <2>3. TypeOK' /\ SetsOK' /\ CallerOK' /\ EveryPathTried'
    <3>1. TypeOK'
      BY <1>1, <2>1, <2>2 DEF TypeOK
    <3>2. SetsOK'
      BY <1>1, <2>1, <2>2 DEF SetsOK
    <3>3. CallerOK' /\ EveryPathTried'
      BY <1>1, <2>1 DEF CallerOK, EveryPathTried
    <3> QED BY <3>1, <3>2, <3>3
  <2>4. KindOK' /\ EndOK'
    BY <1>1, <2>1 DEF KindOK, EndOK, Quiet, AllDelivered
  <2>5. ASSUME NEW p \in Paths
        PROVE  (ProbeOK(p) /\ OwnerOK(p) /\ PlaceOK(p))'
    BY <1>1, <2>1, <2>2 DEF ProbeOK, OwnerOK, PlaceOK, InHand
  <2> QED BY <2>3, <2>4, <2>5 DEF ProbingInv
<1>5. CASE DrainBatch
  <2>1. /\ call.kind = "warm" /\ batch.pc \in {"ok", "err"} /\ drain' = "done"
        /\ CloseCandidates(sock, batch.items)
        /\ UNCHANGED <<call, ctxDone, canceled, results, batch, main, active, tried>>
    BY <1>5 DEF DrainBatch
  <2>2. batch.items \in SUBSET Paths /\ \A p \in batch.items : probe[p].pc = "sent"
    BY <1>1 DEF TypeOK, SetsOK
  <2>3. Closing(sock, batch.items)
    BY <1>2, <2>1, <2>2, ClosingKeeps
  <2>4. results = <<>> /\ AllDelivered /\ Delivered' = Delivered /\ Delivered = {}
    BY <1>1, <2>1 DEF EndOK, Quiet, Delivered
  <2>5. \A p \in Paths : probe[p].held => p \in batch.items
    BY <1>1, <2>4 DEF PlaceOK, ProbeOK, AllDelivered
  <2>6. TypeOK' /\ SetsOK'
    BY <1>1, <2>1, <2>3, <2>4 DEF TypeOK, SetsOK, Closing, CallType
  <2>7. CallerOK'
    BY <1>1, <2>1, <2>3, ActiveIsKept DEF Closing
  <2>8. EveryPathTried' /\ KindOK' /\ EndOK'
    BY <1>1, <1>2, <2>1, <2>3, <2>4, <2>5 DEF EveryPathTried, KindOK, EndOK, Closing, Quiet, TypeOK
  <2>9. ASSUME NEW p \in Paths
        PROVE  (ProbeOK(p) /\ OwnerOK(p) /\ PlaceOK(p))'
    BY <1>1, <1>2, <2>1, <2>3, <2>4 DEF Closing, OwnerOK, PlaceOK, InHand
  <2> QED BY <2>6, <2>7, <2>8, <2>9 DEF ProbingInv
<1> QED BY <1>3, <1>4, <1>5 DEF DrainStep

\* Whoever activates a ranked candidate, or switches, has all that is still held.
LEMMA CallerHasAll ==
  ASSUME ProbingInv, main.pc # "returned",
         main.ranked \/ (call.kind = "switch" /\ main.pc \notin {"heartbeat", "wait"})
  PROVE  /\ Quiet /\ \A p \in Paths : probe[p].held => p \in batch.items
         /\ \A p \in call.probed : p \in batch.items \cup tried
         /\ batch.pc # "run" /\ drain # "run"
         /\ call.kind = "cold" => \A p \in Paths : ~probe[p].held
<1>1. /\ TypeOK /\ SetsOK /\ CallerOK /\ KindOK /\ EndOK
      /\ \A q \in Paths : ProbeOK(q) /\ PlaceOK(q)
      /\ call.probed \subseteq Paths /\ call.kind \in {"cold", "warm", "switch"}
  BY DEF ProbingInv, TypeOK, CallType
<1>2. batch.pc # "run" /\ drain # "run" /\ main.result = ""
  <2>1. main.result = ""
    BY <1>1 DEF CallerOK
  <2> QED BY <1>1, <2>1 DEF KindOK, EndOK
<1>3. CASE Quiet
  <2>1. /\ Delivered = {} /\ \A p \in call.probed : probe[p].pc = "sent"
    BY <1>3 DEF Quiet, AllDelivered, Delivered
  <2>2. \A p \in Paths : probe[p].held => p \in call.probed
    BY <1>1 DEF ProbeOK
  <2>3. \A p \in Paths : probe[p].held => call.kind # "cold" /\ p \in batch.items
    BY <1>1, <2>1, <2>2 DEF PlaceOK
  <2>4. \A p \in call.probed : p \in batch.items \cup tried
    BY <1>1, <1>2, <2>1 DEF PlaceOK
  <2> QED BY <1>2, <1>3, <2>3, <2>4
<1>4. CASE ~Quiet
  <2>1. call.kind # "cold" /\ batch.pc = "none" /\ call.probed = {}
    BY <1>1, <1>2, <1>4 DEF KindOK, EndOK, TypeOK
  <2>2. \A p \in Paths : ~probe[p].held
    BY <1>1, <2>1 DEF ProbeOK
  <2>3. results = <<>>
    <3>1. Delivered = {}
      BY <1>1, <2>1 DEF SetsOK
    <3>2. ASSUME results # <<>> PROVE FALSE
      <4>1. results \in Seq(Paths)
        BY <1>1 DEF TypeOK
      <4>2. 1 \in DOMAIN results
        BY <3>2, <4>1
      <4> QED BY <3>1, <4>2 DEF Delivered
    <3> QED BY <3>2
  <2> QED BY <1>4, <2>1, <2>3 DEF Quiet, AllDelivered
<1> QED BY <1>3, <1>4

LEMMA ReturningKeeps ==
  ASSUME ProbingInv, main.pc # "returned",
         main.ranked \/ (call.kind = "switch" /\ main.pc \notin {"heartbeat", "wait"}),
         NEW s \in SockType, NEW result \in {"ok", "kept", "error"},
         ReturnClosing(s, result),
         \A p \in Paths : \/ s.probe[p] = sock.probe[p]
                          \/ /\ s.probe[p] = "closed" /\ ~probe[p].held
                             /\ probe[p].pc \in {"result", "sent"},
         UNCHANGED <<call, ctxDone, results, batch, drain, tried>>, canceled' = canceled,
         active' \in Paths \cup {None}, active' # None <=> result = "ok",
         \A p \in Paths : /\ s.probe[p] = "open" => probe[p].held \/ active' = p
                          /\ s.direct[p] = "open" => active' = p,
         active' # None => /\ s[main.how][active'] = "open"
                           /\ main.how = "probe" => probe[active'].ok /\ ~probe[active'].held,
         main.ranked /\ result # "ok" => main.todo = {}
  PROVE  ProbingInv'
<1>1. /\ TypeOK /\ SetsOK /\ CallerOK /\ KindOK /\ EndOK
      /\ \A q \in Paths : ProbeOK(q) /\ OwnerOK(q) /\ PlaceOK(q)
  BY DEF ProbingInv
<1>2. /\ Quiet /\ \A p \in Paths : probe[p].held => p \in batch.items
      /\ \A p \in call.probed : p \in batch.items \cup tried
      /\ batch.pc # "run" /\ drain # "run"
      /\ call.kind = "cold" => \A p \in Paths : ~probe[p].held
  BY CallerHasAll
<1>3. /\ main' = Returned(main, result) /\ CloseCandidates(s, batch.items)
  BY DEF ReturnClosing
<1>4. /\ main' \in MainType /\ main'.pc = "returned" /\ main'.result = result
      /\ main'.todo = {} /\ main'.how = main.how /\ main'.ranked = main.ranked
  BY <1>1, <1>3 DEF Returned, TypeOK, MainType
<1>5. batch.items \in SUBSET Paths /\ \A p \in batch.items : probe[p].pc = "sent"
  BY <1>1 DEF TypeOK, SetsOK
<1>6. Closing(s, batch.items)
  BY <1>3, <1>5, ClosingKeeps
<1>7. \A p \in Paths : ~probe'[p].held
  BY <1>2, <1>6 DEF Closing
<1>8. Delivered' = Delivered /\ Delivered = {} /\ Quiet'
  BY <1>2, <1>6 DEF Delivered, Quiet, Closing
<1>9. TypeOK'
  BY <1>1, <1>4, <1>6 DEF TypeOK, Closing
<1>10. main.ranked /\ result # "ok" /\ main.todo = {} => batch.items \subseteq tried
  BY <1>1 DEF SetsOK, CallerOK
<1>11. EveryPathTried'
  <2>1. SUFFICES ASSUME result = "error", call.kind # "switch"
                 PROVE  tried = call.probed \cup ({call.known} \ {None})
    BY <1>4 DEF EveryPathTried
  <2>2. main.ranked /\ call.probed \subseteq tried
    BY <1>2, <1>10, <2>1
  <2>3. call.known \in tried \cup {None}
    BY <1>1, <2>1 DEF KindOK, TypeOK, CallType
  <2> QED BY <1>1, <2>2, <2>3 DEF SetsOK
<1>12. CallerOK'
  <2>1. main.how = "probe" \/ main.how = "direct"
    BY <1>1 DEF TypeOK, MainType
  <2>2. ASSUME active' # None
        PROVE  sock'[main.how][active'] = "open" /\ (main.how = "probe" => probe'[active'].ok)
    BY <1>6, <2>1, <2>2 DEF Closing
  <2>3. result # ""
    OBVIOUS
  <2> QED BY <1>4, <1>7, <2>2, <2>3 DEF CallerOK
<1>13. KindOK' /\ EndOK'
  <2>1. main.result # "ok"
    BY <1>1 DEF CallerOK
  <2>2. KindOK'
    BY <1>1, <1>2, <1>4, <1>7, <1>8 DEF KindOK
  <2>3. EndOK'
    BY <1>1, <1>2, <1>7, <1>8, <2>1 DEF EndOK
  <2> QED BY <2>2, <2>3
<1>14. ASSUME NEW p \in Paths
       PROVE  (ProbeOK(p) /\ OwnerOK(p) /\ PlaceOK(p))'
  <2>1. PlaceOK(p)'
    <3>1. main'.result # "ok" => main.result # "ok"
      BY <1>1 DEF CallerOK
    <3> QED BY <1>1, <1>6, <1>7, <1>8, <3>1 DEF Closing, PlaceOK
  <2> QED BY <1>4, <1>6, <1>7, <2>1 DEF Closing, OwnerOK
<1>15. SetsOK'
  <2>1. main.ranked /\ result # "ok" => batch.items \subseteq main'.todo \cup tried
    BY <1>4, <1>10
  <2>2. \A p \in batch.items : p \in Paths /\ probe'[p].pc = "sent" /\ probe'[p].ok = probe[p].ok
    BY <1>5, <1>6 DEF Closing
  <2>3. UNCHANGED <<call, batch, tried>>
    OBVIOUS
  <2> QED BY <1>1, <1>4, <1>8, <2>1, <2>2, <2>3 DEF SetsOK
<1> QED BY <1>9, <1>11, <1>12, <1>13, <1>14, <1>15 DEF ProbingInv

\* A caller that goes on to another step, with no change to what it shares.
LEMMA MainMoves ==
  ASSUME ProbingInv, UNCHANGED <<call, ctxDone, probe, sock, results, batch, drain, active, tried>>,
         canceled' \in BOOLEAN, main' \in MainType,
         main'.todo \subseteq batch.items,
         main'.ranked /\ main'.result # "ok" => batch.items \subseteq main'.todo \cup tried,
         main'.result # "ok" => main.result # "ok",
         \A p \in Paths, h \in {"probe", "direct"} : InHand(p, h) => InHand(p, h)',
         CallerOK', KindOK', EndOK', EveryPathTried'
  PROVE  ProbingInv'
<1>1. /\ TypeOK /\ SetsOK /\ \A q \in Paths : ProbeOK(q) /\ OwnerOK(q) /\ PlaceOK(q)
      /\ Delivered' = Delivered
  BY DEF ProbingInv, Delivered
<1>2. TypeOK' /\ SetsOK'
  BY <1>1 DEF TypeOK, SetsOK
<1>3. ASSUME NEW p \in Paths
      PROVE  (ProbeOK(p) /\ OwnerOK(p) /\ PlaceOK(p))'
  <2>1. ProbeOK(p)' /\ PlaceOK(p)'
    BY <1>1 DEF ProbeOK, PlaceOK
  <2>2. OwnerOK(p)'
    BY <1>1 DEF OwnerOK
  <2> QED BY <2>1, <2>2
<1> QED BY <1>2, <1>3 DEF ProbingInv

\* A candidate that gives its socket away, or has it closed.
LEMMA LetGo ==
  ASSUME NEW r \in ProbeType
  PROVE  LET g == [r EXCEPT !.held = FALSE]
         IN  g \in ProbeType /\ ~g.held /\ g.pc = r.pc /\ g.ok = r.ok /\ g.after = r.after
  BY DEF ProbeType

\* A candidate is taken out of what was delivered or collected.
LEMMA TakingKeeps ==
  ASSUME ProbingInv, NEW p \in Paths, main.pc \in {"receive", "next", "choose"},
         p \in Delivered \cup batch.items, probe[p].ok,
         probe' = [probe EXCEPT ![p].held = FALSE],
         main' \in MainType, main'.pc = "hello", main'.path = p, main'.how = "probe",
         main'.ranked = main.ranked, main'.result = main.result,
         main'.todo \subseteq main.todo, main.todo \subseteq main'.todo \cup {p},
         tried' = tried \cup {p},
         results' \in Seq(Paths), Delivered' \subseteq Delivered, Delivered \subseteq Delivered' \cup {p},
         results' = results \/ ~Quiet,
         UNCHANGED <<call, ctxDone, canceled, sock, batch, drain, active>>
  PROVE  ProbingInv'
<1>1. /\ TypeOK /\ SetsOK /\ CallerOK /\ KindOK /\ EndOK
      /\ \A q \in Paths : ProbeOK(q) /\ OwnerOK(q) /\ PlaceOK(q)
  BY DEF ProbingInv
<1>2. /\ main.result = "" /\ active = None /\ main.pc # "returned"
  BY <1>1 DEF CallerOK
<1>3. /\ probe' \in [Paths -> ProbeType] /\ ~probe'[p].held
      /\ \A q \in Paths : /\ q # p => probe'[q] = probe[q]
                          /\ probe'[q].pc = probe[q].pc /\ probe'[q].ok = probe[q].ok
                          /\ probe'[q].after = probe[q].after
                          /\ probe'[q].held => probe[q].held
  <2>0. probe[p] \in ProbeType
    BY <1>1 DEF TypeOK
  <2> DEFINE g == [probe[p] EXCEPT !.held = FALSE]
  <2>1. /\ g \in ProbeType /\ ~g.held /\ g.pc = probe[p].pc /\ g.ok = probe[p].ok
        /\ g.after = probe[p].after
    BY <2>0, LetGo
  <2>2. probe' = [probe EXCEPT ![p] = g]
    OBVIOUS
  <2> HIDE DEF g
  <2>3. /\ probe' \in [Paths -> ProbeType] /\ probe'[p] = g
        /\ \A q \in Paths : q # p => probe'[q] = probe[q]
    <3>1. probe \in [Paths -> ProbeType]
      BY <1>1 DEF TypeOK
    <3>2. g \in ProbeType
      BY <2>1
    <3> QED BY <2>2, <3>1, <3>2
  <2> QED BY <2>1, <2>3
<1>4. probe[p].pc = "sent" /\ p \in call.probed
  BY <1>1 DEF SetsOK
<1>5. sock.probe[p] = "open" \/ ~probe[p].held
  BY <1>1, <1>4 DEF ProbeOK
<1>6. TypeOK'
  BY <1>1, <1>3 DEF TypeOK
<1>7. SetsOK'
  <2>1. \A q \in batch.items \cup Delivered' : q \in Paths /\ probe'[q].pc = "sent"
    BY <1>1, <1>3 DEF SetsOK, TypeOK, CallType
  <2>2. call.kind = "cold" => \A q \in batch.items : ~probe'[q].ok
    BY <1>1, <1>3, <2>1 DEF SetsOK
  <2>3. UNCHANGED <<call, batch>>
    OBVIOUS
  <2> QED BY <1>1, <1>4, <2>1, <2>2, <2>3 DEF SetsOK
<1>8. CallerOK'
  <2>1. main'.result = "" /\ active' = None
    BY <1>2
  <2>2. probe'[p].ok
    BY <1>3
  <2> QED BY <1>3, <2>1, <2>2 DEF CallerOK
<1>9. Quiet => Quiet'
  BY <1>1, <1>3 DEF Quiet, AllDelivered, TypeOK, CallType
<1>10. KindOK'
  BY <1>1, <1>2, <1>9 DEF KindOK
<1>11. EndOK'
  BY <1>1, <1>2, <1>3, <1>9 DEF EndOK
<1>12. EveryPathTried'
  BY DEF EveryPathTried
<1>13. ASSUME NEW q \in Paths
       PROVE  (ProbeOK(q) /\ OwnerOK(q) /\ PlaceOK(q))'
  <2>1. CASE q = p
    <3>1. ProbeOK(p)'
      BY <1>1, <1>3, <1>4 DEF ProbeOK
    <3>2. OwnerOK(p)'
      BY <1>1, <1>2 DEF OwnerOK, InHand
    <3>3. PlaceOK(p)'
      BY <1>3 DEF PlaceOK
    <3> QED BY <2>1, <3>1, <3>2, <3>3
  <2>2. CASE q # p
    <3>1. ProbeOK(q)'
      BY <1>1, <1>3, <2>2 DEF ProbeOK
    <3>2. OwnerOK(q)'
      BY <1>1, <1>2, <1>3, <2>2 DEF OwnerOK, InHand
    <3>3. PlaceOK(q)'
      <4>1. probe'[q] = probe[q] /\ PlaceOK(q)
        BY <1>1, <1>3, <2>2
      <4>2. q \in Delivered => q \in Delivered'
        BY <2>2
      <4>3. main'.result = main.result /\ batch' = batch /\ call' = call /\ tried \subseteq tried'
        OBVIOUS
      <4> QED BY <4>1, <4>2, <4>3 DEF PlaceOK
    <3> QED BY <3>1, <3>2, <3>3
  <2> QED BY <2>1, <2>2
<1> QED BY <1>6, <1>7, <1>8, <1>10, <1>11, <1>12, <1>13 DEF ProbingInv

LEMMA AttemptFailsKeeps ==
  ASSUME ProbingInv, main.pc \in {"dial", "hello", "commit"}, NEW s \in SockType, AttemptFails(s),
         \A p \in Paths : \/ s.probe[p] = sock.probe[p]
                          \/ /\ s.probe[p] = "closed" /\ ~probe[p].held
                             /\ probe[p].pc \in {"result", "sent"},
         \A p \in Paths : /\ s.probe[p] = "open" => probe[p].held
                          /\ s.direct[p] # "open"
  PROVE  ProbingInv'
<1>1. /\ TypeOK /\ SetsOK /\ CallerOK /\ KindOK /\ EndOK
      /\ \A q \in Paths : ProbeOK(q) /\ OwnerOK(q) /\ PlaceOK(q)
      /\ call.kind \in {"cold", "warm", "switch"}
  BY DEF ProbingInv, TypeOK, CallType
<1>2. /\ main.result = "" /\ active = None
      /\ UNCHANGED <<call, ctxDone, results, batch, drain, active, tried>>
      /\ canceled' = (canceled \/ (call.kind = "warm" /\ ~main.ranked /\ batch.pc = "none"))
      /\ Delivered' = Delivered
  <2>1. main.result = "" /\ active = None
    BY <1>1 DEF CallerOK
  <2>2. /\ UNCHANGED <<call, ctxDone, results, batch, drain, active, tried>>
        /\ canceled' = (canceled \/ (call.kind = "warm" /\ ~main.ranked /\ batch.pc = "none"))
    BY DEF AttemptFails
  <2>3. Delivered' = Delivered
    BY <2>2 DEF Delivered
  <2> QED BY <2>1, <2>2, <2>3
<1>3. CASE call.kind = "switch"
  <2>1. ~main.ranked /\ main.pc \notin {"heartbeat", "wait"}
    BY <1>1, <1>3 DEF KindOK
  <2>2. ReturnClosing(s, "error") /\ canceled' = canceled
    BY <1>1, <1>2, <1>3, <2>1 DEF AttemptFails, TypeOK
  <2> QED BY <1>1, <1>2, <1>3, <2>1, <2>2, ReturningKeeps
<1>4. CASE call.kind # "switch"
  <2>1. /\ UNCHANGED probe /\ sock' = s
        /\ \/ main.ranked /\ main' = [main EXCEPT !.pc = "next"]
           \/ ~main.ranked /\ call.kind = "cold" /\ main' = [main EXCEPT !.pc = "receive"]
           \/ /\ ~main.ranked /\ call.kind = "warm" /\ batch.pc = "none"
              /\ main' = Returned(main, "error")
           \/ /\ ~main.ranked /\ call.kind = "warm" /\ batch.pc # "none"
              /\ main' = [main EXCEPT !.pc = "wait"]
    BY <1>1, <1>4 DEF AttemptFails
  <2>2. /\ main' \in MainType /\ main'.pc \in {"next", "receive", "wait", "returned"}
        /\ main'.ranked = main.ranked /\ main'.how = main.how
        /\ main'.pc # "returned" => main'.result = "" /\ main'.todo = main.todo
        /\ main'.pc = "returned" => /\ ~main.ranked /\ call.kind = "warm" /\ batch.pc = "none"
                                    /\ main'.result = "error" /\ main'.todo = {}
        /\ main'.pc = "next" => main.ranked
        /\ main'.pc = "receive" => call.kind = "cold"
        /\ main'.pc = "wait" => call.kind = "warm" /\ ~main.ranked
    <3>1. main \in MainType
      BY <1>1 DEF TypeOK
    <3>2. CASE main.ranked /\ main' = [main EXCEPT !.pc = "next"]
      BY <1>2, <3>1, <3>2 DEF MainType
    <3>3. CASE ~main.ranked /\ call.kind = "cold" /\ main' = [main EXCEPT !.pc = "receive"]
      BY <1>2, <3>1, <3>3 DEF MainType
    <3>4. CASE /\ ~main.ranked /\ call.kind = "warm" /\ batch.pc = "none"
               /\ main' = Returned(main, "error")
      BY <3>1, <3>4 DEF Returned, MainType
    <3>5. CASE /\ ~main.ranked /\ call.kind = "warm" /\ batch.pc # "none"
               /\ main' = [main EXCEPT !.pc = "wait"]
      BY <1>2, <3>1, <3>5 DEF MainType
    <3> QED BY <2>1, <3>2, <3>3, <3>4, <3>5
  <2>3. main'.pc = "returned" => call.probed = {} /\ \A p \in Paths : ~probe[p].held
    BY <1>1, <2>2 DEF KindOK, ProbeOK
  <2>4. TypeOK' /\ SetsOK'
    BY <1>1, <1>2, <2>1, <2>2 DEF TypeOK, SetsOK
  <2>5. CallerOK'
    BY <1>2, <2>1, <2>2 DEF CallerOK
  <2>6. KindOK'
    BY <1>1, <1>2, <1>4, <2>1, <2>2, <2>3 DEF KindOK, Quiet, AllDelivered
  <2>7. EndOK'
    BY <1>1, <1>2, <2>1, <2>2 DEF EndOK, Quiet, AllDelivered, TypeOK
  <2>8. EveryPathTried'
    <3>1. SUFFICES ASSUME main'.pc = "returned" PROVE tried = call.probed \cup ({call.known} \ {None})
      BY <1>2 DEF EveryPathTried
    <3> QED BY <1>1, <2>2, <2>3, <3>1 DEF KindOK, SetsOK
  <2>9. ASSUME NEW p \in Paths
        PROVE  (ProbeOK(p) /\ OwnerOK(p) /\ PlaceOK(p))'
    <3>1. ProbeOK(p)'
      <4>1. ProbeOK(p) /\ UNCHANGED <<call, probe>> /\ sock' = s
        BY <1>1, <1>2, <2>1
      <4>2. CASE s.probe[p] = sock.probe[p]
        BY <4>1, <4>2 DEF ProbeOK
      <4>3. CASE s.probe[p] = "closed" /\ ~probe[p].held /\ probe[p].pc \in {"result", "sent"}
        BY <4>1, <4>3 DEF ProbeOK
      <4> QED BY <4>2, <4>3
    <3>2. OwnerOK(p)' /\ PlaceOK(p)'
      BY <1>1, <1>2, <2>1, <2>2 DEF OwnerOK, PlaceOK
    <3> QED BY <3>1, <3>2
  <2> QED BY <2>4, <2>5, <2>6, <2>7, <2>8, <2>9 DEF ProbingInv
<1> QED BY <1>3, <1>4

LEMMA ActivationsKeep ==
  ASSUME ProbingInv, DialDirect \/ DirectDialFails \/ HelloAccepted \/ ActivationFails \/ Activated
  PROVE  ProbingInv'
<1>1. /\ TypeOK /\ SetsOK /\ CallerOK /\ KindOK /\ EndOK
      /\ \A q \in Paths : ProbeOK(q) /\ OwnerOK(q) /\ PlaceOK(q)
      /\ call.kind \in {"cold", "warm", "switch"} /\ sock \in SockType /\ main \in MainType
  BY DEF ProbingInv, TypeOK, CallType
<1>2. /\ main.pc \in {"dial", "hello", "commit"} /\ main.path \in Paths
      /\ main.result = "" /\ active = None /\ main.how \in {"probe", "direct"}
  <2>1. main.pc \in {"dial", "hello", "commit"}
    BY DEF DialDirect, DirectDialFails, HelloAccepted, ActivationFails, Activated
  <2> QED BY <1>1, <2>1 DEF CallerOK, MainType
<1>3. CASE DialDirect
  <2>1. /\ main.pc = "dial" /\ main' = [main EXCEPT !.pc = "hello", !.how = "direct"]
        /\ sock' = [sock EXCEPT !.direct[main.path] = "open"]
        /\ UNCHANGED <<call, ctxDone, canceled, probe, results, batch, drain, active, tried>>
    BY <1>3 DEF DialDirect
  <2>2. /\ main' \in MainType /\ main'.pc = "hello" /\ main'.how = "direct" /\ main'.path = main.path
        /\ main'.ranked = main.ranked /\ main'.todo = main.todo /\ main'.result = ""
    BY <1>1, <1>2, <2>1 DEF MainType
  <2>3. /\ sock' \in SockType
        /\ \A p \in Paths : /\ sock'.probe[p] = sock.probe[p]
                            /\ p # main.path => sock'.direct[p] = sock.direct[p]
    BY <1>1, <1>2, <2>1 DEF SockType
  <2>4. Delivered' = Delivered
    BY <2>1 DEF Delivered
  <2>5. TypeOK' /\ SetsOK'
    <3>1. TypeOK'
      BY <1>1, <2>1, <2>2, <2>3, <2>4 DEF TypeOK
    <3>2. SetsOK'
      BY <1>1, <1>2, <2>1, <2>2, <2>3, <2>4 DEF SetsOK
    <3> QED BY <3>1, <3>2
  <2>6. CallerOK'
    BY <1>2, <2>1, <2>2 DEF CallerOK
  <2>7. KindOK' /\ EndOK' /\ EveryPathTried'
    BY <1>1, <1>2, <2>1, <2>2 DEF KindOK, EndOK, Quiet, AllDelivered, EveryPathTried
  <2>8. ASSUME NEW p \in Paths
        PROVE  (ProbeOK(p) /\ OwnerOK(p) /\ PlaceOK(p))'
    <3>1. ProbeOK(p)' /\ PlaceOK(p)'
      <4>1. ProbeOK(p)'
        BY <1>1, <2>1, <2>3 DEF ProbeOK
      <4>2. PlaceOK(p)'
        BY <1>1, <1>2, <2>1, <2>4 DEF PlaceOK
      <4> QED BY <4>1, <4>2
    <3>2. OwnerOK(p)'
      <4>1. OwnerOK(p) /\ ~InHand(p, "probe") /\ ~InHand(p, "direct") /\ active # p
        BY <1>1, <1>2, <2>1, NonePathAssumption DEF InHand
      <4>2. sock'.probe[p] = "open" => probe'[p].held
        BY <2>1, <2>3, <4>1 DEF OwnerOK
      <4>3. sock'.direct[p] = "open" => p = main.path
        BY <2>3, <4>1 DEF OwnerOK
      <4>4. sock'.direct[p] = "open" => InHand(p, "direct")'
        BY <2>2, <4>3 DEF InHand
      <4> QED BY <4>2, <4>4 DEF OwnerOK
    <3> QED BY <3>1, <3>2
  <2> QED BY <2>5, <2>6, <2>7, <2>8 DEF ProbingInv
<1>4. CASE DirectDialFails
  <2>1. main.pc = "dial" /\ AttemptFails(sock)
    BY <1>4 DEF DirectDialFails
  <2>2. \A p \in Paths : (sock.probe[p] = "open" => probe[p].held) /\ sock.direct[p] # "open"
    BY <1>1, <1>2, <2>1, NonePathAssumption DEF OwnerOK, InHand
  <2> QED BY <1>1, <2>1, <2>2, AttemptFailsKeeps
<1>5. CASE HelloAccepted
  <2>1. /\ main.pc = "hello" /\ main' = [main EXCEPT !.pc = "commit"]
        /\ sock[main.how][main.path] = "open"
        /\ UNCHANGED <<call, ctxDone, canceled, probe, sock, results, batch, drain, active, tried>>
    BY <1>5 DEF HelloAccepted
  <2>2. /\ main' \in MainType /\ main'.pc = "commit" /\ main'.how = main.how /\ main'.path = main.path
        /\ main'.ranked = main.ranked /\ main'.todo = main.todo /\ main'.result = ""
    BY <1>1, <1>2, <2>1 DEF MainType
  <2>3. CallerOK' /\ KindOK' /\ EndOK' /\ EveryPathTried'
    BY <1>1, <1>2, <2>1, <2>2 DEF CallerOK, KindOK, EndOK, Quiet, AllDelivered, EveryPathTried
  <2>4. \A p \in Paths, h \in {"probe", "direct"} : InHand(p, h) => InHand(p, h)'
    BY <2>2 DEF InHand
  <2>5. main'.todo \subseteq batch.items /\ (main'.ranked => batch.items \subseteq main'.todo \cup tried)
    BY <1>1, <1>2, <2>2 DEF SetsOK
  <2>6. canceled' \in BOOLEAN
    BY <1>1, <2>1 DEF TypeOK
  <2> QED BY <1>2, <2>1, <2>2, <2>3, <2>4, <2>5, <2>6, MainMoves
<1>6. CASE ActivationFails
  <2> DEFINE s == [sock EXCEPT ![main.how][main.path] = "closed"]
  <2>1. main.pc \in {"hello", "commit"} /\ AttemptFails(s)
    BY <1>6 DEF ActivationFails
  <2>2. CASE main.how = "probe"
    <3>1. /\ s \in SockType /\ s.probe[main.path] = "closed"
          /\ \A p \in Paths : /\ p # main.path => s.probe[p] = sock.probe[p]
                              /\ s.direct[p] = sock.direct[p]
      BY <1>1, <1>2, <2>2 DEF SockType
    <3>2. probe[main.path].ok /\ ~probe[main.path].held
      BY <1>1, <2>1, <2>2 DEF CallerOK
    <3>3. probe[main.path].pc \in {"result", "sent"}
      BY <1>1, <1>2, <3>2 DEF ProbeOK, TypeOK, ProbeType
    <3>4. \A p \in Paths : (s.probe[p] = "open" => probe[p].held) /\ s.direct[p] # "open"
      BY <1>1, <1>2, <2>2, <3>1, NonePathAssumption DEF OwnerOK, InHand
    <3> HIDE DEF s
    <3> QED BY <1>2, <2>1, <3>1, <3>2, <3>3, <3>4, AttemptFailsKeeps
  <2>3. CASE main.how = "direct"
    <3>1. /\ s \in SockType /\ s.direct[main.path] = "closed"
          /\ \A p \in Paths : /\ p # main.path => s.direct[p] = sock.direct[p]
                              /\ s.probe[p] = sock.probe[p]
      BY <1>1, <1>2, <2>3 DEF SockType
    <3>2. \A p \in Paths : (s.probe[p] = "open" => probe[p].held) /\ s.direct[p] # "open"
      BY <1>1, <1>2, <2>3, <3>1, NonePathAssumption DEF OwnerOK, InHand
    <3> HIDE DEF s
    <3> QED BY <1>2, <2>1, <3>1, <3>2, AttemptFailsKeeps
  <2> QED BY <1>2, <2>2, <2>3
<1>7. CASE Activated
  <2>1. /\ main.pc = "commit" /\ active' = main.path
        /\ canceled' = (canceled \/ (call.kind = "warm" /\ ~main.ranked))
        /\ drain' = IF ~main.ranked /\ (call.kind = "cold" \/ (call.kind = "warm" /\ batch.pc # "none"))
                    THEN "run" ELSE drain
        /\ UNCHANGED <<call, ctxDone, results, batch, tried>>
    BY <1>7 DEF Activated
  <2>2. /\ sock[main.how][main.path] = "open" /\ main.path # None
        /\ main.how = "probe" => probe[main.path].ok /\ ~probe[main.path].held
    BY <1>1, <1>2, <2>1, NonePathAssumption DEF CallerOK
  <2>3. CASE main.ranked \/ call.kind = "switch"
    <3>1. ReturnClosing(sock, "ok")
      BY <1>7, <2>3 DEF Activated
    <3>2. drain' = drain /\ canceled' = canceled
      BY <1>1, <2>1, <2>3 DEF TypeOK, KindOK
    <3>3. \A p \in Paths : /\ sock.probe[p] = "open" => probe[p].held \/ active' = p
                           /\ sock.direct[p] = "open" => active' = p
      BY <1>1, <1>2, <2>1, NonePathAssumption DEF OwnerOK, InHand
    <3> QED BY <1>1, <1>2, <2>1, <2>2, <2>3, <3>1, <3>2, <3>3, ReturningKeeps
  <2>4. CASE ~(main.ranked \/ call.kind = "switch")
    <3>1. main' = Returned(main, "ok") /\ UNCHANGED <<probe, sock>>
      BY <1>7, <2>4 DEF Activated
    <3>2. /\ main' \in MainType /\ main'.pc = "returned" /\ main'.how = main.how
          /\ main'.result = "ok" /\ main'.todo = {} /\ ~main'.ranked
      BY <1>1, <2>4, <3>1 DEF Returned, MainType
    <3>3. Delivered' = Delivered
      BY <2>1 DEF Delivered
    <3>4. TypeOK' /\ SetsOK'
      BY <1>1, <1>2, <2>1, <3>1, <3>2, <3>3 DEF TypeOK, SetsOK
    <3>5. CallerOK'
      BY <1>2, <2>1, <2>2, <3>1, <3>2 DEF CallerOK
    <3>6. drain' # "run" => call.kind = "warm" /\ batch.pc = "none" /\ \A p \in Paths : ~probe[p].held
      BY <1>1, <2>1, <2>4 DEF KindOK, ProbeOK
    <3>7. KindOK'
      BY <1>1, <2>1, <2>4, <3>1, <3>2, <3>6 DEF KindOK, Quiet, AllDelivered
    <3>8. EndOK'
      BY <1>1, <1>2, <2>1, <2>4, <3>1, <3>2 DEF EndOK, Quiet, AllDelivered
    <3>9. EveryPathTried'
      BY <3>2 DEF EveryPathTried
    <3>10. ASSUME NEW p \in Paths
           PROVE  (ProbeOK(p) /\ OwnerOK(p) /\ PlaceOK(p))'
      <4>1. ProbeOK(p)' /\ PlaceOK(p)'
        BY <1>1, <2>1, <3>1, <3>2, <3>3 DEF ProbeOK, PlaceOK
      <4>2. OwnerOK(p)'
        BY <1>1, <1>2, <2>1, <3>1, NonePathAssumption DEF OwnerOK, InHand
      <4> QED BY <4>1, <4>2
    <3> QED BY <3>4, <3>5, <3>7, <3>8, <3>9, <3>10 DEF ProbingInv
  <2> QED BY <2>3, <2>4
<1> QED BY <1>3, <1>4, <1>5, <1>6, <1>7

LEMMA CallersKeep ==
  ASSUME ProbingInv,
         \/ ReceiveCandidate \/ ReceiveClosed \/ BatchArrives \/ NextAttempt \/ NoneLeft
         \/ HeartbeatEnds \/ PromoteBest \/ KeepActive
  PROVE  ProbingInv'
<1>1. /\ TypeOK /\ SetsOK /\ CallerOK /\ KindOK /\ EndOK
      /\ \A q \in Paths : ProbeOK(q) /\ OwnerOK(q) /\ PlaceOK(q)
      /\ call.kind \in {"cold", "warm", "switch"} /\ sock \in SockType /\ main \in MainType
      /\ probe \in [Paths -> ProbeType] /\ batch.items \subseteq Paths /\ results \in Seq(Paths)
  BY DEF ProbingInv, TypeOK, CallType
<1>2. /\ main.pc \in {"receive", "wait", "next", "heartbeat", "choose"}
      /\ main.result = "" /\ active = None /\ drain # "run"
  <2>1. main.pc \in {"receive", "wait", "next", "heartbeat", "choose"}
    BY DEF ReceiveCandidate, ReceiveClosed, BatchArrives, NextAttempt, NoneLeft,
           HeartbeatEnds, PromoteBest, KeepActive
  <2> QED BY <1>1, <2>1 DEF CallerOK, EndOK
<1>3. \A p \in Paths : sock.direct[p] # "open" /\ (sock.probe[p] = "open" => probe[p].held)
  BY <1>1, <1>2, NonePathAssumption DEF OwnerOK, InHand
<1>4. ASSUME NEW p \in Paths, Transfer(p)
      PROVE  /\ probe' = [probe EXCEPT ![p].held = FALSE] /\ tried' = tried \cup {p}
             /\ main' \in MainType /\ main'.pc = "hello" /\ main'.path = p /\ main'.how = "probe"
             /\ main'.ranked = main.ranked /\ main'.result = main.result /\ main'.todo = main.todo
  BY <1>1, <1>4 DEF Transfer, MainType
<1>5. CASE ReceiveCandidate
  <2> DEFINE p == Head(results)
  <2>1. /\ main.pc = "receive" /\ results # <<>> /\ results' = Tail(results)
        /\ UNCHANGED <<call, ctxDone, canceled, sock, drain, active>>
        /\ IF probe[p].ok
           THEN Transfer(p) /\ UNCHANGED batch
           ELSE /\ batch' = [batch EXCEPT !.items = @ \cup {p}]
                /\ UNCHANGED <<main, probe, tried>>
    BY <1>5 DEF ReceiveCandidate
  <2>2. /\ p \in Paths /\ p \in Delivered /\ results' \in Seq(Paths)
        /\ Delivered' \subseteq Delivered /\ Delivered \subseteq Delivered' \cup {p}
    BY <1>1, <2>1, DeliveredTail
  <2>3. call.kind = "cold" /\ ~Quiet /\ ~main.ranked
    BY <1>1, <2>1 DEF KindOK, Quiet
  <2>4. probe[p].pc = "sent" /\ p \in call.probed
    BY <1>1, <2>2 DEF SetsOK
  <2> HIDE DEF p
  <2>5. CASE probe[p].ok
    BY <1>4, <2>1, <2>2, <2>3, <2>5, TakingKeeps
  <2>6. CASE ~probe[p].ok
    <3>1. /\ batch' \in [pc : {"none", "run", "ok", "err"}, items : SUBSET Paths]
          /\ batch'.pc = batch.pc /\ batch'.items = batch.items \cup {p}
      BY <1>1, <2>1, <2>2, <2>6 DEF TypeOK
    <3>2. UNCHANGED <<call, ctxDone, canceled, sock, drain, active, main, probe, tried>>
      BY <2>1, <2>6
    <3>3. TypeOK'
      BY <1>1, <2>2, <3>1, <3>2 DEF TypeOK
    <3>4. SetsOK'
      BY <1>1, <2>2, <2>3, <2>4, <2>6, <3>1, <3>2 DEF SetsOK
    <3>5. CallerOK' /\ EveryPathTried'
      BY <1>1, <2>1, <3>2 DEF CallerOK, EveryPathTried
    <3>6. KindOK' /\ EndOK'
      BY <1>1, <2>1, <2>3, <3>1, <3>2 DEF KindOK, EndOK
    <3>7. ASSUME NEW q \in Paths
          PROVE  (ProbeOK(q) /\ OwnerOK(q) /\ PlaceOK(q))'
      <4>1. ProbeOK(q)' /\ OwnerOK(q)'
        BY <1>1, <3>2 DEF ProbeOK, OwnerOK, InHand
      <4>2. ~probe[p].held
        BY <1>1, <2>2, <2>4, <2>6 DEF ProbeOK
      <4>3. PlaceOK(q)'
        BY <1>1, <2>2, <2>3, <3>1, <3>2, <4>2 DEF PlaceOK
      <4> QED BY <4>1, <4>3
    <3> QED BY <3>3, <3>4, <3>5, <3>6, <3>7 DEF ProbingInv
  <2> QED BY <2>5, <2>6
<1>6. ASSUME UNCHANGED <<call, ctxDone, probe, sock, results, batch, drain, active, tried>>
      PROVE  (Quiet <=> Quiet') /\ \A p \in Paths, h \in {"probe", "direct"} : ~InHand(p, h)
  BY <1>2, <1>6 DEF Quiet, AllDelivered, InHand
<1>7. CASE ReceiveClosed
  <2>1. /\ main.pc = "receive" /\ Quiet /\ canceled' = TRUE
        /\ main' = IF batch.items = {} THEN Returned(main, "error")
                   ELSE [main EXCEPT !.pc = "next", !.ranked = TRUE, !.todo = batch.items]
        /\ UNCHANGED <<call, ctxDone, probe, sock, results, batch, drain, active, tried>>
    BY <1>7 DEF ReceiveClosed, Quiet
  <2>2. call.kind = "cold" /\ call.known = None /\ batch.pc = "none"
    BY <1>1, <2>1 DEF KindOK
  <2>3. /\ main' \in MainType /\ main'.pc \in {"returned", "next"}
        /\ main'.pc = "returned" => /\ batch.items = {} /\ main'.result = "error" /\ main'.todo = {}
        /\ main'.pc = "next" => /\ main'.result = "" /\ main'.todo = batch.items /\ main'.ranked
    BY <1>1, <1>2, <2>1 DEF Returned, MainType
  <2>4. Quiet'
    BY <1>6, <2>1
  <2>5. CallerOK' /\ KindOK' /\ EndOK'
    BY <1>1, <1>2, <2>1, <2>2, <2>3, <2>4 DEF CallerOK, KindOK, EndOK
  <2>6. EveryPathTried'
    <3>1. Delivered = {} /\ \A p \in call.probed : p \in Paths /\ probe[p].pc = "sent"
      BY <1>1, <2>1 DEF Quiet, AllDelivered, Delivered, TypeOK, CallType
    <3>2. \A p \in call.probed : p \in batch.items \cup tried
      BY <1>1, <1>2, <3>1 DEF PlaceOK
    <3> QED BY <1>1, <2>1, <2>2, <2>3, <3>2 DEF EveryPathTried, SetsOK
  <2>7. /\ main'.todo \subseteq batch.items
        /\ main'.ranked /\ main'.result # "ok" => batch.items \subseteq main'.todo \cup tried
    BY <2>3
  <2> QED BY <1>2, <1>6, <2>1, <2>3, <2>5, <2>6, <2>7, MainMoves
<1>8. CASE BatchArrives
  <2>1. /\ main.pc = "wait" /\ batch.pc # "run" /\ canceled' = TRUE
        /\ UNCHANGED <<call, ctxDone, probe, sock, results, batch, drain, active, tried>>
        /\ \/ batch.pc = "err" /\ main' = Returned(main, "error")
           \/ /\ batch.pc # "err" /\ call.kind = "warm"
              /\ main' = [main EXCEPT !.pc = "next", !.ranked = TRUE, !.todo = batch.items]
           \/ batch.pc # "err" /\ call.kind # "warm" /\ main' = [main EXCEPT !.pc = "choose"]
    BY <1>8 DEF BatchArrives
  <2>2. call.kind # "cold"
    BY <1>1, <2>1 DEF KindOK
  <2>3. /\ main' \in MainType /\ main'.pc \in {"returned", "next", "choose"}
        /\ main'.pc = "returned" => /\ batch.pc = "err" /\ main'.result = "error" /\ main'.todo = {}
                                    /\ main'.ranked = main.ranked
        /\ main'.pc = "next" => /\ main'.result = "" /\ main'.todo = batch.items /\ main'.ranked
                                /\ call.kind = "warm"
        /\ main'.pc = "choose" => /\ main'.result = "" /\ main'.todo = main.todo
                                  /\ main'.ranked = main.ranked /\ call.kind = "switch"
    BY <1>1, <1>2, <2>1, <2>2 DEF Returned, MainType
  <2>4. \A p \in Paths : batch.pc = "err" => ~probe[p].held
    BY <1>1 DEF EndOK
  <2>5. CallerOK' /\ KindOK' /\ EndOK'
    BY <1>1, <1>2, <1>6, <2>1, <2>2, <2>3, <2>4 DEF CallerOK, KindOK, EndOK
  <2>6. EveryPathTried'
    BY <1>1, <1>2, <2>1, <2>3 DEF EveryPathTried, EndOK
  <2>7. /\ main'.todo \subseteq batch.items
        /\ main'.ranked /\ main'.result # "ok" => batch.items \subseteq main'.todo \cup tried
    BY <1>1, <1>2, <2>1, <2>3 DEF SetsOK, CallerOK
  <2> QED BY <1>2, <1>6, <2>1, <2>3, <2>5, <2>6, <2>7, MainMoves
<1>9. CASE NextAttempt
  <2>1. PICK p \in main.todo :
          LET m == [main EXCEPT !.todo = @ \ {p}, !.path = p]
          IN  /\ main' = IF probe[p].ok THEN [m EXCEPT !.pc = "hello", !.how = "probe"]
                         ELSE [m EXCEPT !.pc = "dial"]
              /\ probe' = [probe EXCEPT ![p].held = FALSE]
              /\ tried' = tried \cup {p}
    BY <1>9 DEF NextAttempt
  <2>2. /\ main.pc = "next" /\ main.ranked /\ p \in Paths /\ p \in batch.items
        /\ UNCHANGED <<call, ctxDone, canceled, sock, results, batch, drain, active>>
    BY <1>1, <1>9 DEF NextAttempt, SetsOK, CallerOK
  <2>3. /\ main' \in MainType /\ main'.path = p /\ main'.todo = main.todo \ {p}
        /\ main'.ranked = main.ranked /\ main'.result = main.result
        /\ probe[p].ok => main'.pc = "hello" /\ main'.how = "probe"
        /\ ~probe[p].ok => main'.pc = "dial"
    BY <1>1, <2>1, <2>2 DEF MainType
  <2>4. Delivered' = Delivered
    BY <2>2 DEF Delivered
  <2>5. CASE probe[p].ok
    BY <1>1, <2>1, <2>2, <2>3, <2>4, <2>5, TakingKeeps
  <2>6. CASE ~probe[p].ok
    <3>1. probe[p].pc = "sent" /\ ~probe[p].held /\ p \in call.probed
      BY <1>1, <2>2, <2>6 DEF SetsOK, ProbeOK
    <3>2. probe' = probe
      <4>1. probe[p] \in ProbeType /\ probe[p].held = FALSE
        BY <1>1, <2>2, <3>1 DEF ProbeType
      <4>2. [probe[p] EXCEPT !.held = FALSE] = probe[p]
        BY <4>1 DEF ProbeType
      <4> QED BY <1>1, <2>1, <4>2
    <3>3. call.kind # "switch"
      BY <1>1, <2>2 DEF KindOK
    <3>4. TypeOK' /\ SetsOK'
      <4>1. tried' = tried \cup {p}
        BY <2>1
      <4>2. TypeOK'
        BY <1>1, <2>2, <2>3, <3>2, <4>1 DEF TypeOK
      <4>3. main'.todo \subseteq batch.items /\ main'.todo \cup tried' = main.todo \cup tried'
        BY <1>1, <2>3, <4>1 DEF SetsOK
      <4>4. UNCHANGED <<call, batch, probe>>
        BY <2>2, <3>2
      <4>5. SetsOK'
        BY <1>1, <2>3, <2>4, <3>1, <4>1, <4>3, <4>4 DEF SetsOK
      <4> QED BY <4>2, <4>5
    <3>5. CallerOK' /\ EveryPathTried'
      BY <1>2, <2>2, <2>3, <2>6, <3>2 DEF CallerOK, EveryPathTried
    <3>6. KindOK' /\ EndOK'
      BY <1>1, <1>2, <2>1, <2>2, <2>3, <2>6, <3>2, <3>3 DEF KindOK, EndOK, Quiet, AllDelivered
    <3>7. ASSUME NEW q \in Paths
          PROVE  (ProbeOK(q) /\ OwnerOK(q) /\ PlaceOK(q))'
      <4>1. ProbeOK(q)' /\ PlaceOK(q)'
        <5>1. tried' = tried \cup {p} /\ UNCHANGED <<call, batch, probe, sock>>
          BY <2>1, <2>2, <3>2
        <5> QED BY <1>1, <1>2, <2>3, <2>4, <5>1 DEF ProbeOK, PlaceOK
      <4>2. OwnerOK(q)'
        BY <1>1, <1>2, <2>2, <3>2, NonePathAssumption DEF OwnerOK, InHand
      <4> QED BY <4>1, <4>2
    <3> QED BY <3>4, <3>5, <3>6, <3>7 DEF ProbingInv
  <2> QED BY <2>5, <2>6
<1>10. CASE NoneLeft
  <2>1. /\ main.pc = "next" /\ main.todo = {} /\ ReturnClosing(sock, "error")
        /\ UNCHANGED <<call, ctxDone, canceled, results, batch, drain, active, tried>>
    BY <1>10 DEF NoneLeft
  <2>2. main.ranked
    BY <1>1, <2>1 DEF CallerOK
  <2> QED BY <1>1, <1>2, <1>3, <2>1, <2>2, ReturningKeeps
<1>11. CASE HeartbeatEnds
  <2>1. /\ main.pc = "heartbeat" /\ main' = [main EXCEPT !.pc = "wait"]
        /\ UNCHANGED <<call, ctxDone, canceled, probe, sock, results, batch, drain, active, tried>>
    BY <1>11 DEF HeartbeatEnds
  <2>2. /\ main' \in MainType /\ main'.pc = "wait" /\ main'.result = "" /\ main'.todo = main.todo
        /\ main'.ranked = main.ranked /\ call.kind = "switch" /\ ~main.ranked
    BY <1>1, <1>2, <2>1 DEF MainType, KindOK
  <2>3. CallerOK' /\ KindOK' /\ EndOK' /\ EveryPathTried'
    BY <1>1, <1>2, <1>6, <2>1, <2>2 DEF CallerOK, KindOK, EndOK, EveryPathTried
  <2>4. main'.todo \subseteq batch.items /\ canceled' \in BOOLEAN
    BY <1>1, <2>1, <2>2 DEF SetsOK, TypeOK
  <2> QED BY <1>2, <1>6, <2>1, <2>2, <2>3, <2>4, MainMoves
<1>12. CASE PromoteBest
  <2>1. PICK p \in batch.items : probe[p].ok /\ Transfer(p)
    BY <1>12 DEF PromoteBest
  <2>2. /\ main.pc = "choose" /\ p \in Paths
        /\ UNCHANGED <<call, ctxDone, canceled, sock, results, batch, drain, active>>
    BY <1>1, <1>12 DEF PromoteBest
  <2>3. Delivered' = Delivered
    BY <2>2 DEF Delivered
  <2> QED BY <1>1, <1>4, <2>1, <2>2, <2>3, TakingKeeps
<1>13. CASE KeepActive
  <2>1. /\ main.pc = "choose" /\ ReturnClosing(sock, "kept")
        /\ UNCHANGED <<call, ctxDone, canceled, results, batch, drain, active, tried>>
    BY <1>13 DEF KeepActive
  <2>2. call.kind = "switch" /\ ~main.ranked
    BY <1>1, <2>1 DEF KindOK
  <2> QED BY <1>1, <1>2, <1>3, <2>1, <2>2, ReturningKeeps
<1> QED BY <1>5, <1>7, <1>8, <1>9, <1>10, <1>11, <1>12, <1>13

LEMMA ProbingInvariance == Spec => []ProbingInv
<1>1. Init => ProbingInv
  <2> SUFFICES ASSUME Init PROVE ProbingInv
    OBVIOUS
  <2>1. /\ batch = [pc |-> IF call.kind = "cold" \/ call.probed = {} THEN "none" ELSE "run",
                    items |-> {}]
        /\ probe = [p \in Paths |-> [pc |-> IF p \in call.probed THEN "queued" ELSE "off",
                                     late |-> FALSE, after |-> "off", held |-> FALSE,
                                     ok |-> FALSE, rtt |-> 0]]
        /\ sock = [h \in {"probe", "direct"} |-> [p \in Paths |-> "none"]]
        /\ ctxDone = FALSE /\ canceled = FALSE
        /\ results = <<>> /\ drain = "off" /\ active = None
        /\ tried = IF call.kind = "warm" THEN {call.known} ELSE {}
    BY DEF Init
  <2>2. \/ /\ call.kind = "cold" /\ call.known = None /\ call.probed \subseteq Paths
           /\ main = MainAt("receive")
        \/ /\ call.kind = "warm" /\ call.known \in Paths /\ call.probed \subseteq Paths \ {call.known}
           /\ main = [MainAt("dial") EXCEPT !.path = call.known]
        \/ /\ call.kind = "switch" /\ call.known \in Paths /\ call.probed \subseteq Paths \ {call.known}
           /\ main = MainAt("heartbeat")
    BY DEF Init, PathsExcept
  <2>3. call \in CallType /\ call.probed \subseteq Paths \ {call.known}
    <3>1. CASE \E S \in SUBSET Paths : call = [kind |-> "cold", known |-> None, probed |-> S]
      BY <3>1, NonePathAssumption DEF CallType
    <3>2. CASE \E p \in Paths : \E S \in SUBSET PathsExcept(p) :
                 call = [kind |-> "warm", known |-> p, probed |-> S]
      BY <3>2 DEF CallType, PathsExcept
    <3>3. CASE \E p \in Paths : \E S \in SUBSET PathsExcept(p) :
                 call = [kind |-> "switch", known |-> p, probed |-> S]
      BY <3>3 DEF CallType, PathsExcept
    <3> QED BY <3>1, <3>2, <3>3 DEF Init
  <2>4. /\ main \in MainType /\ main.result = "" /\ main.todo = {} /\ ~main.ranked /\ main.how = "direct"
        /\ \/ call.kind = "cold" /\ main.pc = "receive"
           \/ call.kind = "warm" /\ main.pc = "dial" /\ main.path = call.known
           \/ call.kind = "switch" /\ main.pc = "heartbeat"
    <3>1. CASE call.kind = "warm"
      BY <2>2, <3>1 DEF MainAt, MainType
    <3>2. CASE call.kind = "cold"
      <4>1. main = [pc |-> "receive", path |-> None, how |-> "direct", ranked |-> FALSE,
                    todo |-> {}, result |-> ""]
        BY <2>2, <3>2 DEF MainAt
      <4> QED BY <3>2, <4>1 DEF MainType
    <3>3. CASE call.kind = "switch"
      <4>1. main = [pc |-> "heartbeat", path |-> None, how |-> "direct", ranked |-> FALSE,
                    todo |-> {}, result |-> ""]
        BY <2>2, <3>3 DEF MainAt
      <4> QED BY <3>3, <4>1 DEF MainType
    <3> QED BY <2>2, <3>1, <3>2, <3>3
  <2>5. /\ batch \in [pc : {"none", "run", "ok", "err"}, items : SUBSET Paths]
        /\ batch.pc \in {"none", "run"} /\ batch.items = {}
        /\ batch.pc = "none" <=> call.kind = "cold" \/ call.probed = {}
    BY <2>1
  <2>6. /\ probe \in [Paths -> ProbeType]
        /\ \A p \in Paths : /\ probe[p].pc \in {"off", "queued"} /\ ~probe[p].held /\ ~probe[p].ok
                            /\ probe[p].after = "off"
                            /\ probe[p].pc = "off" <=> p \notin call.probed
    BY <2>1 DEF ProbeType
  <2>7. sock \in SockType /\ \A p \in Paths : sock.probe[p] = "none" /\ sock.direct[p] = "none"
    BY <2>1 DEF SockType
  <2>8. Delivered = {}
    BY <2>1 DEF Delivered
  <2>9. TypeOK
    <3>1. tried \subseteq Paths /\ results \in Seq(Paths)
      BY <2>1, <2>2
    <3> QED BY <2>1, <2>3, <2>4, <2>5, <2>6, <2>7, <3>1 DEF TypeOK
  <2>10. SetsOK /\ CallerOK /\ EndOK /\ EveryPathTried
    BY <2>1, <2>2, <2>4, <2>5, <2>8, NonePathAssumption DEF SetsOK, CallerOK, EndOK, EveryPathTried
  <2>11. KindOK
    BY <2>1, <2>2, <2>4, <2>5, NonePathAssumption DEF KindOK
  <2>12. ASSUME NEW p \in Paths
         PROVE  ProbeOK(p) /\ OwnerOK(p) /\ PlaceOK(p)
    BY <2>6, <2>7 DEF ProbeOK, OwnerOK, PlaceOK
  <2> QED BY <2>9, <2>10, <2>11, <2>12 DEF ProbingInv
<1>2. ASSUME ProbingInv, [Next]_vars
      PROVE  ProbingInv'
  <2>1. ASSUME NEW p \in Paths, WorkerStep(p) \/ AfterStep(p)
        PROVE  ProbingInv'
    <3>1. TypeOK /\ ProbeOK(p)
      BY <1>2 DEF ProbingInv
    <3>2. Advances(p)
      BY <2>1, <3>1, WorkersAdvance
    <3> QED BY <1>2, <3>2, ProbesKeep
  <2>2. CASE CtxEnds
    <3>1. /\ ctxDone' = TRUE
          /\ UNCHANGED <<call, canceled, probe, sock, results, batch, main, drain, active, tried>>
      BY <2>2 DEF CtxEnds
    <3>2. TypeOK' /\ CallerOK'
      <4>1. TypeOK'
        BY <1>2, <3>1 DEF ProbingInv, TypeOK
      <4>2. CallerOK'
        BY <1>2, <3>1 DEF ProbingInv, CallerOK
      <4> QED BY <4>1, <4>2
    <3>3. SetsOK'
      BY <1>2, <3>1 DEF ProbingInv, SetsOK, Delivered
    <3>4. KindOK' /\ EndOK' /\ EveryPathTried'
      BY <1>2, <3>1 DEF ProbingInv, KindOK, EndOK, EveryPathTried, Quiet, AllDelivered
    <3>5. ASSUME NEW p \in Paths
          PROVE  (ProbeOK(p) /\ OwnerOK(p) /\ PlaceOK(p))'
      BY <1>2, <3>1 DEF ProbingInv, ProbeOK, OwnerOK, PlaceOK, InHand, Delivered
    <3> QED BY <3>2, <3>3, <3>4, <3>5 DEF ProbingInv
  <2>3. CASE UNCHANGED vars
    <3>1. UNCHANGED <<call, ctxDone, canceled, probe, sock, results, batch, main, drain, active, tried>>
      BY <2>3 DEF vars
    <3>2. TypeOK' /\ CallerOK'
      <4>1. TypeOK'
        BY <1>2, <3>1 DEF ProbingInv, TypeOK
      <4>2. CallerOK'
        BY <1>2, <3>1 DEF ProbingInv, CallerOK
      <4> QED BY <4>1, <4>2
    <3>3. SetsOK'
      BY <1>2, <3>1 DEF ProbingInv, SetsOK, Delivered
    <3>4. KindOK' /\ EndOK' /\ EveryPathTried'
      BY <1>2, <3>1 DEF ProbingInv, KindOK, EndOK, EveryPathTried, Quiet, AllDelivered
    <3>5. ASSUME NEW p \in Paths
          PROVE  (ProbeOK(p) /\ OwnerOK(p) /\ PlaceOK(p))'
      BY <1>2, <3>1 DEF ProbingInv, ProbeOK, OwnerOK, PlaceOK, InHand, Delivered
    <3> QED BY <3>2, <3>3, <3>4, <3>5 DEF ProbingInv
  <2> QED BY <1>2, <2>1, <2>2, <2>3, BatchKeeps, DrainKeeps, CallersKeep, ActivationsKeep
          DEF Next, CallerStep
<1> QED BY <1>1, <1>2, PTL DEF Spec

-----------------------------------------------------------------------------
(* For any paths, priorities, number of workers and round-trip times. *)

\* Every variable of a call keeps its type.
THEOREM ProbingTyped == Spec => []TypeOK
<1>1. ProbingInv => TypeOK
  BY DEF ProbingInv
<1> QED BY <1>1, ProbingInvariance, PTL

\* A probe that is passed on as good keeps its socket: nothing that its own
\* timeout or the cancellation of its batch has started closes it.
THEOREM GoodProbesLive == Spec => []HandedOverAlive
<1>1. ProbingInv => HandedOverAlive
  <2> SUFFICES ASSUME ProbingInv, NEW p \in Paths, probe[p].ok
               PROVE  /\ probe[p].after = "stopped"
                      /\ probe[p].held => sock.probe[p] = "open"
    BY DEF HandedOverAlive
  <2>1. ProbeOK(p) /\ probe[p] \in ProbeType
    BY DEF ProbingInv, TypeOK
  <2> QED BY <2>1 DEF ProbeOK, ProbeType
<1> QED BY <1>1, ProbingInvariance, PTL

\* When a call and all it started have ended, only the activated path has an
\* open socket.
THEOREM SocketsAreClosed == Spec => []NothingLeaks
<1>1. ProbingInv => NothingLeaks
  <2> SUFFICES ASSUME ProbingInv, Quiescent, NEW p \in Paths,
                      "open" \in {sock.probe[p], sock.direct[p]}
               PROVE  active = p
    BY DEF NothingLeaks
  <2>1. ~InHand(p, "probe") /\ ~InHand(p, "direct")
    BY DEF Quiescent, InHand
  <2>2. ~probe[p].held
    <3>1. CASE call.kind = "cold"
      <4>1. Quiet /\ PlaceOK(p) /\ ProbeOK(p)
        BY <3>1 DEF ProbingInv, KindOK, Quiescent
      <4>2. p \notin Delivered /\ (p \in call.probed => probe[p].pc = "sent")
        BY <4>1 DEF Quiet, AllDelivered, Delivered
      <4> QED BY <3>1, <4>1, <4>2 DEF PlaceOK, ProbeOK
    <3>2. CASE call.kind # "cold"
      BY <3>2 DEF ProbingInv, KindOK, Quiescent
    <3> QED BY <3>1, <3>2
  <2> QED BY <2>1, <2>2 DEF ProbingInv, OwnerOK
<1> QED BY <1>1, ProbingInvariance, PTL

\* connectAny and runSwitchCycle report a success exactly when they leave an
\* active connection, whose socket nothing of theirs closes afterwards.
THEOREM OutcomesAreTrue == Spec => []OutcomeIsTrue
<1>1. ProbingInv => OutcomeIsTrue
  BY DEF ProbingInv, CallerOK, OutcomeIsTrue
<1> QED BY <1>1, ProbingInvariance, PTL

\* connectAny gives up only when every path it was given has had its attempt,
\* or its context has ended.
THEOREM PathsAreTried == Spec => []EveryPathTried
<1>1. ProbingInv => EveryPathTried
  BY DEF ProbingInv
<1> QED BY <1>1, ProbingInvariance, PTL

-----------------------------------------------------------------------------
(* switchLoop and reconnectLoop. *)

\* What EXCEPT needs to know of loop; its times are of no concern here.
LoopRecord ==
  loop = [pc |-> loop.pc, armed |-> loop.armed, left |-> loop.left,
          attempt |-> loop.attempt, sleep |-> loop.sleep]

\* switchMu is held by whoever is between hello and the end of the replay.
Serialized ==
  /\ loop.pc \in {"hello", "replay"} <=> switchMu = "loop"
  /\ cycle.pc \in {"hello", "replay"} <=> switchMu = "cycle"

\* A cycle knows no newer connection than there is; as long as its own is the
\* latest, it has looked at the cooldown no later than that has started.
SourceKnown ==
  /\ cycle.src <= link.epoch
  /\ cycle.pc # "idle" /\ link.epoch = cycle.src => cool <= cycle.cool
  /\ cycle.pc = "hello" => link.epoch = cycle.src
  /\ cycle.pc \in {"lock", "hello"} /\ ~cycle.failed => cycle.cool = 0

UpkeepInv ==
  /\ link \in LinkType /\ cycle \in CycleType /\ LoopRecord
  /\ cool \in 0..Cooldown /\ droppers \in Nat
  /\ NoLostWakeup /\ Serialized /\ SourceKnown

LEMMA AnyRouteType == AnyRoute \in Routes
  BY RoutesAssumption DEF AnyRoute

LEMMA IdleCycleType == IdleCycle \in CycleType /\ IdleCycle.pc = "idle" /\ IdleCycle.src = 1
  BY AnyRouteType, UpkeepBounds, TicksAssumption DEF IdleCycle, CycleType

LEMMA DropActiveMoves ==
  ASSUME UpkeepInv, NEW e, DropActive(e)
  PROVE  /\ link' \in LinkType /\ droppers' \in Nat
         /\ link'.epoch = link.epoch /\ link'.finished = link.finished
         /\ link'.up => link.up
         /\ link.up /\ ~link'.up => droppers' > 0
         /\ droppers > 0 => droppers' > 0
<1>1. link \in LinkType /\ droppers \in Nat
  BY DEF UpkeepInv
<1>2. CASE link.up /\ link.epoch = e
  <2>1. link' = [link EXCEPT !.up = FALSE, !.path = AnyRoute] /\ droppers' = droppers + 1
    BY <1>2 DEF DropActive
  <2>2. link' \in LinkType /\ link'.epoch = link.epoch /\ link'.finished = link.finished /\ ~link'.up
    BY <1>1, <2>1, AnyRouteType DEF LinkType
  <2>3. droppers' \in Nat /\ droppers' > 0
    BY <1>1, <2>1
  <2> QED BY <2>2, <2>3
<1>3. CASE ~(link.up /\ link.epoch = e)
  BY <1>1, <1>3 DEF DropActive
<1> QED BY <1>2, <1>3

LEMMA CommitMoves ==
  ASSUME UpkeepInv, NEW r \in Routes, Commit(r)
  PROVE  /\ link' \in LinkType /\ link'.epoch = link.epoch + 1 /\ link'.up
         /\ cool' \in 0..Cooldown
<1>1. link \in LinkType /\ link.epoch < MaxEpoch /\ link.epoch \in 1..MaxEpoch
  BY DEF UpkeepInv, Commit, LinkType
<1>2. link' = [link EXCEPT !.path = r, !.epoch = @ + 1, !.up = TRUE] /\ cool' = Cooldown
  BY DEF Commit
<1>3. link.epoch + 1 \in 1..MaxEpoch
  BY <1>1, UpkeepBounds
<1>4. link' \in LinkType /\ link'.epoch = link.epoch + 1 /\ link'.up
  BY <1>1, <1>2, <1>3 DEF LinkType
<1> QED BY <1>2, <1>4, TicksAssumption

\* A step that moves the loops between pcs without a lock, and no timer.
LEMMA LoopsMoveOn ==
  ASSUME UpkeepInv, link' \in LinkType, droppers' \in Nat, link'.epoch = link.epoch,
         UNCHANGED <<cool, switchMu>>,
         cycle' \in CycleType, LoopRecord', NoLostWakeup',
         loop'.pc \in {"hello", "replay"} <=> loop.pc \in {"hello", "replay"},
         \/ UNCHANGED cycle
         \/ cycle' = IdleCycle /\ cycle.pc \notin {"hello", "replay"}
         \/ /\ cycle'.src = cycle.src /\ cycle'.cool = cycle.cool /\ cycle.pc # "idle"
            /\ cycle.pc \notin {"hello", "replay"} /\ cycle'.pc \in {"collect", "lock"}
            /\ cycle'.pc = "lock" /\ ~cycle'.failed => cycle.cool = 0
  PROVE  UpkeepInv'
<1>1. Serialized'
  BY IdleCycleType DEF UpkeepInv, Serialized
<1>2. link.epoch \in 1..MaxEpoch /\ cycle.src \in 1..MaxEpoch
  BY DEF UpkeepInv, LinkType, CycleType
<1>3. CASE UNCHANGED cycle
  BY <1>1, <1>3 DEF UpkeepInv, SourceKnown
<1>4. CASE cycle' = IdleCycle
  <2>1. cycle'.src <= link'.epoch
    BY <1>2, <1>4, IdleCycleType, UpkeepBounds
  <2>2. SourceKnown'
    BY <1>4, <2>1, IdleCycleType DEF SourceKnown
  <2> QED BY <1>1, <2>2 DEF UpkeepInv
<1>5. CASE /\ cycle'.src = cycle.src /\ cycle'.cool = cycle.cool /\ cycle.pc # "idle"
           /\ cycle'.pc \in {"collect", "lock"}
           /\ cycle'.pc = "lock" /\ ~cycle'.failed => cycle.cool = 0
  <2>1. SourceKnown'
    BY <1>5 DEF UpkeepInv, SourceKnown
  <2> QED BY <1>1, <2>1 DEF UpkeepInv
<1> QED BY <1>3, <1>4, <1>5

LEMMA LoopStepKeeps ==
  ASSUME UpkeepInv, LoopStep \/ LoopHelloEnds
  PROVE  UpkeepInv'
<1>1. /\ link \in LinkType /\ cycle \in CycleType /\ droppers \in Nat /\ cool \in 0..Cooldown
      /\ LoopRecord /\ NoLostWakeup /\ Serialized /\ SourceKnown
  BY DEF UpkeepInv
<1>2. ASSUME LoopRecord', loop.pc \notin {"hello", "replay"}, loop'.pc \notin {"hello", "replay"},
             loop'.pc # "wait", UNCHANGED <<link, cool, droppers, switchMu, stats, cycle>>
      PROVE  UpkeepInv'
  BY <1>1, <1>2, LoopsMoveOn DEF NoLostWakeup
<1>3. CASE LoopLooks
  <2>1. CASE link.up
    <3>1. loop' = [UpAgain EXCEPT !.pc = "wait"] /\ loop.pc = "look" /\ LoopOnly
      BY <1>3, <2>1 DEF LoopLooks
    <3>2. LoopRecord' /\ loop'.pc = "wait"
      BY <1>1, <3>1 DEF LoopRecord, UpAgain
    <3> QED BY <1>1, <2>1, <3>1, <3>2, LoopsMoveOn DEF LoopOnly, NoLostWakeup
  <2>2. CASE ~link.up
    <3>1. /\ loop' = [loop EXCEPT !.pc = "decide", !.armed = TRUE,
                                  !.left = IF loop.armed THEN @ ELSE ResumeTimeout]
          /\ loop.pc = "look" /\ LoopOnly
      BY <1>3, <2>2 DEF LoopLooks
    <3>2. LoopRecord' /\ loop'.pc = "decide"
      BY <1>1, <3>1 DEF LoopRecord
    <3> QED BY <1>2, <3>1, <3>2 DEF LoopOnly
  <2> QED BY <2>1, <2>2
<1>4. CASE LoopWakes
  BY <1>1, <1>2, <1>4 DEF LoopWakes, LoopRecord
<1>5. CASE LoopDecides
  <2>1. PICK delay \in Delays :
          loop' = [loop EXCEPT !.sleep = delay, !.pc = IF delay = 0 THEN "check" ELSE "backoff"]
    BY <1>5 DEF LoopDecides
  <2>2. LoopRecord' /\ loop'.pc \in {"check", "backoff"} /\ loop.pc = "decide" /\ LoopOnly
    BY <1>1, <1>5, <2>1 DEF LoopRecord, LoopDecides
  <2> QED BY <1>2, <2>2 DEF LoopOnly
<1>6. CASE BackoffEnds
  BY <1>1, <1>2, <1>6 DEF BackoffEnds, LoopOnly, LoopRecord
<1>7. CASE BackoffInterrupted
  BY <1>1, <1>2, <1>7 DEF BackoffInterrupted, LoopRecord
<1>8. CASE LoopAttempts
  BY <1>1, <1>2, <1>8 DEF LoopAttempts, LoopOnly, LoopRecord
<1>9. CASE LoopGivesUp
  <2>1. /\ link' = [link EXCEPT !.up = FALSE, !.path = AnyRoute, !.finished = TRUE]
        /\ loop' = [loop EXCEPT !.pc = "stopped"] /\ loop.pc \in {"decide", "check"}
        /\ UNCHANGED <<cool, wake, droppers, switchMu, stats, cycle>>
    BY <1>9 DEF LoopGivesUp
  <2>2. link' \in LinkType /\ link'.epoch = link.epoch
    BY <1>1, <2>1, AnyRouteType DEF LinkType
  <2>3. LoopRecord' /\ loop'.pc = "stopped"
    BY <1>1, <2>1 DEF LoopRecord
  <2> QED BY <1>1, <2>1, <2>2, <2>3, LoopsMoveOn DEF NoLostWakeup
<1>10. ASSUME LoopRecord', loop'.pc # "wait", UNCHANGED <<cool, cycle>>,
              link' \in LinkType, link'.epoch = link.epoch, droppers' \in Nat,
              \/ /\ switchMu = "free" /\ switchMu' = "loop"
                 /\ loop.pc \notin {"hello", "replay"} /\ loop'.pc = "hello"
              \/ /\ switchMu' = "free" /\ loop.pc \in {"hello", "replay"}
                 /\ loop'.pc \in {"lock", "look"}
       PROVE  UpkeepInv'
  BY <1>1, <1>10 DEF UpkeepInv, NoLostWakeup, Serialized, SourceKnown
<1>11. CASE LoopLocks
  BY <1>1, <1>10, <1>11 DEF LoopLocks, LoopRecord
<1>12. ASSUME TryFails
       PROVE  LoopRecord' /\ loop'.pc \in {"lock", "look"} /\ switchMu' = "free"
  BY <1>1, <1>12 DEF TryFails, LoopRecord
<1>13. CASE LoopTryFails
  BY <1>1, <1>10, <1>12, <1>13 DEF LoopTryFails
<1>14. CASE LoopReplayFails
  <2>1. /\ link' \in LinkType /\ droppers' \in Nat /\ link'.epoch = link.epoch
    BY <1>14, DropActiveMoves DEF LoopReplayFails
  <2> QED BY <1>10, <1>12, <1>14, <2>1 DEF LoopReplayFails
<1>15. CASE LoopSucceeds
  BY <1>1, <1>10, <1>15 DEF LoopSucceeds, UpAgain, LoopRecord
<1>16. CASE LoopAccepted
  <2>1. PICK r \in Routes : Commit(r)
    BY <1>16 DEF LoopAccepted
  <2>2. /\ link' \in LinkType /\ link'.epoch = link.epoch + 1 /\ link'.up /\ cool' \in 0..Cooldown
    BY <2>1, CommitMoves
  <2>3. LoopRecord' /\ loop'.pc = "replay"
    BY <1>1, <1>16 DEF LoopAccepted, LoopRecord
  <2>4. loop.pc = "hello" /\ UNCHANGED <<wake, droppers, switchMu, cycle>>
    BY <1>16 DEF LoopAccepted
  <2>5. Serialized' /\ cycle.pc # "hello"
    BY <1>1, <2>3, <2>4 DEF Serialized
  <2>6. SourceKnown'
    <3>1. cycle.src < link'.epoch /\ cycle.src # link'.epoch /\ cycle.src <= link'.epoch
      <4>1. cycle.src \in Nat /\ link.epoch \in Nat /\ cycle.src <= link.epoch
        BY <1>1 DEF CycleType, LinkType, SourceKnown
      <4> QED BY <2>2, <4>1
    <3> QED BY <1>1, <2>4, <2>5, <3>1 DEF SourceKnown
  <2> QED BY <1>1, <2>2, <2>3, <2>4, <2>5, <2>6 DEF UpkeepInv, NoLostWakeup
<1> QED BY <1>3, <1>4, <1>5, <1>6, <1>7, <1>8, <1>9, <1>11, <1>13, <1>14, <1>15, <1>16
        DEF LoopStep, LoopHelloEnds

LEMMA CycleStepKeeps ==
  ASSUME UpkeepInv, StartCycle \/ CycleStep \/ CycleHelloEnds
  PROVE  UpkeepInv'
<1>1. /\ link \in LinkType /\ cycle \in CycleType /\ droppers \in Nat /\ cool \in 0..Cooldown
      /\ LoopRecord /\ NoLostWakeup /\ Serialized /\ SourceKnown
      /\ link.epoch \in 1..MaxEpoch /\ cycle.src \in 1..MaxEpoch /\ MaxEpoch \in Nat
  BY UpkeepBounds DEF UpkeepInv, LinkType, CycleType
<1>2. CASE StartCycle
  <2>1. /\ cycle' = [cycle EXCEPT !.pc = "heartbeat", !.src = link.epoch, !.path = link.path, !.cool = cool]
        /\ cycle.pc = "idle" /\ UNCHANGED <<link, cool, wake, droppers, switchMu, stats, loop>>
    BY <1>2 DEF StartCycle
  <2>2. cycle' \in CycleType /\ cycle'.pc = "heartbeat" /\ cycle'.src = link.epoch /\ cycle'.cool = cool
    BY <1>1, <2>1 DEF CycleType, LinkType
  <2> QED BY <1>1, <2>1, <2>2 DEF UpkeepInv, LoopRecord, NoLostWakeup, Serialized, SourceKnown
<1>3. CASE HeartbeatSendFails
  <2>1. /\ DropActive(cycle.src) /\ cycle' = [cycle EXCEPT !.pc = "collect"] /\ cycle.pc = "heartbeat"
        /\ UNCHANGED <<cool, wake, switchMu, stats, loop>>
    BY <1>3 DEF HeartbeatSendFails
  <2>2. /\ cycle' \in CycleType /\ cycle'.pc = "collect" /\ cycle'.src = cycle.src
        /\ cycle'.cool = cycle.cool
    BY <1>1, <2>1 DEF CycleType
  <2>3. NoLostWakeup' /\ LoopRecord'
    BY <1>1, <2>1, DropActiveMoves DEF NoLostWakeup, LoopRecord
  <2> QED BY <1>1, <2>1, <2>2, <2>3, DropActiveMoves, LoopsMoveOn
<1>4. CASE CycleDecides
  <2>1. PICK times \in [Routes -> RoundTrips \cup {Missed}] :
          LET failed == Observed(times)[cycle.path].fail >= FailureThreshold
          IN  /\ cycle.pc = "collect" => times[cycle.path] = Missed
              /\ stats' = Observed(times)
              /\ \/ /\ Eligible(times) = {}
                    /\ cycle' = IdleCycle
                    /\ IF failed THEN DropActive(cycle.src) ELSE UNCHANGED <<link, droppers>>
                 \/ \E r \in Routes :
                      /\ IsBest(r, times)
                      /\ cycle' = IF failed \/ (times[cycle.path] # Missed /\ ShouldLatencySwitch(r, times))
                                  THEN [cycle EXCEPT !.pc = "lock", !.best = r, !.failed = failed]
                                  ELSE IdleCycle
                      /\ UNCHANGED <<link, droppers>>
    BY <1>4 DEF CycleDecides, GiveUp
  <2> DEFINE failed == Observed(times)[cycle.path].fail >= FailureThreshold
  <2>2. cycle.pc \in {"heartbeat", "collect"} /\ UNCHANGED <<cool, wake, switchMu, loop>>
    BY <1>4 DEF CycleDecides
  <2>3. LoopRecord'
    BY <1>1, <2>2 DEF LoopRecord
  <2>4. ASSUME UNCHANGED <<link, droppers>> \/ DropActive(cycle.src)
        PROVE  /\ link' \in LinkType /\ link'.epoch = link.epoch /\ droppers' \in Nat /\ NoLostWakeup'
    BY <1>1, <2>2, <2>4, DropActiveMoves DEF NoLostWakeup
  <2>5. CASE cycle' = IdleCycle
    BY <1>1, <2>1, <2>2, <2>3, <2>4, <2>5, IdleCycleType, LoopsMoveOn
  <2>6. CASE cycle' # IdleCycle
    <3>1. PICK r \in Routes :
            /\ failed \/ ShouldLatencySwitch(r, times)
            /\ cycle' = [cycle EXCEPT !.pc = "lock", !.best = r, !.failed = failed]
      BY <2>1, <2>6
    <3>2. UNCHANGED <<link, droppers>>
      BY <2>1, <2>6
    <3>3. failed \in BOOLEAN
      OBVIOUS
    <3>4. failed \/ cycle.cool = 0
      BY <3>1 DEF ShouldLatencySwitch
    <3> HIDE DEF failed
    <3>5. /\ cycle' \in CycleType /\ cycle'.pc = "lock" /\ cycle'.src = cycle.src
          /\ cycle'.cool = cycle.cool /\ cycle'.failed = failed
      BY <1>1, <3>1, <3>3 DEF CycleType
    <3> QED BY <1>1, <2>2, <2>3, <2>4, <3>2, <3>4, <3>5, LoopsMoveOn
  <2> QED BY <2>5, <2>6
<1>5. CASE CycleLocks
  <2>1. /\ cycle.pc = "lock" /\ switchMu = "free"
        /\ UNCHANGED <<link, cool, wake, droppers, stats, loop>>
    BY <1>5 DEF CycleLocks
  <2>2. LoopRecord' /\ NoLostWakeup'
    BY <1>1, <2>1 DEF LoopRecord, NoLostWakeup
  <2>3. CASE CandidateSourceIsCurrent
    <3>1. cycle' = [cycle EXCEPT !.pc = "hello"] /\ switchMu' = "cycle" /\ link.epoch = cycle.src
      BY <1>5, <2>3 DEF CycleLocks, CandidateSourceIsCurrent
    <3>2. /\ cycle' \in CycleType /\ cycle'.pc = "hello" /\ cycle'.src = cycle.src
          /\ cycle'.cool = cycle.cool /\ cycle'.failed = cycle.failed
      BY <1>1, <3>1 DEF CycleType
    <3>3. Serialized' /\ SourceKnown'
      BY <1>1, <2>1, <3>1, <3>2 DEF Serialized, SourceKnown
    <3> QED BY <1>1, <2>1, <2>2, <3>2, <3>3 DEF UpkeepInv
  <2>4. CASE ~CandidateSourceIsCurrent
    BY <1>1, <1>5, <2>1, <2>2, <2>4, IdleCycleType, LoopsMoveOn DEF CycleLocks
  <2> QED BY <2>3, <2>4
<1>6. ASSUME cycle.pc \in {"hello", "replay"}, cycle' = IdleCycle, switchMu' = "free",
             UNCHANGED <<cool, loop>>, link' \in LinkType, link'.epoch = link.epoch,
             droppers' \in Nat, NoLostWakeup'
      PROVE  UpkeepInv'
  <2>1. LoopRecord'
    BY <1>1, <1>6 DEF LoopRecord
  <2>2. Serialized'
    BY <1>1, <1>6, IdleCycleType DEF Serialized
  <2>3. cycle'.src <= link'.epoch /\ cycle'.pc = "idle"
    BY <1>1, <1>6, IdleCycleType
  <2>4. SourceKnown'
    BY <2>3 DEF SourceKnown
  <2> QED BY <1>1, <1>6, <2>1, <2>2, <2>4, IdleCycleType DEF UpkeepInv
<1>7. CASE CycleHelloFails
  BY <1>1, <1>6, <1>7 DEF CycleHelloFails, NoLostWakeup
<1>8. CASE CycleReplays
  <2>1. /\ DropActive(link.epoch) \/ UNCHANGED <<link, droppers>>
        /\ cycle.pc = "replay" /\ cycle' = IdleCycle /\ switchMu' = "free"
        /\ UNCHANGED <<cool, wake, loop>>
    BY <1>8 DEF CycleReplays
  <2>2. /\ link' \in LinkType /\ link'.epoch = link.epoch /\ droppers' \in Nat /\ NoLostWakeup'
    BY <1>1, <2>1, DropActiveMoves DEF NoLostWakeup
  <2> QED BY <1>6, <2>1, <2>2
<1>9. CASE CycleAccepted
  <2>1. /\ cycle.pc = "hello" /\ Commit(cycle.best) /\ cycle' = [cycle EXCEPT !.pc = "replay"]
        /\ UNCHANGED <<wake, droppers, switchMu, loop>>
    BY <1>9 DEF CycleAccepted
  <2>2. cycle.best \in Routes
    BY <1>1 DEF CycleType
  <2>3. /\ link' \in LinkType /\ link'.epoch = link.epoch + 1 /\ link'.up /\ cool' \in 0..Cooldown
    BY <2>1, <2>2, CommitMoves
  <2>4. cycle' \in CycleType /\ cycle'.pc = "replay" /\ cycle'.src = cycle.src
    BY <1>1, <2>1 DEF CycleType
  <2>5. cycle'.src <= link'.epoch /\ cycle'.src # link'.epoch
    BY <1>1, <2>1, <2>3, <2>4 DEF SourceKnown
  <2>6. SourceKnown' /\ Serialized' /\ LoopRecord' /\ NoLostWakeup'
    BY <1>1, <2>1, <2>3, <2>4, <2>5 DEF SourceKnown, Serialized, LoopRecord, NoLostWakeup
  <2> QED BY <1>1, <2>1, <2>3, <2>4, <2>6 DEF UpkeepInv
<1> QED BY <1>2, <1>3, <1>4, <1>5, <1>7, <1>8, <1>9 DEF CycleStep, CycleHelloEnds

LEMMA UpkeepInvariance == UpkeepSpec => []UpkeepInv
<1>1. UpkeepInit => UpkeepInv
  <2> SUFFICES ASSUME UpkeepInit PROVE UpkeepInv
    OBVIOUS
  <2>1. PICK r \in Routes : link = [path |-> r, epoch |-> 1, up |-> TRUE, finished |-> FALSE]
    BY DEF UpkeepInit
  <2>2. link \in LinkType /\ link.epoch = 1 /\ link.up
    BY <2>1, UpkeepBounds DEF LinkType
  <2>3. LoopRecord /\ loop.pc = "look" /\ cycle = IdleCycle /\ cool \in 0..Cooldown
        /\ droppers \in Nat /\ switchMu = "free"
    BY TicksAssumption DEF UpkeepInit, LoopRecord
  <2>4. Serialized /\ SourceKnown /\ NoLostWakeup
    BY <2>2, <2>3, IdleCycleType DEF Serialized, SourceKnown, NoLostWakeup
  <2> QED BY <2>2, <2>3, <2>4, IdleCycleType DEF UpkeepInv
<1>2. ASSUME UpkeepInv, [UpkeepNext]_upkeepVars
      PROVE  UpkeepInv'
  <2> USE <1>2
  <2>1. /\ link \in LinkType /\ cycle \in CycleType /\ droppers \in Nat /\ cool \in 0..Cooldown
        /\ LoopRecord /\ NoLostWakeup /\ Serialized /\ SourceKnown
    BY DEF UpkeepInv
  <2>2. CASE ConnectionFails
    <3>1. /\ link.up /\ DropActive(link.epoch)
          /\ UNCHANGED <<cool, wake, switchMu, stats, cycle, loop>>
      BY <2>2 DEF ConnectionFails
    <3>2. NoLostWakeup' /\ LoopRecord'
      BY <2>1, <3>1, DropActiveMoves DEF NoLostWakeup, LoopRecord
    <3> QED BY <2>1, <3>1, <3>2, DropActiveMoves, LoopsMoveOn
  <2>3. CASE SignalReconnect
    <3>1. /\ droppers > 0 /\ droppers' = droppers - 1 /\ wake' = TRUE
          /\ UNCHANGED <<link, cool, switchMu, stats, cycle, loop>>
      BY <2>3 DEF SignalReconnect
    <3>2. NoLostWakeup' /\ LoopRecord' /\ droppers' \in Nat
      BY <2>1, <3>1 DEF NoLostWakeup, LoopRecord
    <3> QED BY <2>1, <3>1, <3>2, LoopsMoveOn
  <2>4. CASE StartCycle \/ CycleStep \/ CycleHelloEnds
    BY <2>4, CycleStepKeeps
  <2>5. CASE LoopStep \/ LoopHelloEnds
    BY <2>5, LoopStepKeeps
  <2>6. CASE UpkeepTick
    <3>1. /\ cool' = Less(cool) /\ cycle' = [cycle EXCEPT !.cool = Less(@)]
          /\ loop' = [loop EXCEPT !.left = Less(@), !.sleep = Less(@)]
          /\ UNCHANGED <<link, wake, droppers, switchMu, stats>>
      BY <2>6 DEF UpkeepTick
    <3>2. cool' \in 0..Cooldown /\ cycle.cool \in 0..Cooldown /\ Less(cycle.cool) \in 0..Cooldown
      BY <2>1, <3>1, TicksAssumption DEF Less, CycleType
    <3>3. /\ cycle' \in CycleType /\ cycle'.pc = cycle.pc /\ cycle'.src = cycle.src
          /\ cycle'.failed = cycle.failed /\ cycle'.cool = Less(cycle.cool)
      BY <2>1, <3>1, <3>2 DEF CycleType
    <3>4. /\ cool <= cycle.cool => cool' <= cycle'.cool
          /\ cycle.cool = 0 => cycle'.cool = 0
      BY <2>1, <3>1, <3>2, <3>3 DEF Less
    <3>5. LoopRecord' /\ loop'.pc = loop.pc
      BY <2>1, <3>1 DEF LoopRecord
    <3> QED BY <2>1, <3>1, <3>2, <3>3, <3>4, <3>5
            DEF UpkeepInv, Serialized, SourceKnown, NoLostWakeup
  <2>7. CASE UNCHANGED upkeepVars
    BY <2>7 DEF upkeepVars, UpkeepInv, LoopRecord, Serialized, SourceKnown, NoLostWakeup
  <2> QED BY <2>2, <2>3, <2>4, <2>5, <2>6, <2>7 DEF UpkeepNext
<1> QED BY <1>1, <1>2, PTL DEF UpkeepSpec

-----------------------------------------------------------------------------

\* For any paths, thresholds, cooldowns and timeouts: while reconnectLoop sleeps
\* on its signal and the connection is lost, the signal is there or on its way.
THEOREM WakeupsAreKept == UpkeepSpec => []NoLostWakeup
<1>1. UpkeepInv => NoLostWakeup
  BY DEF UpkeepInv
<1> QED BY <1>1, UpkeepInvariance, PTL

\* A switch replaces the connection that its cycle has measured, and no sooner
\* than switch_cooldown after the last activation unless that connection failed.
THEOREM SwitchesReplaceSources == UpkeepSpec => SwitchesReplaceTheirSource
<1>1. UpkeepInv =>
        [cycle.pc = "hello" /\ cycle'.pc = "replay" =>
           link.epoch = cycle.src /\ (cycle.failed \/ cool = 0)]_upkeepVars
  <2> SUFFICES ASSUME UpkeepInv, cycle.pc = "hello"
               PROVE  link.epoch = cycle.src /\ (cycle.failed \/ cool = 0)
    OBVIOUS
  <2>1. cool \in 0..Cooldown /\ SourceKnown
    BY DEF UpkeepInv
  <2> QED BY <2>1, TicksAssumption DEF SourceKnown
<1> QED BY <1>1, UpkeepInvariance, PTL DEF SwitchesReplaceTheirSource

-----------------------------------------------------------------------------
(* retryCap is a recursive function: its values are found by induction. *)

\* One step of retryCap, from the cap before it.
NextCap(n, before) ==
  IF n = 1 THEN RetryBase
  ELSE IF before >= RetryMax THEN before
  ELSE IF before > RetryMax \div 2 THEN RetryMax
  ELSE 2 * before

LEMMA NextCapBounded ==
  ASSUME NEW n \in Nat \ {0}, NEW before, n # 1 => before \in RetryBase..RetryMax
  PROVE  NextCap(n, before) \in RetryBase..RetryMax
<1>1. RetryBase \in Nat /\ RetryMax \in Nat /\ RetryBase <= RetryMax
  BY TicksAssumption
<1>2. CASE n = 1
  BY <1>1, <1>2 DEF NextCap
<1>3. CASE n # 1
  <2>1. before \in Nat /\ RetryBase <= before /\ before <= RetryMax
    BY <1>1, <1>3
  <2>2. before <= RetryMax \div 2 => 2 * before <= RetryMax
    BY <1>1, <2>1
  <2> QED BY <1>1, <1>3, <2>1, <2>2 DEF NextCap
<1> QED BY <1>2, <1>3

Caps(m, f) ==
  /\ f = [n \in 1..m |-> NextCap(n, f[n - 1])]
  /\ \A n \in 1..m : f[n] \in RetryBase..RetryMax

LEMMA CapsExist == \A m \in Nat : \E f : Caps(m, f)
<1> DEFINE S == {m \in Nat : \E f : Caps(m, f)}
<1>1. 0 \in S
  <2> DEFINE f == [n \in 1..0 |-> 0]
  <2>1. f = [n \in 1..0 |-> NextCap(n, f[n - 1])]
    OBVIOUS
  <2>2. Caps(0, f)
    BY <2>1 DEF Caps
  <2> QED BY <2>2
<1>2. ASSUME NEW m \in S PROVE m + 1 \in S
  <2>1. m \in Nat /\ m + 1 \in Nat
    OBVIOUS
  <2>2. PICK f : Caps(m, f)
    OBVIOUS
  <2> DEFINE g == [n \in 1..(m + 1) |-> NextCap(n, f[n - 1])]
  <2>3. \A n \in 1..m : g[n] = f[n]
    <3>1. \A n \in 1..m : f[n] = NextCap(n, f[n - 1])
      <4>1. f = [n \in 1..m |-> NextCap(n, f[n - 1])]
        BY <2>2 DEF Caps
      <4> QED BY <4>1
    <3>2. \A n \in 1..m : n \in 1..(m + 1)
      BY <2>1
    <3> QED BY <3>1, <3>2
  <2>4. ASSUME NEW n \in 1..(m + 1)
        PROVE  NextCap(n, f[n - 1]) = NextCap(n, g[n - 1])
    <3>1. CASE n = 1
      BY <3>1 DEF NextCap
    <3>2. CASE n # 1
      <4>1. n - 1 \in 1..m
        BY <2>1, <3>2
      <4> QED BY <2>3, <4>1
    <3> QED BY <3>1, <3>2
  <2>5. g = [n \in 1..(m + 1) |-> NextCap(n, g[n - 1])]
    BY <2>4
  <2>6. ASSUME NEW n \in 1..(m + 1)
        PROVE  g[n] \in RetryBase..RetryMax
    <3>1. n # 1 => f[n - 1] \in RetryBase..RetryMax
      BY <2>1, <2>2 DEF Caps
    <3> QED BY <2>1, <3>1, NextCapBounded
  <2> HIDE DEF g
  <2>7. Caps(m + 1, g)
    BY <2>5, <2>6 DEF Caps
  <2> QED BY <2>1, <2>7
<1> HIDE DEF S
<1>3. S = Nat
  <2>1. S \in SUBSET Nat
    BY DEF S
  <2> QED BY <1>1, <1>2, <2>1, InductiveSet
<1> QED BY <1>3 DEF S

\* retryCap never exceeds retryMaxDelay, and is never less than retryBaseDelay.
THEOREM RetryCapBounded ==
  \A attempt \in 1..MaxAttempt : RetryCap(attempt) \in RetryBase..RetryMax
<1> DEFINE Eq(f) == f = [n \in 1..MaxAttempt |-> NextCap(n, f[n - 1])]
           cap   == CHOOSE f : Eq(f)
<1>1. \E f : Eq(f)
  BY CapsExist, UpkeepBounds DEF Caps
<1>2. Eq(cap)
  BY <1>1
<1>3. \A attempt : RetryCap(attempt) = cap[attempt]
  BY DEF RetryCap, NextCap
<1> HIDE DEF cap
<1> DEFINE S == {n \in Nat : n \in 1..MaxAttempt => cap[n] \in RetryBase..RetryMax}
<1>4. 0 \in S
  OBVIOUS
<1>5. ASSUME NEW n \in S PROVE n + 1 \in S
  <2>1. SUFFICES ASSUME n + 1 \in 1..MaxAttempt PROVE cap[n + 1] \in RetryBase..RetryMax
    OBVIOUS
  <2>2. cap[n + 1] = NextCap(n + 1, cap[n]) /\ n \in Nat
    <3>1. \A k \in 1..MaxAttempt : cap[k] = NextCap(k, cap[k - 1])
      BY <1>2
    <3>2. n \in Nat /\ (n + 1) - 1 = n
      OBVIOUS
    <3>3. cap[n + 1] = NextCap(n + 1, cap[(n + 1) - 1])
      BY <2>1, <3>1
    <3> QED BY <3>2, <3>3
  <2>3. n + 1 # 1 => n \in 1..MaxAttempt
    BY <2>1, UpkeepBounds
  <2>4. n + 1 # 1 => cap[n] \in RetryBase..RetryMax
    BY <2>3
  <2> QED BY <2>2, <2>4, NextCapBounded
<1> HIDE DEF S
<1>6. S = Nat
  <2>1. S \in SUBSET Nat
    BY DEF S
  <2> QED BY <1>4, <1>5, <2>1, InductiveSet
<1>7. \A n \in 1..MaxAttempt : cap[n] \in RetryBase..RetryMax
  BY <1>6, UpkeepBounds DEF S
<1> QED BY <1>3, <1>7

-----------------------------------------------------------------------------
(* What the loops remember: the types and the backoff.                     *)

\* reconnectLoop decides on a backoff with its deadline armed.
Deadlined ==
  /\ loop.pc = "decide" => loop.armed
  /\ BackoffWithinDeadline

LoopsInv == UpkeepTypeOK /\ Deadlined

\* updateStats of every path: the counters stop at their thresholds.
LEMMA ObservationsCount ==
  ASSUME LoopsInv, NEW times, stats' = Observed(times)
  PROVE  stats' \in [Routes -> StatType]
<1>1. stats \in [Routes -> StatType] /\ FailureThreshold \in Nat /\ SuccessThreshold \in Nat
  BY ThresholdAssumption DEF LoopsInv, UpkeepTypeOK
<1>2. \A s \in StatType : Failed(s) \in StatType /\ Succeeded(s) \in StatType
  BY <1>1 DEF StatType, Failed, Succeeded, Minimum
<1> QED BY <1>1, <1>2 DEF Observed

LEMMA DelaysBounded ==
  ASSUME LoopsInv, loop.left > 0, NEW delay \in Delays
  PROVE  delay \in 0..RetryMax /\ (delay = 0 \/ delay < loop.left)
<1>1. loop.attempt \in 0..MaxAttempt /\ loop.left \in 0..ResumeTimeout /\ ResumeTimeout \in Nat
  BY TicksAssumption DEF LoopsInv, UpkeepTypeOK, LoopType
<1>2. RetryMax \in Nat /\ RetryBase \in Nat \ {0} /\ MaxAttempt \in Nat
  BY TicksAssumption, UpkeepBounds
<1>3. CASE loop.attempt = 0
  BY <1>2, <1>3 DEF Delays
<1>4. CASE loop.attempt # 0
  <2>1. RetryCap(loop.attempt) \in RetryBase..RetryMax
    BY <1>1, <1>2, <1>4, RetryCapBounded
  <2>2. /\ Minimum(RetryCap(loop.attempt), loop.left) \in Nat
        /\ Minimum(RetryCap(loop.attempt), loop.left) <= RetryMax
        /\ Minimum(RetryCap(loop.attempt), loop.left) <= loop.left
    BY <1>1, <1>2, <2>1 DEF Minimum
  <2>3. delay \in 0..(Minimum(RetryCap(loop.attempt), loop.left) - 1)
    BY <1>4 DEF Delays
  <2> QED BY <1>1, <1>2, <2>2, <2>3
<1> QED BY <1>3, <1>4

LEMMA LoopTyped ==
  ASSUME LoopsInv, LoopStep \/ LoopHelloEnds
  PROVE  loop' \in LoopType /\ Deadlined' /\ wake' \in BOOLEAN
         /\ switchMu' \in {"free", "cycle", "loop"} /\ UNCHANGED stats
<1>1. /\ loop \in LoopType /\ wake \in BOOLEAN /\ switchMu \in {"free", "cycle", "loop"}
      /\ Deadlined
      /\ 0 \in 0..ResumeTimeout /\ ResumeTimeout \in 0..ResumeTimeout /\ 0 \in 0..MaxAttempt /\ 0 \in 0..RetryMax
  BY TicksAssumption, UpkeepBounds DEF LoopsInv, UpkeepTypeOK
<1>2. loop.attempt \in 0..MaxAttempt => Minimum(loop.attempt + 1, MaxAttempt) \in 0..MaxAttempt
  BY UpkeepBounds DEF Minimum
<1>3. CASE LoopLooks
  BY <1>1, <1>3 DEF LoopLooks, LoopOnly, UpAgain, LoopType, Deadlined, BackoffWithinDeadline
<1>4. CASE LoopWakes
  BY <1>1, <1>4 DEF LoopWakes, LoopType, Deadlined, BackoffWithinDeadline
<1>5. CASE LoopDecides
  <2>1. PICK delay \in Delays :
          loop' = [loop EXCEPT !.sleep = delay, !.pc = IF delay = 0 THEN "check" ELSE "backoff"]
    BY <1>5 DEF LoopDecides
  <2>2. delay \in 0..RetryMax /\ (delay = 0 \/ delay < loop.left) /\ loop.pc = "decide"
    BY <1>5, DelaysBounded DEF LoopDecides
  <2>3. loop' \in LoopType /\ loop'.sleep = delay /\ loop'.left = loop.left /\ loop'.armed = loop.armed
        /\ loop'.pc # "decide"
    BY <1>1, <2>1, <2>2 DEF LoopType
  <2>4. UNCHANGED <<wake, switchMu, stats>>
    BY <1>5 DEF LoopDecides, LoopOnly
  <2> QED BY <1>1, <2>2, <2>3, <2>4 DEF Deadlined, BackoffWithinDeadline
<1>6. CASE BackoffEnds
  BY <1>1, <1>6 DEF BackoffEnds, LoopOnly, LoopType, Deadlined, BackoffWithinDeadline
<1>7. CASE BackoffInterrupted
  BY <1>1, <1>7 DEF BackoffInterrupted, LoopType, Deadlined, BackoffWithinDeadline
<1>8. CASE LoopAttempts
  BY <1>1, <1>8 DEF LoopAttempts, LoopOnly, LoopType, Deadlined, BackoffWithinDeadline
<1>9. CASE LoopGivesUp
  BY <1>1, <1>9 DEF LoopGivesUp, LoopType, Deadlined, BackoffWithinDeadline
<1>10. CASE LoopLocks
  BY <1>1, <1>10 DEF LoopLocks, LoopType, Deadlined, BackoffWithinDeadline
<1>11. ASSUME TryFails
       PROVE  loop' \in LoopType /\ loop'.pc \in {"lock", "look"} /\ switchMu' = "free"
  <2>1. CASE loop' = [loop EXCEPT !.pc = "lock"]
    BY <1>1, <1>11, <2>1 DEF TryFails, LoopType
  <2>2. CASE loop' = [loop EXCEPT !.pc = "look", !.attempt = Minimum(@ + 1, MaxAttempt)]
    <3>1. loop.attempt \in 0..MaxAttempt
      BY <1>1 DEF LoopType
    <3> QED BY <1>1, <1>2, <1>11, <2>2, <3>1 DEF TryFails, LoopType
  <2> QED BY <1>11, <2>1, <2>2 DEF TryFails
<1>12. CASE LoopTryFails \/ LoopReplayFails
  <2>1. TryFails /\ UNCHANGED <<wake, stats>>
    BY <1>12 DEF LoopTryFails, LoopReplayFails
  <2> QED BY <1>1, <1>11, <2>1 DEF Deadlined, BackoffWithinDeadline
<1>13. CASE LoopSucceeds
  BY <1>1, <1>13 DEF LoopSucceeds, UpAgain, LoopType, Deadlined, BackoffWithinDeadline
<1>14. CASE LoopAccepted
  BY <1>1, <1>14 DEF LoopAccepted, LoopType, Deadlined, BackoffWithinDeadline
<1> QED BY <1>3, <1>4, <1>5, <1>6, <1>7, <1>8, <1>9, <1>10, <1>12, <1>13, <1>14
        DEF LoopStep, LoopHelloEnds

LEMMA LoopsInvariance == UpkeepSpec => []LoopsInv
<1>1. UpkeepInit => LoopsInv
  <2> SUFFICES ASSUME UpkeepInit PROVE LoopsInv
    OBVIOUS
  <2>1. PICK r \in Routes : link = [path |-> r, epoch |-> 1, up |-> TRUE, finished |-> FALSE]
    BY DEF UpkeepInit
  <2>2. link \in LinkType
    BY <2>1, UpkeepBounds DEF LinkType
  <2>3. cycle \in CycleType
    BY IdleCycleType DEF UpkeepInit
  <2>4. loop \in LoopType /\ loop.pc = "look"
    BY TicksAssumption, UpkeepBounds DEF UpkeepInit, LoopType
  <2>5. stats \in [Routes -> StatType]
    BY ThresholdAssumption DEF UpkeepInit, StatType
  <2>6. UpkeepTypeOK /\ Deadlined
    <3>1. /\ cool \in 0..Cooldown /\ wake \in BOOLEAN /\ droppers \in Nat
          /\ switchMu \in {"free", "cycle", "loop"}
      <4>1. cool = Cooldown /\ wake = FALSE /\ droppers = 0 /\ switchMu = "free"
        BY DEF UpkeepInit
      <4>2. cool \in 0..Cooldown
        BY <4>1, TicksAssumption
      <4>3. wake \in BOOLEAN
        BY <4>1
      <4> QED BY <4>1, <4>2, <4>3
    <3> QED BY <2>2, <2>3, <2>4, <2>5, <3>1 DEF UpkeepTypeOK, Deadlined, BackoffWithinDeadline
  <2> QED BY <2>6 DEF LoopsInv
<1>2. ASSUME LoopsInv, UpkeepInv', [UpkeepNext]_upkeepVars
      PROVE  LoopsInv'
  <2>1. /\ UpkeepTypeOK /\ Deadlined
        /\ link' \in LinkType /\ cycle' \in CycleType /\ cool' \in 0..Cooldown /\ droppers' \in Nat
    BY <1>2 DEF LoopsInv, UpkeepInv
  <2>2. ASSUME wake' \in BOOLEAN, switchMu' \in {"free", "cycle", "loop"},
               loop' \in LoopType, Deadlined', UNCHANGED stats
        PROVE  LoopsInv'
    BY <2>1, <2>2 DEF LoopsInv, UpkeepTypeOK
  <2>3. CASE ConnectionFails \/ SignalReconnect \/ StartCycle \/ HeartbeatSendFails
             \/ CycleLocks \/ CycleReplays \/ CycleHelloEnds
    <3>1. /\ wake' \in {wake, TRUE} /\ switchMu' \in {switchMu, "cycle", "free"} /\ UNCHANGED <<loop, stats>>
      BY <2>3 DEF ConnectionFails, SignalReconnect, StartCycle, HeartbeatSendFails, CycleLocks,
                  CycleReplays, CycleHelloEnds, CycleAccepted, CycleHelloFails
    <3>2. Deadlined'
      BY <2>1, <3>1 DEF Deadlined, BackoffWithinDeadline
    <3> QED BY <2>1, <2>2, <3>1, <3>2 DEF UpkeepTypeOK
  <2>4. CASE CycleDecides
    <3>1. PICK times \in [Routes -> RoundTrips \cup {Missed}] : stats' = Observed(times)
      BY <2>4 DEF CycleDecides
    <3>2. UNCHANGED <<wake, switchMu, loop>>
      BY <2>4 DEF CycleDecides
    <3>3. stats' \in [Routes -> StatType]
      BY <1>2, <3>1, ObservationsCount
    <3>4. Deadlined'
      BY <2>1, <3>2 DEF Deadlined, BackoffWithinDeadline
    <3> QED BY <2>1, <3>2, <3>3, <3>4 DEF LoopsInv, UpkeepTypeOK
  <2>5. CASE LoopStep \/ LoopHelloEnds
    BY <1>2, <2>2, <2>5, LoopTyped
  <2>6. CASE UpkeepTick
    <3>1. loop' = [loop EXCEPT !.left = Less(@), !.sleep = Less(@)] /\ UNCHANGED <<wake, switchMu, stats>>
      BY <2>6 DEF UpkeepTick
    <3>2. loop \in LoopType /\ loop.left \in 0..ResumeTimeout /\ loop.sleep \in 0..RetryMax
          /\ ResumeTimeout \in Nat /\ RetryMax \in Nat
      BY <2>1, TicksAssumption DEF UpkeepTypeOK, LoopType
    <3>3. Less(loop.left) \in 0..ResumeTimeout /\ Less(loop.sleep) \in 0..RetryMax
      BY <3>2 DEF Less
    <3>4. /\ loop' \in LoopType /\ loop'.pc = loop.pc /\ loop'.armed = loop.armed
          /\ loop'.left = Less(loop.left) /\ loop'.sleep = Less(loop.sleep)
      BY <3>1, <3>2, <3>3 DEF LoopType
    <3>5. loop.sleep = 0 \/ loop.sleep < loop.left => loop'.sleep = 0 \/ loop'.sleep < loop'.left
      BY <3>2, <3>4 DEF Less
    <3>6. Deadlined'
      BY <2>1, <3>4, <3>5 DEF Deadlined, BackoffWithinDeadline
    <3> QED BY <2>1, <2>2, <3>1, <3>4, <3>6 DEF UpkeepTypeOK
  <2>7. CASE UNCHANGED upkeepVars
    BY <2>1, <2>2, <2>7 DEF upkeepVars, UpkeepTypeOK, Deadlined, BackoffWithinDeadline
  <2> QED BY <1>2, <2>3, <2>4, <2>5, <2>6, <2>7 DEF UpkeepNext, CycleStep
<1> QED BY <1>1, <1>2, UpkeepInvariance, PTL DEF UpkeepSpec

\* For any paths, thresholds and timeouts: the counters stay within their
\* thresholds, and every delay within retryMaxDelay.
THEOREM UpkeepTyped == UpkeepSpec => []UpkeepTypeOK
<1>1. LoopsInv => UpkeepTypeOK
  BY DEF LoopsInv
<1> QED BY <1>1, LoopsInvariance, PTL

\* Whatever retryCap and the jitter say, a backoff of reconnectLoop ends before
\* the deadline that was armed when the connection was lost.
THEOREM BackoffsEndInTime == UpkeepSpec => []BackoffWithinDeadline
<1>1. LoopsInv => BackoffWithinDeadline
  BY DEF LoopsInv, Deadlined
<1> QED BY <1>1, LoopsInvariance, PTL
=============================================================================
