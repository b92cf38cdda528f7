-------------------------------- MODULE Dial --------------------------------
(***************************************************************************)
(* openWebSocketWith: resolve the endpoint, race TCP dials to its first    *)
(* addresses, keep one connection, secure and upgrade it, and leave        *)
(* nothing behind.  The dials and the upgrade run in goroutines of their   *)
(* own; the context may end at any moment.                                 *)
(***************************************************************************)
EXTENDS Naturals, Sequences, FiniteSets

CONSTANTS
  Addresses,  \* the addresses a name may resolve to
  MaxDials,   \* maxConcurrentTCPDials
  NoAddress

ASSUME DialAssumption ==
  MaxDials \in Nat \ {0} /\ IsFiniteSet(Addresses) /\ NoAddress \notin Addresses

VARIABLES
  wss,       \* the endpoint's scheme is wss
  expired,   \* ctx has ended
  stopped,   \* dialCtx was canceled
  dialing,   \* the addresses whose dialTCP has not returned
  arrived,   \* the channel `results': pairs <<address, has a connection>>
  expected,  \* how many results have not been received
  rawConn,   \* rawConn[a]: the TCP connection to a
  winner,    \* the address whose connection is kept
  upgrade,   \* the goroutine of upgradeWebSocket
  opener     \* openWebSocketWith

dialVars == <<wss, expired, stopped, dialing, arrived, expected, rawConn, winner, upgrade, opener>>

DialInit ==
  /\ wss \in BOOLEAN
  /\ expired = FALSE /\ stopped = FALSE
  /\ dialing = {} /\ arrived = <<>> /\ expected = 0
  /\ rawConn = [a \in Addresses |-> "none"]
  /\ winner = NoAddress
  /\ upgrade = "off"
  /\ opener = [pc |-> "resolve", ok |-> FALSE]

OpenerAt(pc) == [opener EXCEPT !.pc = pc]
OpenerReturns(ok) == [pc |-> "returned", ok |-> ok]

ContextExpires ==
  /\ ~expired
  /\ expired' = TRUE
  /\ UNCHANGED <<wss, stopped, dialing, arrived, expected, rawConn, winner, upgrade, opener>>

\* A literal address, or what LookupNetIP returns, cut to MaxDials.
Resolved ==
  /\ opener.pc = "resolve"
  /\ \E A \in SUBSET Addresses \ {{}} :
       /\ Cardinality(A) <= MaxDials
       /\ dialing' = A /\ expected' = Cardinality(A)
  /\ opener' = OpenerAt("dial")
  /\ UNCHANGED <<wss, expired, stopped, arrived, rawConn, winner, upgrade>>

ResolveFails ==
  /\ opener.pc = "resolve"
  /\ opener' = OpenerReturns(FALSE)
  /\ UNCHANGED <<wss, expired, stopped, dialing, arrived, expected, rawConn, winner, upgrade>>

-----------------------------------------------------------------------------
(* dialFirstTCP. *)

\* dialTCP returns a connection, maybe after dialCtx was canceled, or fails.
DialReturns(a, ok) ==
  /\ a \in dialing
  /\ dialing' = dialing \ {a}
  /\ arrived' = Append(arrived, <<a, ok>>)
  /\ rawConn' = IF ok THEN [rawConn EXCEPT ![a] = "open"] ELSE rawConn
  /\ UNCHANGED <<wss, expired, stopped, expected, winner, upgrade, opener>>

\* Mutant of LateDial: only the first connection is looked at.
LateDialIgnored(a) == UNCHANGED <<rawConn, winner, stopped>>
\* There is a winner already.
LateDial(a) == rawConn' = [rawConn EXCEPT ![a] = "closed"] /\ UNCHANGED <<winner, stopped>>

TakeDial ==
  /\ opener.pc = "dial" /\ arrived # <<>>
  /\ arrived' = Tail(arrived)
  /\ expected' = expected - 1
  /\ LET a  == Head(arrived)[1]
         ok == Head(arrived)[2]
     IN  IF ~ok THEN UNCHANGED <<rawConn, winner, stopped>>
         ELSE IF winner = NoAddress
         THEN winner' = a /\ stopped' = TRUE /\ UNCHANGED rawConn
         ELSE LateDial(a)
  /\ UNCHANGED <<wss, expired, dialing, upgrade, opener>>

\* Every dial has returned: the winner goes on, whether or not ctx has ended.
DialsEnd ==
  /\ opener.pc = "dial" /\ expected = 0
  /\ stopped' = TRUE
  /\ opener' = IF winner = NoAddress THEN OpenerReturns(FALSE)
               ELSE OpenerAt(IF wss THEN "tls" ELSE "upgrade")
  /\ UNCHANGED <<wss, expired, dialing, arrived, expected, rawConn, winner, upgrade>>

-----------------------------------------------------------------------------
(* The rest; the deferred close of rawConn runs with every failing return. *)

CloseRaw == rawConn' = [rawConn EXCEPT ![winner] = "closed"]

HandshakeEnds ==
  /\ opener.pc = "tls"
  /\ \/ opener' = OpenerAt("upgrade") /\ UNCHANGED rawConn
     \/ opener' = OpenerReturns(FALSE) /\ CloseRaw
  /\ UNCHANGED <<wss, expired, stopped, dialing, arrived, expected, winner, upgrade>>

\* upgradeWebSocket
StartUpgrade ==
  /\ opener.pc = "upgrade" /\ upgrade = "off"
  /\ upgrade' = "running"
  /\ UNCHANGED <<wss, expired, stopped, dialing, arrived, expected, rawConn, winner, opener>>

\* The server answers, or not; NewClient fails on a connection that is closed.
UpgradeEnds ==
  /\ upgrade = "running"
  /\ upgrade' \in (IF rawConn[winner] = "open" THEN {"done", "failed"} ELSE {"failed"})
  /\ UNCHANGED <<wss, expired, stopped, dialing, arrived, expected, rawConn, winner, opener>>

\* Mutant of UpgradeCanceled: the connection is left to the deferred close.
UpgradeCanceledOpen ==
  /\ opener.pc = "upgrade" /\ upgrade # "off" /\ expired
  /\ opener' = OpenerAt("drain")
  /\ UNCHANGED <<wss, expired, stopped, dialing, arrived, expected, rawConn, winner, upgrade>>
\* ctx.Done is chosen, although the upgrade may have ended, too: the
\* connection is closed and the goroutine waited for.
UpgradeCanceled ==
  /\ opener.pc = "upgrade" /\ upgrade # "off" /\ expired
  /\ CloseRaw
  /\ opener' = OpenerAt("drain")
  /\ UNCHANGED <<wss, expired, stopped, dialing, arrived, expected, winner, upgrade>>

UpgradeDrained ==
  /\ opener.pc = "drain" /\ upgrade \in {"done", "failed"}
  /\ CloseRaw
  /\ opener' = OpenerReturns(FALSE)
  /\ UNCHANGED <<wss, expired, stopped, dialing, arrived, expected, winner, upgrade>>

\* The result is chosen; a context that has ended meanwhile still counts.
UpgradeTaken ==
  /\ opener.pc = "upgrade" /\ upgrade \in {"done", "failed"}
  /\ IF upgrade = "done" /\ ~expired
     THEN opener' = OpenerAt("clear") /\ UNCHANGED rawConn
     ELSE opener' = OpenerReturns(FALSE) /\ CloseRaw
  /\ UNCHANGED <<wss, expired, stopped, dialing, arrived, expected, winner, upgrade>>

\* The deadline is cleared, or that fails.
DeadlineCleared ==
  /\ opener.pc = "clear"
  /\ \/ opener' = OpenerReturns(TRUE) /\ UNCHANGED rawConn
     \/ opener' = OpenerReturns(FALSE) /\ CloseRaw
  /\ UNCHANGED <<wss, expired, stopped, dialing, arrived, expected, winner, upgrade>>

-----------------------------------------------------------------------------
OpenerStep ==
  \/ TakeDial \/ DialsEnd \/ StartUpgrade
  \/ UpgradeCanceled \/ UpgradeDrained \/ UpgradeTaken \/ DeadlineCleared

\* Steps that wait for the network.
Outside ==
  \/ Resolved \/ ResolveFails \/ HandshakeEnds \/ UpgradeEnds
  \/ \E a \in Addresses, ok \in BOOLEAN : DialReturns(a, ok)

DialNext ==
  \/ OpenerStep \/ Outside \/ ContextExpires
  \/ opener.pc = "returned" /\ UNCHANGED dialVars

DialSpec == DialInit /\ [][DialNext]_dialVars

\* What honors its context ends when that has ended: the lookup, the dials, the
\* handshake; NewClient, which knows none, ends when its connection is closed.
LookupEnds == expired /\ (ResolveFails \/ HandshakeEnds)
DialsReturn == \E a \in Addresses : (expired \/ stopped) /\ DialReturns(a, FALSE)
ClosedUpgradeEnds == upgrade = "running" /\ rawConn[winner] = "closed" /\ UpgradeEnds

-----------------------------------------------------------------------------
DialTypeOK ==
  /\ wss \in BOOLEAN /\ expired \in BOOLEAN /\ stopped \in BOOLEAN
  /\ dialing \subseteq Addresses
  /\ arrived \in Seq(Addresses \X BOOLEAN)
  /\ expected \in Nat
  /\ rawConn \in [Addresses -> {"none", "open", "closed"}]
  /\ winner \in Addresses \cup {NoAddress}
  /\ upgrade \in {"off", "running", "done", "failed"}
  /\ opener \in [pc : {"resolve", "dial", "tls", "upgrade", "drain", "clear", "returned"},
                 ok : BOOLEAN]

\* A call that has returned has left no goroutine and no socket behind but the
\* one it returns, which is open: whichever dial came first, however late the
\* others, and whenever the context ended.
DialLeavesNothing ==
  opener.pc = "returned" =>
    /\ dialing = {} /\ arrived = <<>> /\ upgrade # "running"
    /\ \A a \in Addresses : rawConn[a] = "open" <=> opener.ok /\ a = winner

\* Once its context has ended, a call returns.
DialEnds == expired ~> opener.pc = "returned"
=============================================================================
