# A verification model of MoltSSH

MoltSSH carries one SSH byte stream over a WebSocket connection that may die,
be replaced by a better one, and be replaced again, without the SSH session
noticing. `moltssh proxy` (the client) runs as an SSH ProxyCommand; `moltssh
serve` (the server) dials the SSH target. What makes the program hard is the
resume protocol between them: both sides buffer what the other has not
acknowledged, a new connection says what it has, each side replays the rest,
and all of this happens while old handlers, receive loops, writers and timers
are still running.

This directory models that core in TLA+, checks it with TLC on small instances
and proves part of it, for every size, with TLAPS.

## 1. The system

All sources are in `src/internal/tunnel/` unless another path is given.

| Component | Source | State it keeps | Operations | Hard behaviour |
|---|---|---|---|---|
| Wire protocol | `protocol.go`, `util.go` | none; frames hello, accept, data, ack, fin, close, error, ping, pong | `writeFrame`, `readFrame`, `sendError`, `sendDataChunks` | what a connection loses when it dies |
| Server session | `server_session.go`, `server_io.go` | epoch, active connection, c2sRx, c2sFin, s2cNext/Ack/buffer/fin, disconnect timer, closed | `resume`, `run`, data/ack/fin handlers, `readTarget`, `disconnect`, `closeTerminal` | one handler per connection plus the reader plus the timer, sharing one mutex that is released around every send and write |
| Accept loop | `server.go` | session table | `handle`, `accept` | a hello for a session that is resumed, closed or timed out meanwhile |
| Client runtime | `client.go`, `client_state.go`, `client_io.go`, `client_receive.go`, `tunnel.go` | active connection, epoch, c2sNext/Ack/buffer/fin, s2cRx, done | `stdinLoop`, `receiveLoop`, `replayClientBytes`, `dropActive`, `finish`, `Proxy` | stdin blocks for ever with a connection in hand; several receive loops at once |
| Activation | `client_session.go`, `client_connect.go`, `client_connect_first.go` | `switchMu` | `startSession`, `commitActivation` | the offsets in hello are old when the answer comes |
| Reconnect loop | `client_reconnect.go`, `retry.go` | backoff, deadline | state check, attempt, give up | a state read before a sleep and used after it |
| Path switching | `client_switch.go` | candidates | `runSwitchCycle` | replaces a connection that still works |
| Heartbeat | `client_heartbeat.go`, `heartbeat.go` | outstanding pings | track, resolve, expire | a pong racing its timeout |
| Probing | `probe.go`, `probe_command.go` | open probe connections | probe, rank, hand over | each connection closed or handed over exactly once |
| Dialling | `dial.go`, `timing.go`, `client_dial_log.go` | none | parallel TCP dial, TLS, WebSocket | first winner, late successes closed |
| Last-known-good cache | `path_state.go` | a file | read, replace | concurrent proxies, a crash in the replacement |
| Configuration | `config*.go` | the keys read so far | parse, validate | sections opened again; three commands that take different parts of one file |
| Command line | `src/cmd`, `src/internal/cli`, `src/internal/buildinfo` | none | wiring | none |

How they interact: `Proxy` opens a first connection, then starts `stdinLoop`,
`reconnectLoop`, `switchLoop` and, per activated connection, a `receiveLoop`.
Activations take turns under `switchMu`; everything else meets in
`clientRuntime.mu`. On the server `handle` runs per connection and calls
`serverSession.resume` and `run`; `readTarget` runs per session; the disconnect
timer's callback runs when it fires. These meet in `serverSession.mu`. Both
mutexes are released around every network send and every write to stdout or
the target, so any of the others may run in between.

What makes each part correct:

* session and runtime: the bytes written at one end are the bytes read at the
  other, once each and in order; nothing is dropped from a replay buffer before
  it was written at the other end; fin does not overtake data; buffers are
  bounded; somebody always notices the end of the active connection; a session
  nobody returns to is released; a client without a connection gets one or ends;
* activation and reconnect: overtaken activations are never committed, both ends
  agree on the epoch, the client gives up only after `resume.timeout`;
* heartbeat, probing, dialling: every ping has one result, every connection one owner;
* cache: a reader sees an old or a new file, never a part of one.

`PROJECT.json` lists the hazards behind these properties at their lines.

## 2. The modules

The tunnel itself, both ends joined:

| Module | What it is |
|---|---|
| `Wire` | frames, chunking, and connections: two FIFO queues, closable at either end, breakable in the middle |
| `ServerSession` | one `serverSession`: a handler per connection, `readTarget`, the disconnect timer |
| `ClientRuntime` | one `clientRuntime`: `Proxy`, `stdinLoop`, a `receiveLoop` per connection, activations, `reconnectLoop` |
| `ByteStream` | the abstract specification of one direction: bytes are taken from a source and written to a sink, once each and in order, and the sink is ended after the last |
| `Tunnel` | client and server joined: `Next`, fairness, and all properties; `Upward` and `Downward` map it to `ByteStream` |

The components around it, each by itself:

| Module | What it is |
|---|---|
| `Probing` | one call of `connectAny` or `runSwitchCycle`: the probe workers, the batch, the drains, the caller, and who closes which socket |
| `Upkeep` | the two loops that keep a client connected: `switchLoop` with its statistics, `reconnectLoop` with its deadline and backoff, and what they share: `rt.active`, `switchMu`, `reconnectSignal` |
| `SwitchRows` | `Upkeep` with a history of the heartbeats and probes of each path, for `mixed_rows` |
| `Heartbeat` | one connection's `heartbeatTracker` and the `activeHeartbeat` that uses it |
| `Dial` | one `openWebSocketWith`: lookup, parallel TCP dials, TLS, upgrade |
| `PathCache` | the last-known-good file, several processes that read and replace it, and the machine under them |
| `SessionTable` | `wsServer.sessions`: several clients, connections and sessions, `closeTerminal` in its three steps, a server that is restarted |
| `Config` | `parseTOML` line by line, and what `ParseConfig` accepts for which command |
| `Framing` | `writeFrame` and `readFrame`: the envelope, its limits and its checks |
| `Components` | one specification in which one of these eight runs, for one run of TLC |

For TLC: `MCTunnel`, `MCUpkeep`, `MCSwitchRows`, `MCComponents` (symmetry, path
orders, the lines of a configuration file). The proofs: `WireProofs` (lemmas
about frames, connections and replay windows), `ClientProofs` and
`ServerProofs` (each half of the tunnel's inductive invariant, action by
action), `TunnelProofs` (the halves together, and epochs), `StreamProofs` (what the
two ends know of each other, and the refinement of `ByteStream`), `PathProofs`
(`Probing`, `Upkeep`), `PartsProofs` (`Framing`, `Heartbeat`, `Dial`, `PathCache`,
`SessionTable`, `Config`), and `ComponentsProofs`, which puts the last two together.

How they fit together: `Tunnel` starts from a completed dial and leaves open
when dials, switches and lost heartbeats happen (`Events`). `Dial` is one of
those dials, `Probing` the choice among several, `Upkeep` says when `switchLoop`
and `reconnectLoop` ask for one, `Heartbeat` what counts as a failed heartbeat.
`PathCache` is the hint that a warm start of `Probing` begins with,
`SessionTable` the sessions of which `ServerSession` is one, `Framing` the
encoding of a frame of `Wire`. Each leaves the others as nondeterminism wide
enough for what they do: `Upkeep`'s attempts succeed or fail at any moment,
`SessionTable`'s sessions carry nothing.

### State and actions

`sess` is the `serverSession` field by field, `rt` the `clientRuntime`.
`handler[c]`, `recv[c]`, `reader`, `stdin`, `act`, `reconnect` and `proxy` are
the places of the goroutines, with the locals they keep from one step to the
next (a connection taken before a blocking read, a frame already accepted by
`isActive`, a snapshot being replayed). A section of code under a mutex is one
action. A send, a write to the target or stdout, and a wait are actions of
their own, so that whatever the other goroutines can do between two of them is
a behaviour of the model. Every action is mapped to its lines in `PROJECT.json`.

A byte is its 1-based position in its stream. "The right bytes at the right
place" is then `Slice(s, o)`: the i-th byte of `s` is `o + i`.

`ttl` of `sess` combines `disconnectTTL` and `disconnected`: `"armed"` from
`disconnect` on, `"expired"` when `resume.timeout` has passed. `callback` is an
`AfterFunc` that has started and waits for the mutex. `time.Timer.Stop` does
not take that one back, and `Resume` can let it slip.

### Probing

`Probing` stands beside `Tunnel`: it is about the connections that are opened
before one of them is committed, where `Tunnel` starts from a completed dial.
`call` says who runs: a cold start (`activateFirstAvailable`), a warm one
(`connectAny` with a last known good path) or a `runSwitchCycle`. `probe[p]` is
the job and the `probeCandidate` of one path: `held` is `candidate.open != nil`,
`ok` is `candidate.Err == nil`, `after` the `context.AfterFunc` that closes the
socket when the probe's context ends. An AfterFunc that has started (`"fired"`)
closes the socket in a step of its own, whatever has become of the socket by
then. `batch` is the goroutine of `startProbeBatch`, `drain` the one that is
left running after a success. A step of the caller that closes its candidates
on return (the deferred `closeProbeCandidates`) does so in that step. The wait
for `switchMu`, the statistics of a switch and what an attempt's session carries
are left out: a switch may promote any good candidate or none.

### Upkeep

Time is counted in ticks, and a timer is what is left of it: `cool` of
`switch_cooldown` since `rt.lastSwitch`, `loop.left` of `resume.timeout`,
`loop.sleep` of the backoff. A connection is known by its epoch. `cycle` is
`runSwitchCycle` from its snapshot (`src`, `path` and `cool` are what it has
read of `rt`) over heartbeat and probes to `promoteCandidate`; all observations
of a cycle are made in the step in which it decides. `loop` is
`runReconnectLoop`; `droppers` counts the calls of `dropActive` that have
released `rt.mu` and not yet signalled, `wake` is the slot of `reconnectSignal`.
A client of `Upkeep` ends only by its resume timeout; its other ends are
`ClientRuntime`'s. The round-trip time kept in `probeStat` is left out, because the
only one that is ever compared is that of the same cycle's heartbeat; where that
is 0, the priority decides. `SwitchRows` adds to it, for each path, the row of
failed heartbeats and the row of successful probes, which one pair of counters in
`probeStat` does not tell apart. After the deadline the tries
that are left fail at once, and are one step.

### Heartbeat and Dial

`slot[n]` is the one-slot channel of ping `n`. The tracker sends on it with its
mutex held, so an operation whose slot is full is not enabled: a second result
would show as a heartbeat that never returns and a tracker nobody can use. The
caller, its timer, `receiveLoop`'s pongs (of any ping sent on the connection,
early, late or repeated) and whoever closes the connection are actions of their own.

`Dial` has one goroutine per address, the channel `results`, and the caller: it
keeps the first connection, closes those that come later, and waits for all.
The upgrade knows no context: it runs in a goroutine that ends when its
connection is closed. The context may end in any state.

### PathCache

`cache` and `temp[p]` hold the record of a path, something foreign, or a torn
part. A proxy creates, writes, syncs and renames; it may die between any two
steps, and with the machine. `durable` are the files whose contents survive a
loss of power; a file that is not may then be torn. A rename is atomic.

### SessionTable

Clients know an id or none. `closeTerminal` marks a session closed, hangs up on
its connection and deletes it from the table in three steps; `resume`, the timer
and a target that ends fall in between. `Restart` empties the table. The end of a
target is noticed by `readTarget` or by a handler whose write to it fails; the
client's own end comes with its `close` frame. A client may lose its connection
before it has learnt the id of the session that was opened for it.

### Config

A file is a sequence of classes of lines; a value is known by its type and by
what the checks tell apart (the sign of a number, a URL that is one). `raw` and
`paths` are `parseTOML`'s result so far, `Accepted(command)` is `ParseConfig` of a
file that ends here: every prefix of a file is a file. It is accepted when all
keys that the command's sections need are there and every key that is there fits
(`Fits`). `Wrong(command)` is the part of a refusal that is due to a line in the
file, and not to a missing one.

### Abstractions

* `Tunnel` is one session and one client process. `SessionID` and `Direction`
  are left out: a connection belongs to the session and a queue has a
  direction. Several sessions are `SessionTable`'s.
* `Proxy`'s start-up tries one path: if its hello fails, `Proxy` exits. The
  order of the paths is the business of `Probing`.
* ping and pong change nothing in a session or runtime except, in the end, that
  the client drops its connection (`HeartbeatDrop`). Logging and timings are
  left out.
* A send on a connection that has failed or been closed at the other end may
  report success or failure, as socket buffers decide; one on a connection
  closed at this end fails. A frame sent on such a connection is lost.
* `isActive` (and its client twin) is one step with the read of the frame, and
  handling the frame another: the state may change in between, as in the code.
* In `handleClientData` and `handleServerData` the comparison of the offset is
  one step, and the write, the advance of the offset and the ack another. The
  code also releases its mutex between write, advance and ack; nobody reads the
  target's bytes there, and the value acknowledged is the one advanced to.
* `closeTerminal` is one step: its sends go to a connection it has already
  taken from the session.
* The unreachable `default` of `handle` (a first frame that is not hello; only
  a client of a different make sends one) is left out.

## 3. Bounds

Every bound is a constant or follows from one. `StdinLen` and `TargetLen` are
the bytes that ever come; each connection is used once, so `Conns` bounds the
number of activations; `Events` names what the environment may do:
`break`, `heartbeat`, `switch`, `cancel`, `stdin_eof`, `stdin_error`,
`stdout_error`, `target_eof`, `target_error`, `dial_error`. A run switches on
those its question needs. Epochs, queues and buffers need no bound of their own.
In `Probing`, `RTTs` is the set of round-trip times a probe can measure; a path
is probed once, as in the code, so nothing else is unbounded. In `Upkeep`,
`MaxEpoch` bounds the activations of a behaviour and `MaxAttempt` the attempts
after which the backoff grows no more; counts beyond the thresholds make no
difference to the code and are cut there. `Nonces` bounds the pings of a
connection, `Links` the connections, `Ids` the sessions that are ever opened,
`MaxLines` a configuration file. `LengthLimit` stands for 2^32; the code's limits
are below it, and so are the instance's.

## 4. The runs

| Run | Instance | Question | Answer |
|---|---|---|---|
| `up` | 2 connections, 4 stdin bytes, reads of 1 or 2, buffer limit 2 | Are the client's buffer, the acknowledgements, the target's bytes and its end of stream consistent over a reconnect or switch at any moment? | yes, apart from the overlap of `target_twice` |
| `down` | 2 connections, 4 target bytes, reads of 1 or 2, buffer limit 2 | The same from the target to stdout | yes, apart from the overlap of two `receiveLoop`s (`stdoutOverlap`), which no run shows |
| `owners` | 3 connections, 1 stdin byte | With three connections contending: who attends to the session and the client, do the epochs agree, are overtaken activations never committed? | yes |
| `release` | 2 connections, fairness, cancel, dial errors | Is the session of a client that is gone closed for good; does a client without a connection get one or end? | yes |
| `parts` | the eight components, one at a time (below) | Twenty-two questions to the parts around the tunnel | yes |
| `target_twice` | 2 connections, 1 byte | Does the target get each byte once, as `docs/mvp.md` says? | no |
| `fatal_handoff` | 2 connections, 2 bytes | Does the client end only for the reasons `docs/mvp.md` lists? | no |
| `late_timer` | 2 connections | Does the disconnect timer spare a resumed session? | no |
| `truncated` | 2 connections, 1 byte | Has a client that ends cleanly every byte of the target? | no |
| `stranded` | 2 connections, 1 byte, fairness | Does what was read from stdin reach the target? | no |
| `mixed_rows` | 2 paths, thresholds of 2, 3 activations | Does a path change only after as many failed heartbeats, and as many probes, in a row as configured? | no |
| `hung_switch` | 2 paths, fairness | Does an outage end within reach of `resume.timeout`? | no |

`up` and `down` also check, as a temporal property, that every step of `Tunnel`
is a step of `ByteStream` or changes nothing of it: `StdinReachesTarget` and
`TargetReachesStdout`. That is more than the invariants say: bytes that have been
written are never taken back, an end comes after the last byte and is never
undone, nothing follows it.

`parts` asks, of

* `Probing` (3 paths, 2 workers, 2 round-trip times): is every probe's socket
  activated or closed, never both (`NothingLeaks`, `HandedOverAlive`); is a
  failure reported only after every path was tried (`EveryPathTried`,
  `OutcomeIsTrue`); does what is left running end (`CallsSettle`)?
* `Upkeep` (2 paths, thresholds of 2, 3 activations): does `reconnectLoop` never
  sleep through an outage (`NoLostWakeup`); does a backoff end before the deadline
  (`BackoffWithinDeadline`); does a switch replace the connection its cycle has
  measured, after the cooldown (`SwitchesReplaceTheirSource`); does an outage end if
  hellos do (`OutagesEnd`), and is a connection that has stopped answering given up
  (`FailuresActedOn`)?
* `Heartbeat` (3 pings): has a ping exactly one result (`PingResolvedOnce`),
  that of its own pong (`OwnPongOnly`)?
* `Dial` (3 addresses, 2 of them dialled): does a call return when its context
  ends (`OpensEnd`), and leave nothing behind (`DialLeavesNothing`)?
* `PathCache` (2 proxies, 2 names): is the file whole (`CacheIsWhole`), and a
  hint taken from it usable (`HintIsUsable`)?
* `SessionTable` (2 clients, 2 connections, 2 ids): does an id lead to its own
  session (`OwnSessionOnly`); does an ended session keep no connection
  (`EndedServesNobody`); does the session of a client that is gone end
  (`OrphanedSessionsEnd`)?
* `Config` (files of up to 7 lines, of 12 different ones): are values never taken
  back (`KeysAreWriteOnce`); can no line that follows hide a wrong one, so that the
  file is accepted after all (`RefusalsAreFinal`)?
* `Framing`: do writer and reader agree what a frame is (`EndsAgree`)?

Why these bounds are enough for what they ask. Two connections are the fewest
for a resume, and every hazard of the byte streams needs one old and one new
connection; three let an activation be overtaken by a second one while a third
is active (`owners`). Four bytes make acknowledged, replayed and new ones
possible at once, and let a reader that found room fill its buffer to the last
byte it may hold; a buffer limit of two makes both ends wait for room, and
still lets a stream end before its last byte was acknowledged. A replay of three
bytes with `MaxPayload` two is two frames, and merges what was sent in smaller
ones into frames the receiver may have a part of. Three paths and two workers
let one probe wait for a worker, one run and one be done when the caller
returns; two round-trip times let the ranking differ from the order of arrival.
In `Upkeep` a threshold of two tells a row from a single observation, three
activations are the first, one of a switch and one of `reconnectLoop`, in either
order. Two connections and two ids let a client come back to a session while it
is closed, or open a second one. Seven lines are enough for a file with two wrong
lines in sections that are opened, left and opened again, or in two paths. The sizes of `Framing` lie on both sides of each
limit. Deadlock is checked in every run but `parts`: the only states without a
step are those of `Terminated` (`Quiescent` in `Probing`, `Ended` in `Upkeep`). In
`parts` a file that is complete, a table whose ids are used up and a connection
whose nonces are used up stop because the bound does.

`targetOverlap` and `stdoutOverlap` are history variables. They become true when
a write finishes while another handler is in the middle of its own, which is
the flaw `target_twice` shows. `TargetIsPrefix` and its relatives say that this
overlap is the only way to lose, repeat or reorder bytes. They say nothing of what
happens once it has occurred: `target_twice` shows that for the target, and no run
does for stdout, where two `receiveLoop`s can meet in the same way
(`client_io.go:74`).

### Fairness

`FairSpec` asks weak fairness of each goroutine's own steps (`HandlerRuns`,
`RecvRuns`, `ReaderRuns`, `ActivationRuns`, `StdinRuns`, `ReconnectRuns`), which
the Go scheduler gives a goroutine that can go on, and of the disconnect timer
and its callback, which the runtime gives a timer that is set and a goroutine
waiting for a mutex. `DeadlinePasses` has strong fairness: `ResumeTimeout` is
enabled again and again while a client fails to reconnect, and the deadline,
once passed, stays passed. Nothing is assumed of the environment: the reads of
stdin and of the target, dials, switches, lost heartbeats, cancellation and
breaking paths may never happen. That a handler or a hello does not wait for
ever is a consequence of a read that fails when the other end or the path is
gone (`ClientReadFails`, `ServerReadFails`); a server that is connected and
silent is not part of `release` (see the hazard at `client_connect.go:172`).

The liveness of the parts is stated with its fairness as the premise:

* `CallFairness`: the workers of `Probing`, whose dials and reads are bounded by the
  probe's timeout, AfterFuncs, the batch and the drains. Nothing is asked of the
  caller, which may wait in `startSession` for ever.
* `LoopsFairness`: the goroutines of `Upkeep`, time, and an attempt's deadline
  (`AttemptExpires`: `reconnectLoop` gives `startSession` a context with one). A
  switch's hello has no deadline, so nothing is asked of it: `hung_switch` shows
  what follows, `OutagesEnd` that nothing else goes wrong (if infinitely often
  no hello of a switch is waiting). `FailuresActedOn` also asks that `switchLoop`
  goes on to start cycles (`StartCycle`), as its ticker lets it. It says that, again and
  again, the connection is down, or its path's last observation was a success, or a
  switch waits in its hello.
* `DialFairness`: the caller, and what honours its context once that has ended.
  The upgrade is only known to end when its connection is closed.
* `TableFairness`: handlers, `closeTerminal`, timers, and a client that waits for
  its accept gets it or loses the connection. A connection whose other end is gone
  is found out at last: a half-open one that stays so for ever is not modelled.

## 5. Where code and documentation disagree

Each is a run whose only property TLC finds violated.

* **`target_twice`** (`server_io.go:27`). A handler of an old connection has read
  `c2sRx` and is about to write. The client reconnects, the server resumes and
  replays its offset, the client sends the same bytes again, and the new handler
  writes them. Then the old one writes too. The target has the bytes twice and
  `c2sRx` counts both.
* **`fatal_handoff`** (`server_io.go:84`). `resume` makes the connection active
  and releases the mutex before it sends accept and the replay. `readTarget`
  puts new data on that connection first. The client sees a gap and finishes
  with an error that is none of those the documentation allows. The same run
  covers its variants: partial duplicates, and a duplicate's ack that cannot be sent.
* **`late_timer`** (`server_session.go:86`). The timer fires between the elapsed
  time check in `resume` and `Stop`; its callback then closes the session that
  was just resumed.
* **`truncated`** (`server_io.go:142`). The target hangs up while a replay is
  going out; `closeTerminal`'s close overtakes it and the client exits 0 with
  bytes missing.
* **`stranded`** (`client_io.go:26`). stdinLoop took a connection, then blocked
  in Read. A switch replaced that connection. The bytes, when they come, go to
  the old one; the send fails, `dropActive` finds another connection active and
  drops nothing, and the replay has already happened. They wait in `c2sBuf`
  until stdin produces more or another reconnect replays them.
* **`mixed_rows`** (`client_switch.go:86`). `probeStat` has one counter of successes
  and one of failures per path. Heartbeats count in it while the path is active,
  probes while it is not, and no activation resets it; `docs/mvp.md:93-94` counts
  "consecutive failed in-session heartbeats" and "consecutive successful probes".
  In the trace, the probe of a path fails, `reconnectLoop` activates this path, one
  failed heartbeat then makes the threshold of two, and the cycle goes for the other
  path for the heartbeat that this one answered while it was active and one probe.
* **`hung_switch`** (`client_connect.go:172`). `promoteCandidate` calls `startSession`
  under `switchMu` with `switchLoop`'s context, which has no deadline. If the
  server accepts the connection and says nothing, and the active connection is
  lost meanwhile, `reconnectLoop` waits for `switchMu` beyond `resume.timeout`; it
  neither reconnects nor ends the client.

Two smaller ones are not runs. `docs/mvp.md:339-341` has a cold start rank its
candidates by round-trip time, priority and order; `client_connect_first.go:21`
promotes the first good one that arrives. That is deliberate since v0.3.1
(`CHANGELOG.md`, `docs/releases/v0.3.1.md`, `README.md:264-266`,
`client_connect_first_test.go`), so it is `docs/mvp.md` that is stale. A connection
that is replaced during its heartbeat counts as a failure of its path
(`client_switch.go:44`).

## 6. Proofs

`TunnelProofs` and `StreamProofs` prove, for every `Conns`, `MaxPayload`, `BufferBytes`, `Chunk`,
`StdinLen`, `TargetLen` and `Events` that satisfy the named assumptions of `Wire`,
`ServerSession` and `ClientRuntime` (sizes positive, `Chunk <= MaxPayload`, `None`
not a connection, lengths natural), and the other modules for every value that
satisfies the assumptions of theirs:

| Module | Theorem | States |
|---|---|---|
| `TunnelProofs` | `TypeCorrect` | `Spec => []TypeOK` |
| | `ClientReplays`, `ServerReplays` | `[]ClientReplayWindow`, `[]ServerReplayWindow` |
| | `Bounded` | `[]BuffersBounded` |
| | `SessionsAttended`, `ClientsAttended` | `[]SessionAttended`, `[]ClientAttended` |
| | `EpochsAgreed` | `[]EpochsAgree` |
| | `ActivationsAreLater` | `ActivationsAdvance` |
| `StreamProofs` | `StreamsInvariant` | `[]StreamInv` |
| | `AcksReachedTarget`, `AcksReachedStdout` | `[]AckedBytesReachedTarget`, `[]AckedBytesReachedStdout` |
| | `TargetGetsPrefix`, `StdoutGetsPrefix` | `[]TargetIsPrefix`, `[]StdoutIsPrefix` |
| | `UpwardImplements`, `DownwardImplements` | `StdinReachesTarget`, `TargetReachesStdout`: `Spec` implements `ByteStream` in both directions |
| `PathProofs` | `RankingIsTotal`, `RankingHasAFirst` | `rankProbeCandidates` orders any two candidates, and among any there is a first |
| | `ProbingTyped`, `GoodProbesLive`, `SocketsAreClosed` | `[]TypeOK` of `Probing`, `[]HandedOverAlive`, `[]NothingLeaks` |
| | `OutcomesAreTrue`, `PathsAreTried` | `[]OutcomeIsTrue`, `[]EveryPathTried` |
| | `WakeupsAreKept` | `[]NoLostWakeup` |
| | `SwitchesReplaceSources` | `SwitchesReplaceTheirSource` |
| | `RetryCapBounded`, `BackoffsEndInTime` | `retryCap` is between `RetryBase` and `RetryMax`; `[]BackoffWithinDeadline` |
| | `UpkeepTyped` | `[]UpkeepTypeOK` |
| `PartsProofs` | `FramesAgree` | `[]EndsAgree` |
| | `PingsResolve`, `PongsAreOwn` | `[]PingResolvedOnce`, `[]OwnPongOnly` |
| | `DialsLeaveNothing` | `[]DialLeavesNothing` |
| | `CacheStaysWhole`, `HintsAreUsable` | `[]CacheIsWhole`, `[]HintIsUsable` |
| | `SessionsAreOwn`, `EndedServeNobody` | `[]OwnSessionOnly`, `[]EndedServesNobody` |
| | `KeysStay`, `RefusalsStay`, `ConfigTyped` | `KeysAreWriteOnce`, `RefusalsAreFinal`, `[]ConfigTypeOK` |
| `ComponentsProofs` | `ComponentsImplementEach` | `ComponentsSpec` implies the specification of each of the eight components |
| | `ComponentsTyped`, `ComponentsKeepPromises` | `[]ComponentsTypeOK`, and all of the above for `ComponentsSpec` |

### The tunnel

The theorems of `TunnelProofs` follow from one invariant,
`IInv == ClientInv /\ ServerInv`.

* None of the properties is inductive alone. Types need the replay window: only
  `bufFrom = ack` and `ack + Len(buf) = next` make `offset - bufFrom` a natural
  number and the slice that is kept a sequence. They also need `ClientPcs` and
  `ServerPcs`, which say that a goroutine that is sending has something to send
  and a connection to send it on.
* `ClientAttended` needs `ClientOwner`: a connection whose accept is still
  awaited has no receiveLoop, so nobody but its activation closes it; every
  other connection a goroutine holds once had a receiveLoop, so closing it can
  never hit the one being activated.
* `SessionAttended` is inductive together with the types.
* The window lemmas (`WindowAcked`, `WindowGrows`, `SliceConcat` in `WireProofs`)
  are what `advanceC2SAckLocked`, `advanceS2CAckLocked` and the two append
  functions do to a buffer.
* The halves meet only in `net`. The client's half depends on the client's ends
  of the connections, which `ServerKeepsClientEnds` shows no server step moves;
  the server's half depends on the type of `net` alone.

That epochs agree takes a second invariant, `EpochInv`, because the client learns an
epoch long after the server has moved on, and `commitActivation` compares none:

* `ServerEpochs`: a connection gets its epoch once, from its only hello. Whatever
  accepts its handler still has to send, or the wire still holds (`Pending`), name
  that epoch; a connection nobody has opened yet has none. The session's
  epoch is that of its active connection, and no handler's is greater.
* `ClientEpochs`: the epoch of the client's active connection is the one its handler
  has, and an accept that an activation waits for is greater than the epoch the client
  has. This is so because the client's activations take turns: the connection
  that waits was opened after the last one was committed, when the server had
  already given out the client's epoch, and `resume` only counts up. So an
  accept that was overtaken reaches a client that no longer waits for it.
* `Calm` is what every step but three does to the connections: no accept is sent,
  and none of a connection that was not there before. `SendReply` moves accepts
  from the handler to the wire, `AcceptNew` and `Resume` make one.

`IInv` knows each end by itself. The theorems of `StreamProofs` need a second
invariant, `StreamInv`, which relates the ends and holds on top of the first:

* `Flight`, `ClientHolds`, `ServerHolds`: every frame on its way, and every frame a
  goroutine has in hand between two of its steps, is one its sender may have
  made (`Frames`): data are the bytes of the stream at their offset and were
  read, a fin stands at the end of the stream, the offset in an ack, an accept or a
  hello has been received. `FramesGrow` is why an old frame stays true: offsets
  only grow, and after its end a stream has no more bytes.
* `AcksEarned`: what is acknowledged was received, what is received was written.
  This is not inductive without the frames: an ack may be arbitrarily late.
* `StdinEnds`, `TargetEnds`: no reader adds bytes after the end of its stream.
* `TargetInPlace`, `StdoutInPlace`: unless two writers have met, the sink has
  the first bytes of the stream, and whoever is about to write does so at its
  end. A handler keeps the offset it has checked while the mutex is
  released; if another one writes meanwhile, `targetOverlap` becomes true, so
  this is exactly as strong as the code is.

The refinement adds that the sink only grows at its end (`PrefixGrows`) and that
no other step moves what `ByteStream` sees (`ClientMoves`, `ServerMoves`).

### The parts

* `ProbingInv` says of every open socket whose it is: a candidate's, the caller's
  while it is in its hand, or the active connection's (`OwnerOK`). It says of every
  candidate that still holds one where it is: with its worker, in the channel, or in
  a batch that somebody is going to close (`PlaceOK`). `ProbeOK` relates the steps of
  one worker and its `AfterFunc`; `SetsOK`, `CallerOK`, `KindOK` and `EndOK` the places of
  the caller to what it has tried and holds, in each of the three kinds of call.
  `NothingLeaks` speaks of the end only and follows from these; `HandedOverAlive`
  needs that an `AfterFunc` is stopped before its probe succeeds, or else the probe
  does not.
* The ranking compares success, round-trip time, priority and the order of
  declaration, in this order. It is total because paths are declared once, and any
  set of candidates has a first by an induction on the prefixes of `PathSeq`. The
  library's induction theorems cannot be used (their parameter is an operator), but
  a set of naturals with 0 and the successors of its members is `Nat`
  (`InductiveSet`), because what it lacks would have a least element. The same lemma
  gives the values of `retryCap`, which is a recursive function.
* `LoopsInv`: the types of the delays; `reconnectLoop` decides on a backoff only with
  its deadline armed, and the backoff never exceeds what is left of it (`Deadlined`).
* `FramingInv`: a message that `writeFrame` made is the encoding of its arguments,
  which passed its checks; what was read is the decoding of the message. With
  both limits below the width of the lengths, `% LengthLimit` changes nothing.
* `PingInv`: the types; a ping that was never sent has no result; a round trip in
  a slot belongs to a pong of that ping; a closed tracker has nothing pending.
* `DialInv`: while dials race (`Racing`), `expected` counts the dials that have not
  returned and the results in the channel, no address is both, and an open
  connection is the winner's or on its way in the channel; after the race
  (`Raced`) only the winner's connection is open, until it is closed.
* `CacheInv`: the cache is durable, a file that is about to be renamed holds a
  whole record and is durable, because `Sync` comes before `Rename`.
* `TableInv`: for each connection (`LinkInv`) and each client (`CallerInv`), whose
  it is, and that every session id in a hello, a handler or an accept is that of
  a session which the same client's hello opened; ids that were never given out
  belong to nobody.
* `ConfigInv`: `section` is one that exists, and `paths` has an element in its own.
  A line changes at most one key, which was not there before, so a key that does not
  fit stays as it is (`MisfitsStay`), two paths of one name stay (`WrongStays`), and
  `Accepted` contradicts either: refusals are final.
* `UpkeepInv`: `NoLostWakeup`; `switchMu` is held by exactly the one that is past
  it (`Serialized`), so no other activation is committed between the check of the
  source and the switch's own; the source of a cycle is not newer than the active
  connection, and the cooldown it has read is not shorter than what is left of it
  while the epoch is the same (`SourceKnown`).

### The composition

In `Components` one component runs while the others rest in an initial state.
`ComponentsImplementEach` shows that this adds nothing: an initial state is one of
every component, and a step is a step of one and a stutter of the others, so that
what is proved of a component holds of the specification that the run checks.

### Only model-checked

Every safety property of a passing run, invariant or action property, is proved.
Liveness is out of the prover's reach: `SessionReleased`, `ClientRecovers`,
`CallsSettle`, `OutagesEnd`, `FailuresActedOn`, `OpensEnd` and `OrphanedSessionsEnd` are checked on
the instances above, and so is the absence of deadlock in `Tunnel`.

## 7. Not modelled, and what is left

Not modelled: the command line, help texts, version and logging, which keep no
state; the lexical level of a configuration file (comments, quoting, number
formats), `LoadConfigFile` and how a cache file is named after it; what the probe
command prints; TLS, DNS and HTTP, which are libraries; TCP's own buffers (two
receive loops that both wait in a send of an ack, `client_io.go:90`, since Wire's
connections hold any number of frames); the wait of a caller of `finish` that
checks `done` between broadcast and close (`client_state.go:125`), which matters
to nobody because the process exits.

## 8. Running

    tlc -workers 2 -config Up.cfg MCTunnel
    tlc -workers 2 -config Components.cfg MCComponents
    tlapm TunnelProofs.tla

`Up`, `Down` and `Components` take two to four minutes, `Owners` about one, the
others less. The proof modules are checked one by one: `WireProofs`,
`ServerProofs`, `ClientProofs`, `TunnelProofs`, `StreamProofs`,
`PathProofs`, `PartsProofs`, `ComponentsProofs`.
