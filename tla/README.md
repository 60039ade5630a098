# Formal models of the DingTalk Workspace CLI

TLA+ specifications of the concurrent parts of `dws`, the TLC configurations that
check them on small instances, and TLAPS proofs, for every instance, of all that must
never happen in the event bus, in what commands share on one disk and in the robot
connector. `PROJECT.json` lists every definition with the lines it models, every run
with what it asks, the hazards, the findings and the theorems.

    tlc -workers 2 -config MCBus_push.cfg MCBus               # one run
    tlapm StoresProofs.tla                                    # the proofs of one module

## The system

Most of `dws` is a command that parses flags, makes one MCP call and prints the
answer. What can go wrong in ways a test would hardly reach lies where
goroutines, processes and restarts share state: the event bus
(`internal/event`), the robot connector (`internal/helpers/connect_*.go`), and
what several commands keep on one disk.

| Part | State | Operations | Meets | What is hard | What must hold |
|---|---|---|---|---|---|
| hub (`bus/hub.go`, `metrics.go`) | registered consumers; per consumer two channels, a mutex, counters | Register, Unregister, Deliver, Broadcast, StopConsumers, StopAll | source callbacks, handlers, writers, stop RPC, Run | stale snapshots, drop-oldest under concurrency | no send on a closed channel, order, exact counts, no blocking |
| daemon (`bus/daemon.go`) | phase of Run, terminal reason, accepted connections | accept, handshake, writer, idle watch, shutdown | the hub, the broker, listener and lock | shutdown against registration, forced close, bounded drain | everybody learns why the bus ended; shutdown ends |
| singleton (`bus/lockfile.go`, `busctl/{discover,spawn,stop}.go`, `transport_unix.go`) | `bus.lock` (flock and PID), socket path, process table | Acquire, Close, Discover, Spawn, Stop, Validate | processes that share the directory | crashes, PID reuse, check-then-act on files | one reachable bus; stop means stopped; no stranger signalled |
| credential broker (`runtimecred/broker.go`), source (`source/*.go`) | token, generation, active, change channel; ticket, connection | Update, Activate, Resolve, RefreshRejected, Classify; fetchTicket, runAttempt, handleFrame | daemon handshake, cloud, `emit` | a refresh or a 401 that is late, lost acks | a newer token is never replaced or blamed; what was acked was emitted |
| de-duplication (`dedup/lru.go`) | window of keys | Seen | source callbacks | redelivery after the window | at most once inside the window |
| consumer (`consume/run*.go`) | sessions, frame channel | handshake, reader per session, frame loop | daemon | racing ends of several sessions | typed reason, exact event limit |
| subscription attempts (`personal/attempt_store.go`) | a JSON file of leases and cooldowns | Claim, CompleteSuccess, CompleteFailure, Release | other `dws` processes | lease expiry, crash, late completion | one live holder; holds last; failures counted |
| token refresh (`auth/*.go`) | stored token, dual lock, single flight | lockedRefresh, ForceRefreshRejectedToken, MarkAccessTokenStale, login, logout | other processes and goroutines | unlocked read-modify-write, lost answers | a refresh token is used once, a login is never undone |
| audit log (`audit/*.go`) | daily files with a hash chain | Emit, rotate, prune | other processes | torn writes, midnight | the chain verifies, damage stays last |
| skill publication (`upgrade/paths.go`, `skill_publication.go`, `skill_publish_rename.go`) | skill directories, staging, backups, quarantine | backup, publish, confirm, roll back, restore, prune; claim, move in, move back | users and other programs at the same paths | a failure half way, a path changed in between | old or new, nothing of others destroyed |
| connector: conversations (`connect_queue.go`, `connect_stream.go`) | set of seen messages, pending turns | callback, submit, drain | the stream's redeliveries | the end of a drain against a new message | one turn at a time, in order, none dropped but for a command |
| connector: confirmation gate (`connect_approval*.go`) | requests in memory and on disk, waiters | Submit, Decide, Await, flush, reload | requesters' turns, the owner's replies and taps, the ticker | two answers, timeouts, restarts | nothing runs unapproved, nor twice, nor is forgotten |
| connector: processes (`connect_lock.go`, `connect_daemon.go`) | lock file, heartbeat, `daemon-state.json` | acquire, supervise, stop | supervisors, workers, stop commands | create-then-write, stale locks, equal timeouts | one connector per robot; stop leaves nobody; always-on comes back |
| connector: agents (`connect_stream.go`, `connect_opencode.go`, `connect_codex*.go`, `connect_qoder_stream.go`) | session of each conversation, in memory and on disk; one child process and its pipes | look up, create, ask, drop, restart; start, write, read a line | turns of several conversations, the agent, restarts | lost sessions, snapshots that overtake each other, late answers | a dropped session stays dropped; a turn gets its own answer |
| drive download (`drive_transfer.go`) | part file, checkpoint, destination, lock | probe, fetch, refresh, publish, resume | workers, other commands, the drive service | credentials that expire, versions, interruption | what is published is one whole version |

Parts left out are at the end, under *Not modelled*. `hazards` in `PROJECT.json`
lists what is hard to test, each at its line, with the properties that cover it.

## How the models are laid out

A module models one component: a step is what one goroutine or process does
between two points where another can act. A program counter per actor follows
the function's source order; faults (a failed write, a lost answer, a crash) are
disjuncts that a constant set `Faults` or a bound `MaxFaults`, `MaxCrashes`,
`MaxCalls` enables. Bounds are in the guards and only there.

`MC*` modules hold the instances. Components that share no state are checked in one
run: the module has a variable `scene`, chosen in the initial state, that says
which instance moves; the variables of the others stand still. So a run's states
are the union, never the product, of its instances'. The `MC*` module extends the
modules of its components: their properties are the run's, by their own names, and are
what the theorems state (in the scenes of the other components their initial states
satisfy them). A second instance of a component with other constants is an
`INSTANCE ... WITH` over the same variables. The fairness of such a run is that of the
modules, as `WF_v(scene = "..." /\ A)`.

| Run | Scenes and bounds | Asks |
|---|---|---|
| `hub_push` | push: 1 connection, 2 callbacks, 3 events, buffer 2. mixed: 1 host, 1 consumer without a token, no seed required | `TypeOK`, `NoSendOnClosed`, `RetryHasRoom`, `EveryEventCounted`, `ReceivedMeansKept`, `FeedIsLossyFifo`; `MixedBusIsSafe` |
| `hub_live` | 1 connection, 1 callback, 1 event, buffer 1, stops and a rejected token, fairness | `StopJumpsQueue`, `DeliverReturns`, `StopIsServed`, `ShutdownDrains` |
| `shared` | tokens: 3 threads in 2 processes, 4 calls, 3 token pairs. attempts: 2 processes (a batch of two and a single in it), 4 time units. switch: 2 skills, 3 backups kept, 2 acts of others. linux, macos: 2 entries and one other name, 3 acts of others | `RefreshIsSerial`, `OnlyLoginGoesBack`; `AttemptsSafe`; `SwitchSafe`; `ClaimSafe` |
| `bus_stranger` | 2 stops, 1 crash, 2 PIDs | `NoStrangerSignalled` is violated |
| `daemon_handoff` | handoff: 2 hosts, 2 tokens, 2 generations, a required seed. dedup: 2 callbacks, 4 events with 3 keys, window 2, 4 calls, 1 crash | `HandshakesInOrder`, `NoAddAfterWait`, `RejectionIsHeard`; `DedupSafe` |
| `queues_live` | queue: 2 conversations, 3 messages delivered twice, of which 2 are commands or decisions, limit 2. daemon: 2 hosts of one token, fairness | `TurnsKeepOrder`, `QueuedAgainAfterOthers`; `RejectionIsPublished` |
| `parts` | seeded: 3 hosts, 2 tokens, 3 generations. local: the same with 2 local tokens, 2 generations. consume: 2 subscriptions, limit 2, 2 sends each | `BrokerSafe`, `TokensStayCurrent`; `ConsumeSafe` |
| `stores` | serve: 2 buses, 2 clients, 1 stop, 2 PIDs, 2 faults. audit: 2 writers, days 1, 2 and 4, 5 events. versions, nameless: 3 parts, 2 workers, 2 commands (nameless: 1), 2 file versions, 2 fetches per run | `ServingIsReachable`, `StopMeansGone`, `DiscoverConnects`; `AuditSafe`; `DownloadSafe` |
| `drive_cancel` | 2 parts, 2 workers, Ctrl+C | `PublishedIsWhole` is violated |
| `connector` | text, remember, card: 2 requests, 2 replies or 3 taps, 1 crash, 1 lost record, 1 failed run. restarts: 1 foreground connector, 1 supervisor of 2 workers, 2 stops, 2 faults. rivals: 2 supervisors, 1 stop. sessions: a one-shot agent or opencode, 2 conversations, 3 sessions, one each of a failed turn, a lost session, a command, a restart, and (one-shot) a snapshot that is not written. stream: 3 turns, 2 deaths of the child, 2 faults | `ConsentHolds`, `ProcessesAreTracked`, `SessionsHold`, `StreamHolds` |
| `connector_rivals` | 2 foreground connectors, a supervised worker, no fault | `OneConnectorPerRobot` is violated |
| `progress` | flight: 3 threads, 4 calls. backlog: 2 requests, 2 failed runs, 1 restart. turns: 4 messages of 2 conversations, 2 of them commands or decisions. always: 3 workers, 2 faults. idle: a timeout of 4 ticks of 3 time units, 2 consumers; fairness | `CallsReturn`, `BacklogDrains`, `EveryTurnProcessed`, `AlwaysOnRecovers`, `IdleStop` |

Why the bounds are enough: three events through a buffer of two fill it, evict from
it, and evict again while the other callback waits for `sendMu`. Two processes and
one more call than there are processes let each race with another that comes back;
two faults let a crash meet the recovery from a crash. A de-duplication window of
two over three keys forgets one and keeps one. A batch of two and a single in it
overlap in part. A day that is skipped (2, then 4) with a retention of one makes
pruning happen. Two of three parts can be loaded when the third fails. In `queue`
a limit of two is reached by a third message. Symmetry is declared for processes,
clients, PIDs, callbacks and workers that no property or other constant tells apart, and
only where no liveness property is checked. Deadlock is not checked: connections,
calls, messages and commands are used up, and then the system really stops.

*Fairness.* Weak fairness of the program's own steps, justified by the Go scheduler
(a goroutine that can run is run, a free mutex is taken), by deadlines (a read, a
request or a lock attempt ends) and by tickers. Nothing is assumed of the source,
the cloud, the owner or a peer: a Hello, a tap or an answer may never come. Nor is it of
the connector's agent, which has no time limit unless `--agent-timeout` sets one
(`connect_stream.go:266-268`, 1630-1635): a turn need not return, and `EveryTurnProcessed`
says of a conversation that everything in it is processed unless a turn of its own hangs
for ever. For qoder that is a turn of any conversation, as all of them wait for one child.
Weak fairness is enough for mutexes because the calls are bounded. For
`AlwaysOnRecovers` supervisors and workers take their steps, and there are fewer
faults than `MaxFast`, the fast failures after which a supervisor gives up
(`connect_daemon.go:447-514`); for `BacklogDrains` the ticker ticks and runs of an
action fail only finitely often (`MaxFailures`).

## The event bus

### EventHub, with LossyFifo and EventHubFeed

One module for the hub and the goroutines of the daemon that meet in it, because
the hub's properties are about their interleavings.

- *Actors* push and signal: `Callbacks` (SDK goroutines in `Deliver`), `Rpc`
  (a `consumer_stop` request), `Run` (shutdown). `apc`, `todo`, `frame`,
  `evicted`, `pushed` are an actor's program counter and locals; `todo` is the
  snapshot that `Hub.mu` protects only while it is taken.
- `Lock`, `Try`, `Evict`, `Retry`, `Settle` are `Consumer.deliver` (and
  `enqueue`) with the three selects of `tryPushOrDropOldestLocked`. Each select is
  its own step, because the writer takes from the channel without `sendMu`.
- `handler[c]` follows `handleConnection` from Hello to the deferred close,
  `writer[c]` the writer goroutine: poll of StopCh, select, re-check, write.
- `phase` follows `Run` and `shutdown`; `terminal` is the published reason.
- The peer reads, stalls, says Bye or vanishes; a write to a stalled peer blocks,
  to a vanished or closed one fails.

Abstracted: the compiled matcher is the set of types a consumer wants; frames are
records with a type and a sequence number; the credential handshake is BusDaemon's;
counters are unbounded integers (the code's are 64 bits wide). `behind` is a
history variable, used by `StopJumpsQueue` only.

`LossyFifo` is what one consumer is promised: a queue of numbered events that makes
room by giving up an old one, never by refusing the new one, and neither reorders
nor repeats. `EventHubFeed` maps the hub to it: what is on the wire is received,
the frame in the writer's hand followed by the channel is the queue, and the actor
that holds `sendMu` decides what counts as offered. `FeedIsLossyFifo` is this
refinement, checked in `hub_push`.

### BusSingleton

`bus.lock` as two variables, who holds the flock and the PID in the file, because
the code writes them in separate steps; the socket path as the bus it was last
bound to, alive or not; a process table in which a freed PID may be handed out
again, to a bus or to a `Stranger`. Buses follow `Acquire`, `listen`, the ready
pipe, `shutdown` and Run's deferred closes; clients follow `Discover`; stoppers
follow `Stop` with each file access of `ValidateHolderOwnership` its own step.
Crashes may hit a bus anywhere. Timeouts are steps that may come at any time,
except that redialling (5 s) outlasts a start or a shutdown, and that a start
that exceeds `ReadyTimeout` counts as a fault.

`Signal` goes through the handle `os.FindProcess` returned, which on Linux is
bound to the process rather than the number (pidfd), so what the model says about
strangers is at most what happens on systems without it.

### RuntimeBroker, BusDaemon, IdleWatch

`RuntimeBroker` has one action per critical section of `Broker.mu`, hosts that
install and activate tokens, and one source that resolves, sends, is refused,
refreshes and classifies. `TokensStayCurrent` is an action property: a token is
rejected for good only while it is the installed one, a host activates only what
it has brought, and no attempt starts with a local token once one is installed.

`BusDaemon` extends it with the connections: accept, handshake under
`credentialHandoffMu` (challenge, update, ack, registration, activation), Run's
select, publication of the terminal reason, the WaitGroup barrier and the two
timeouts of `shutdown`. What a registered consumer's writer does is EventHub's.
`RejectionIsHeard` joins them: whoever was accepted before the bus ended for a
rejected token is told that reason, or has closed, or was cut off by the bounded
drain. `DaemonSafe` is the three properties together; `MixedBusIsSafe` is `DaemonSafe` of an
instance that requires no seed and so takes consumers without a token.

`IdleWatch` counts ticks of the watch: a tick may wait in the ticker's channel or
be dropped, and consumers come and go between samples. The bus stops only after a
whole timeout of ticks that saw nobody, and does stop when all have left for good.

### EventDedup and ConsumeMany

`EventDedup` puts the LRU set between callbacks that receive, emit and acknowledge,
a cloud that redelivers what was not acknowledged, and a crash that forgets the
window. `ConsumeMany` is `RunMany`: sessions opened one after the other, a reader
per session, the loop that handles one frame at a time, and the ends that race
in it (limit, stop of one subscription, terminal Bye, closed pipe, deadline,
signal). The bus closes a connection after its Bye. `NoReaderStuck`, a part of
`ConsumeSafe`: a reader that is left when the command has ended can still take its
next step.

## What commands share on disk

- `AttemptStore`: every operation under the file lock, the clock, and the command
  around it that creates the subscriptions of its claim one by one, may be
  cancelled, die, or complete after its lease has run out. `ReleasedIsFree`, a part of
  `AttemptsSafe`: a released claim leaves nothing that blocks the next command.
- `TokenRefresh`: threads of two processes that refresh (with the double check),
  force a refresh (with the single flight of a process), log in, log out or mark
  stale; a server that rotates pairs and may lose its answer or revoke. The dual
  lock is `processLock` and `fileLock`.
- `AuditChain`: the hash is read from the file's end under the lock, then the record
  is appended; a write may stop inside a record or just before its newline.
- `SkillSwitch`: a run moves skills to a backup, publishes staged ones, confirms,
  and on failure retracts through a quarantine and restores, while others create,
  replace, edit and remove at the same paths. `SkillClaim`: one publication where no
  rename without replacement exists: mkdir claims, the claim's identity is read by its
  path, a rename or moves fill the claim, and any call may fail (`ClaimFaults`).
  It is checked with both behaviours of `rename` on an empty directory.
- `DriveDownload`: probe, lock, checkpoint, dispatcher and workers, refresh of
  expired credentials, publication by link or rename, and a second command that
  resumes. A content maps each part to a version or to a hole, so a mix of versions
  or a hole in the destination is visible. `Reported` says whether the service names
  versions: always or never (see *Disagreements* for what a change of mind would do).

## The robot connector

- `ConnectQueue`: the callback's de-duplication, `submit`, the drain of a conversation
  and which turns of a batch its merge keeps (`Merged`, `handled`; the text of the merged
  prompt is left out). `MergesKeepWords`, a part of `TurnsKeepOrder`: what a merge drops it
  drops for a command or decision that is carried out, and one of these only for a later
  one. `ConnectApproval`: the gate with its orchestrator in text and card
  mode, under the manual and the remembering policy, with the ticker, lost
  questions, lost records, failed runs and a restart. `consent`, `lent` and `held` are history
  variables: what was approved, by an answer or by policy; which of that by the tap of
  somebody else than the owner (`Tap`, see *Disagreements*); and what was promised. So
  `RunsHaveConsent` is about approvals; that they are the owner's is a theorem of text mode
  only (`TextNeedsOwner`). A question may fail, or arrive and only its answer be lost
  (`AskFails`): the requester is told "not executed" all the same, and `GivenUpNeverRuns`
  says that this stays true when the card is tapped later. `BacklogDrains` is about text
  mode: in card mode an action of the owner's own that could not run is marked deferred
  (`connect_approval_card.go:427`) and nothing retries it (*Disagreements*).
- `ConnectDaemon`: the lock file is created, written, read, taken over and removed in
  steps of their own; supervisors restart their worker; stops find both through the
  state file and the heartbeat. `LockNamesHolder` speaks of behaviours without
  overlapping acquisitions (`overlapped`), because with them `OneConnectorPerRobot`
  fails (run `connector_rivals`); `StopIsComplete` of supervisors that were not
  killed (`killed`). `StartDaemon` is one step: the check for a running daemon and the
  spawn of another are not taken apart. Left out are the cleanup of what a worker's process
  group leaves behind and a stop whose signal itself cannot be sent.
- `ConnectSessions`: which session of the agent goes with which conversation, in memory
  and in the file. `agent` is what the connector was started for; from it follows
  whether the connector or the agent names sessions (`Minted`) and whether the snapshot
  is written under the mutex of the map (`Locked`). A turn whose session is missing makes
  a new one and asks again. `SessionsHold` is `DroppedStaysDropped` and `MissingHeals`.
  `AgentStream`: the one child of qoder, its pipes and the two goroutines that read lines
  and wait for its exit; `StreamHolds` is `OwnAnswer` and `IdleDeathIsFree`. codex (`connect_codex_appserver.go`) keeps its threads as opencode
  does its sessions; its transport is not modelled. Of the child it is assumed that it
  answers a message with one result line; the attachments of a message, which qoder sends
  by its one-shot path, are left out.

## Findings

Each is a run whose property TLC refutes, with the line it contradicts in
`PROJECT.json`.

- `bus_stranger`: two stop commands that validate a stale PID together take each
  other's probe of the flock for its owner; one signals a process it does not know.
- `connector_rivals`: a connector that reads the lock between its creation and the
  writing of the PID takes it for stale; two connectors hold Stream connections.
- `drive_cancel`: Ctrl+C while no part is under way ends the workers without an error;
  the preallocated file is published with holes, its checkpoint removed, and the
  command reports success.

## Disagreements

Met while modelling, where the code does one thing and a comment or document says
another. The models follow the code.

- Hub. `hub.go:394` evicts even when the writer has made room since the failed push
  (291, 385: only a full channel is evicted from). `hub.go:349` charges a drop to the
  type that arrived, not to the one that was lost (`metrics.go:26-28`).
- Start and stop. `discover.go:129`: a Discover during a shutdown spawns a child that
  meets the lock, then redials a bus that is gone (66-67: forks a new one). Stop's
  ownership probe (`lockfile.go:131-138`) holds the flock for a moment; a bus that starts
  just then exits as busy. `lockfile.go:89`: after a crash a live PID in the file,
  whoever has it now, keeps every start out (46-48).
- Broker. `broker.go:237` calls the local refresh after the mutex is released, so
  possibly after an installation (68-69: never). `broker.go:238` returns the refresh's
  error though a newer token was installed meanwhile (211-212). `daemon.go:262` ends
  the bus for a token that a handshake has replaced by then (`broker.go:40-42`).
- `daemon.go:832` turns a stop request's reason into "shutdown"
  (`protocol.go:165-167`). `daemon.go:743`: a consumer between two samples is not
  seen, so the idle stop may come less than a tick after it left (87).
- `run_many.go:146`: a deadline that passes while sessions are opened is an error
  (`run.go:70-71`: a clean exit).
- `attempt_store.go:596`: the hold of a first failure is shorter than the lease, so
  another process may be admitted during the rollback
  (`event_personal_command.go:665-667`).
- `force_refresh.go:83`: marking a token stale loads and saves under separate locks and
  can put back a pair that was exchanged or logged out of (67-70); only tests call it.
  `oauth_provider.go:831`: a timeout of the file lock marks the profile expired (828-830).
- Skills. `skill_publication.go:72`: a publication that cannot be read back is not
  retracted (`paths.go:620-621`). `paths.go:238` prunes to five stamps and may remove a
  backup of the run in progress (`CHANGELOG.md:608`); `BackupsSuffice` says when it
  cannot: no more skills than stamps are kept, or a run of fewer seconds than that. `skill_publish_rename.go:228`
  moves entries of others back into staging, which is removed (213-215); line 121 may
  replace an empty directory that is not the claim (70-72). A directory that replaced the
  claim can be recorded as the published one in two windows: after the comparison of its
  identity (`skill_publication.go:68-72`, 24-25; `late`) and before it is read, between
  mkdir (111) and line 120, when `claimID` is the other's own (99-104, 117-119; `early`).
  Three failures leave something at the destination of a publication that failed
  (`stuck`), against 212-215, "leaving the source intact": an entry that was linked and
  whose source is not removed (273, 289) is not in `moved`; when the emptied staging
  directory is not removed (148-150, what 144-147 expects of a writer in it) everything
  stays, without a way back; and an entry that does not go back stays (228). With them
  `FailureLeavesNothing` says only that no staged entry is lost.
- Confirmation gate. A later 同意 runs a request whose question the owner never got
  (`connect_approval_card.go:472-475`). A manual 重试 and the ticker flush one snapshot
  twice. `AutoDecide` ignores `Decide`'s second result (415-419). A request approved and
  then caught by a restart before its execution is never run; nor is one whose card is
  tapped after the wait gave up. In card mode whoever taps decides: `handleCardCallback`
  passes the tapper's id to `Decide` (`connect_approval_card.go:736`) without comparing it
  with the owner's, as `handleOwnerDecision` does (494), and the card may be forwarded
  (832); `connect_approval.go:31-32` and 45-49 speak of the owner's tap. Creating and
  delivering the card are two requests (834-848): when only the answer of the second is
  lost the requester is told "not executed" (648-654), the owner has the card, and the
  action he approves on it is run by nobody. An action of the owner's own that fails is
  "held for retry" in card mode too (423-427), but `retry` and the ticker exist in text
  mode only (490-499, 594).
- `connect_stream.go:1128-1139`: merging a batch with a turn that stands alone (a command,
  a decision word of anybody's, a retry) drops the rest of it, questions and earlier
  commands (`connect_queue.go:22-24`: "that whole batch is processed").
- Connector processes. A SIGTERM between `writeDaemonState` (`connect_daemon.go:423`) and
  `daemonSignalContext` (440) is absorbed by the root handler, and the stop has to kill.
  A second SIGTERM ends the supervisor at once, and a stop's ten seconds equal
  `superviseWait`'s, so "stopped" or "force_killed" may leave a worker. `release` and
  `Remove` delete whatever is at the path. Stop removes `daemon.pid` though the state is
  in `daemon-state.json`. A daemon started with `--unified-app-id` is filed under its
  clientId, but status, stop and restart look under "app-…" (`connect_daemon.go:1130-1138`,
  `docs/connect-daemon-service.md:22-25`).
- Agents. codex and opencode write the snapshot of their sessions after the mutex was
  given back (`connect_codex_appserver.go:262-278`, `connect_opencode.go:672-693`): two
  snapshots may overtake each other, and a restart then brings back a dropped session
  (`connect_stream.go:529-539`: does not). So `DroppedStaysDropped` speaks of restarts for
  the one-shot agents only. In the second select of codex's `next` the error of the reader may win
  over a final line that came just before it, as may `done` in qoder's `readLineLocked`;
  `cmd.Wait` may close the pipe before that line is read. Without a timeout (the default)
  a child of qoder that says nothing holds `f.mu`, and with it every conversation.
  opencode's `ensure` kills the server, with the turns of all conversations, over one
  failed health probe. `transport/stdio.go` never restarts a dead child.
- Download. A checkpoint whose part file is gone is voided in memory only
  (`drive_transfer.go:665`): after a kill between the two removals of `--no-resume`, a
  run that fails before its first save leaves it to be believed by the next one. A kill
  between link and remove leaves part and destination one inode, into which a later
  `--overwrite` run writes in place. Without service versions nothing is ever resumed: the
  fingerprint holds the signed URL. The model has these faults as `kill_drop` and
  `kill_publish`; the passing run leaves them out. The checkpoint of another version, or
  of a run whose service named one, stays beside the new part file until the first save
  (657-690), and a refresh after the probe that names no version is not compared
  (438-443): were the service to name versions only now and then, a part could be
  counted as loaded that is not, so the model has it name them always or never.

## The proofs

Each proof module extends the module it is about. The layout is the same in all of them:
an inductive invariant whose parts are named, one lemma per group of actions with one
step per action and under it one per part the action can disturb, and a theorem that
closes with PTL. TLC checked each invariant on small instances before it was proved.
What follows holds for any number of processes, connections, requests and so on.

| Module | From | Theorems (property of the runs) | Inductive invariant |
|---|---|---|---|
| `EventHubFeedProofs` | `HubAssumption` | `TypeCorrect` (`TypeOK`), `NeverSendsOnClosed` (`NoSendOnClosed`), `RetryAlwaysFits` (`RetryHasRoom`), `EventsCounted` (`EveryEventCounted`) | `TypeInv`, `LockInv` |
| | the same, `FeedAssumption` | `StopsJumpTheQueue` (`StopJumpsQueue`), `ReceivedIsKept` (`ReceivedMeansKept`), `HubIsLossyFifo` (`FeedIsLossyFifo`, a refinement) | the same with `FeedInv` |
| `BusDaemonProofs` | `DaemonAssumption` | `HandshakesInOrderAlways`, `NoAddAfterWaitAlways`, `RejectionIsHeardAlways`, together `DaemonIsSafe` (`DaemonSafe`, of which `MixedBusIsSafe` is an instance) | `DaemonInv` |
| | `DedupAssumption` | `DedupIsSafe` (`DedupSafe`) | `DedupInv` |
| `PartsProofs` | `BrokerAssumption` | `BrokerIsSafe` (`BrokerSafe`), `TokensStayCurrentAlways` (an action property) | `BrokerInv` |
| | `ConsumeAssumption` | `ConsumesSafely` (`ConsumeSafe`) | `ConsumeInv` |
| `StoresProofs` | `SingletonAssumption` | `ServingIsReachableAlways`, `StopMeansGoneAlways`, `DiscoverConnectsAlways` | `SingletonInv` |
| | `DownloadAssumption`, `Uninterrupted` | `DownloadsAreSafe` (`DownloadSafe`) | `DownloadInv` |
| | `AuditAssumption` | `AuditIsSafe` (`AuditSafe`) | `AuditInv` |
| `SharedProofs` | `TokenAssumption`, `NobodyMarksStale` | `RefreshIsSerialAlways`, `OnlyLoginGoesBackAlways` (an action property) | `TokenInv` |
| | `AttemptConstants`, `BackoffIsTime` | `AttemptsAreSafe` (`AttemptsSafe`, invariants and an action property) | `AttemptInv` |
| `SkillProofs` | `SwitchConstants`, `BackupsSuffice` | `SwitchIsSafe` (`SwitchSafe`) | `SwitchInv` |
| | `ClaimConstants` | `ClaimIsSafe` (`ClaimSafe`) | `ClaimInv` |
| `ConnectQueueProofs` | `QueueConstants` | `TurnsKeepOrderAlways`, `QueuedAgainOnlyAfterOthers` (an action property) | `QueueInv` |
| `ConnectProofs` | `ApprovalAssumption` | `ConsentHoldsAlways`, `TextNeedsOwner` | `ApprovalInv` |
| | `DaemonConstants` | `ProcessesAreTrackedAlways` | `ProcessInv` |
| | `SessionConstants` | `SessionsHoldAlways` | `SessionInv` |
| | `StreamConstants` | `StreamHoldsAlways` | `StreamInv` |

The assumptions say that names of different things differ, that bounds are numbers, that
the hub's buffer holds a frame and the queue's set of seen ids at least one, and in
`DaemonAssumption` that a bus which waits for a consumer's activation was started for a
runtime token, as the commands that start one do (`app/event_command.go:655`).
Crashes, lost answers, failed saves, timeouts and reused PIDs are in the theorems, as
many as the modules have. Six are hypotheses of theorems rather than assumptions of a
module, and three of them leave out what really breaks the property:

- `QueueConstants` and `AttemptConstants` are statements of the same kind about constants,
  and `BackoffIsTime` says that the jittered delay is a number of time units.
- `NobodyMarksStale` leaves out `MarkAccessTokenStale`, which loads and saves under
  separate locks and which only tests call; with it `OnlyLoginGoesBack` is false.
- `Uninterrupted` leaves out Ctrl+C (finding `drive_cancel`) and a kill between the two
  steps of `--no-resume` or of a publication (*Disagreements*); a kill anywhere else in a
  download is covered.
- `BackupsSuffice` leaves out a run that replaces more skills than stamps are kept, over
  as many seconds: pruning then takes a backup of this very run.

Why the properties are not inductive, and what the invariants add:

- `LockInv`: whoever holds a `sendMu` is inside a push and its channel is open
  (`HolderPushes`), nobody holds two (`OneAtATime`: otherwise one actor's "retry" would
  speak of two channels), Run pushes nothing before shutdown (`RunIdles`: otherwise
  `Broadcast` could reset an actor in the middle of a push), after the eviction there is
  room, and sequence number minus counters is exactly what the current holder still owes
  (`Ledger`). `TypeOK` itself needs `SignalsReasons`: what `Signal` puts in a StopCh is a
  reason only because signalling actors carry one.
- `FeedInv` adds what each goroutine pushes, that the event in hand has the number its
  consumer has reached, that a frame written past a queued stop is the last one
  (`StopNext`), and that "received" plus what the current push owes is what was written,
  is queued or is in the writer's hand (`Kept`). For the refinement every step of the hub
  is shown to be, for each connection, an offer, an eviction, a push, a take, a write, or
  to leave the feed's queue alone; the queue is the frame in hand before the channel.
- `SingletonInv`: a bus that runs has the PID it was given and a PID that is a bus's
  is that bus's own (`RunsUnderPid`: PIDs are reused, so nothing about a stale PID
  holds without it); the flock is held exactly from lock to release, by a bus or a
  probe (`FlockIsHeld`); the file names its writer and the path leads to whoever serves;
  a handle of a bus was taken of a process that was started under the PID in hand
  (`HandleWasTarget`); and a Discover that nothing excuses has a bus that starts or
  serves (`SomeBusComes`).
- `BrokerInv`: the source has taken `changed` no later than now, and while a host's
  generation is the current one the token is its own, which is the compare-and-swap part.
- `DaemonInv`: the host that holds the gate knows the current generation
  (`HandshakeIsCurrent`); with a required seed the source stays where it is until somebody
  is registered (`SourceWaits`); and for the rejection, that Run publishes before it tells,
  that whoever is served after `TellAll` has been told (`ServedAreTold`), and that before
  the publication nobody is cut off (`QuietEnds`).
- `TokenInv`: who is inside holds the file lock, and its process's lock since it asked
  for it; what is asked with is what is stored (`AskInv`); a pair is in one hand or in the
  store, and the server knows it or it has died (`HandInv`, `StoredIsGood`).
- `QueueInv`: a conversation in `running` has one live drain and one without has nothing
  pending (`OneDrain`); a delivery is one turn in one place (`TurnsOnce`); a message that
  was forgotten was forgotten for others (`ForgottenForOthers`). `MergesKeepWords` is
  inductive by itself: the latest command of a batch is kept (`LatestWord`).
- `ApprovalInv`: which states a requester's turn and an owner's turn can be in
  (`RequestersTurn`, `OwnersTurn`), consent before approval in memory, on disk and in
  hand, and by somebody else only with a card in circulation (`ConsentFirst`), only what
  is held is retried (`RetriesAreHeld`), an action is in nobody's hands before its approval and then in one (`UntouchedBefore`, `InOneHand`), and
  where an approval finds its requester: between the card and the wait, waiting with a
  channel, woken, or gone (`ApprovalFindsTurn`: the missed wake-up).
- `DedupInv`: in the list of keys, behind a key stand exactly those called since its last
  call, so a key that dropped out was followed by all of a full list (`Window`); an event
  taken for new is delivered or in a callback's hands (`OnItsWay`).
- `ConsumeInv`: what was delivered, followed by what waits in the readers' channel, is a
  merge of what the connections have carried (`InOrder`); a Bye is the last frame of a
  connection and is known of only when the bus has said it (`ByesAreTrue`); while the
  command lives only the connection of a departed reader is closed (`NoErrorYet`).
- `DownloadInv`: what is loaded is of the version the current credential leads to, because
  a refreshed credential is taken only if it leads to the version the run was told
  (`LoadedIsCurrent`, `ToldVersion`); what the checkpoint says of that version is true
  (`CheckpointHolds`); two workers never have one part; until something fails every part is
  loaded, waits or is in a worker's hands (`NothingIsLost`), which is why "no error" at the
  end means "no hole".
- `AuditInv`: only the holder of the lock is past the idle stage, what it has read is still
  the last hash when it writes (`SealIsCurrent`), a line that does not parse stays the last
  (`FilesAreSound`), and of the emitted events at most the last of a damaged file is
  missing (`Recorded`).
- `AttemptInv`: the record of a claim carries the count of the one it replaced
  (`Matching`), what was replaced did not block (`Freed`), and an older claim may come back
  by the release of the one that replaced it. So a failure that is recorded late counts on
  from the right number only along the chain of claims from the file to it (`Counting`).
- `SwitchInv`: the objects of a skill are only in place, in its backup or in its quarantine
  (`InPlace`); what was moved aside is under a stamp of this run, and there are too few of
  those to be pruned (`Stamped`); and a skill nobody else touches is where the step says
  (`Untouched`, one case per step).
- `ClaimInv`: while nobody else writes, the step determines what is where (`Undisturbed`);
  what the claim's path was read to be is what mkdir made, unless it was replaced since
  (`Steps`); and on the way back every entry is still at one place at least, at the
  destination or in staging (`OnTheWayBack`).
- `ProcessInv`: without overlapping acquisitions whoever created the lock file is named in
  it and nobody removes that of a connected connector (`OneAcquires`); a worker that runs is
  the one its supervisor waits for (`WorkersAreWaitedFor`); a stop that says "stopped" saw
  its supervisor end (`StopsFollow`).
- `SessionInv`: conversations have different sessions, in memory, in the file and in every
  snapshot on its way (`MapsAreProper`; otherwise one could use what another dropped); a
  turn asks with the session its conversation has (`TurnsKnowSessions`); under the mutex
  the snapshot being written is the map (`FileFollows`); and a turn whose second session is
  lost as well is paid for by a session the agent lost (`FailuresAreCharged`).
- `StreamInv`: on their way through the child's pipes is at most the answer the current
  turn waits for, and whoever does not wait finds them empty (`PipesAreOwn`).

The prover has no induction over data. Where a fact about a recursive function was needed
(`InOrderKeeps`: what the filter of the pending requests returns) it is proved from the
least index at which it would fail. Two proof attempts corrected a property: with three
workers and a service that names no versions, parts of two versions may both be counted
as loaded after a failure, so `DoneIsThere` now says until when it holds (such a part
file is neither published nor resumed from); and pruning to five stamps keeps the
backups of the run in progress only under `BackupsSuffice`.

Only model-checked is liveness under fairness, which is out of the prover's reach:
`DeliverReturns`, `StopIsServed`, `ShutdownDrains`, `RejectionIsPublished`, `IdleStop`,
`CallsReturn`, `BacklogDrains`, `EveryTurnProcessed`, `AlwaysOnRecovers`. Every other
property of a passing run is a theorem, or (`MixedBusIsSafe`) the instance of one for
other constants.

## Not modelled

- Commands of the products (chat, documents, tables, mail, attendance and so on:
  `helpers/*.go`, `compat`, `generated`), flag parsing, aliases, output and schemas.
  They are most of the lines of this repository, and each is a sequence of one
  process: read flags, one call, print. No property of theirs is about steps in an
  order nobody wrote, so the share of the repository that can usefully be mapped is small.
- MCP transport, keychain, PAT, device login: exchanges with one server or one store.
- Event wire format, sinks, status and list commands: data, or reading only.
- Binary upgrade: one process, step after step. Two things were met in it: an interrupted
  backup is the newest by modification time and `--rollback` installs it
  (`rollback.go:146-160`, 170-187; README.md:221), and the backup is made in the phase
  that is said to have no side effects, so after a failed upgrade the newest backup is
  the current version (`app/upgrade.go:355-359`, 483-485; README.md:195).
- In the modelled parts: named pipes of Windows and its missing daemon; reused PIDs of
  connectors; the portal and SDK sources (the first repeats the personal one, the second
  is a library); several login profiles and their migration; the audit forwarder; moves
  across devices; the text of a merged prompt; the at-mention poller, which nothing
  constructs. Assumed of the connector: every message has an id, and a run of an action
  that failed had no effect.

## Plan

Everything that must never happen in the modelled parts is proved; what could follow:

1. With a fix of the code, drop what the theorems leave out: `overlapped` in
   `LockNamesHolder` (a lock file that is never seen empty), `Uninterrupted` (a cancelled
   dispatcher that reports an error, a checkpoint voided on disk), `BackupsSuffice` (pruning
   that spares its own run), `NobodyMarksStale` (one critical section).
2. codex's transport and the cards of the connector, which share little with what is here.
3. Liveness stays with TLC; bounds could grow with a faster machine.
