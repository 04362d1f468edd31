# MochiPort: TLA+ models, checks and proofs

MochiPort is a local daemon that connects Codex app-servers, which dial in over a
"remote-control" websocket, with IM channels (Telegram, Feishu, WeChat, WeCom), and
offers an HTTP management API to its desktop clients. `docs/architecture.md` draws the
line: Codex owns threads and turns, MochiPort owns bridge-local transport state. The
models here are about that transport state, about the turns of a Telegram conversation as
the daemon sees them, about the AI gateway's streamed answers and about the life of the
daemon itself: the places where several tasks, processes and an unreliable peer share state.

Every definition is translated from the Rust source; `PROJECT.json` maps each one to the
lines it stands for. Paths below are relative to the repository.

## Inventory

| Part | State it keeps | Operations | What is hard about it | What makes it correct | Module |
|---|---|---|---|---|---|
| Lifecycle admission gate, `src/app_state.rs` | `state`, `active_permits`, `drained` (a `Notify`) | `try_admit`, `release_permit`, `begin_draining`, `commit_shutdown`, `cancel_draining`, `wait_for_drain` | several atomics without a lock; a wake-up between check and sleep | no admitted work when a shutdown is committed | `LifecycleAdmission`, promise in `ProtectedShutdown` |
| Shutdown and restart, `src/web/manage.rs` | `lifecycle_control` mutex, shutdown signal, `DrainingGuard` | shutdown, restart: drain, snapshots, lease check, commit or cancel | the future may be dropped at any await; a deadline; the bridge is stopped and put back | a drain ends, is always owned, and the gate stays shut after the signal | `LifecycleDrain` |
| Management lease and credentials, `src/web/manage.rs` | the control file: token generation, lease, last rotation | claim, renew, release, takeover, rotate, validate | file transactions on blocking threads outlive their handlers; expiry; lost responses; restarts | generations are fencing tokens, a restart commits under its lease, a request id acts once | `ManagementLease` |
| Remote-control session, `src/remote_control_backend/*` | per connection: clients, pending map, recovery marks, epoch | request with timeout and retry, initialize, recover, replay, liveness check, cleanup | everybody initializes; timeouts race answers; the app-server forgets clients; reconnects | calls return, pending entries have a waiter, recoveries an owner, nothing runs twice | `RemoteSession` |
| Server envelopes, `server_envelopes.rs`, `protocol.rs`, `server_work.rs` | ack cursor, chunk assemblies, bounded work queue | duplicate check, reassembly, enqueue, acknowledge | repeated, damaged, reordered chunks; a full queue | in order, at most once, acknowledged only when kept | `ServerEnvelopes` |
| Telegram inbound workers, `src/bridge.rs` | `inbound_workers` (a worker per conversation), their bounded queues, the dispatching loop | dispatch, retry, idle exit, panic, end of the bridge | a worker leaving while a message arrives; a full queue; a dead worker still in the map | a conversation is handled in order, one message at a time, none is lost | `TelegramInbound` |
| Bridge task, `src/bridge.rs`, `src/web/im_api.rs` | task handle, bridge generation | start, stop, restart | start against stop; an old bridge that still polls | one bridge serves, and none while disabled | only its running flag in `LifecycleDrain`; planned |
| Connection selection, `client_state.rs`, `outbound.rs` | which connection serves a client | select, migrate, respond | reconnects between two lookups | a response goes to the connection that asked | planned |
| Turn tracking and the Telegram queue, `server_messages.rs`, `im/runtime.rs`, `im/events.rs`, `im/core/turn.rs`, `im/telegram/flow*` | bound thread, current turn, reservation, queue per conversation, fallback latch and tokens, terminal notices | events of a turn, two delayed fallbacks, start of a queued turn, `/queue`, `/stop`, `/exit`, text | five tasks end or start turns; delayed clean-ups race events; events are lost or late | a running turn is tracked, queued messages start in order and none is stranded, a failure is told once | `TelegramTurns` |
| Telegram progress bubble, `im/runtime.rs`, `im/events.rs` | the progress of a thread: revision, dirty, sending, message id, final reply | upsert, finish, claim, driver with retries, clean-up | a delivery outlives its turn; edits overlap; refused sends | one bubble, one edit at a time, forward only, the reply arrives | `ProgressDelivery` |
| Daemon process and storage migration, `daemon/process.rs`, `daemon/storage_migration.rs`, `lib.rs` | directories, manifests, lock files | migrate, recover, start and stop a daemon, commands that save a configuration | crashes between steps, one after another; unsynced directories; several processes | storage moves as a whole, is never replaced under a daemon, and an interrupted move completes | `StorageMigration`, promise in `StorageMove` |
| AI gateway: streamed answers, `ai_gateway/transform/responses_stream.rs`, `ai_gateway/request_log.rs` | translator state, taps of the body, write queue, records | translate a chunk, end, drop; persist, read, clean up | interleaved items; truncated bodies, and arguments cut off in them; a full queue; a client that leaves | well-formed and whole, or reported as failed; the log tells the end | `ResponsesStream`, `GatewayStream` |
| IM channels other than Telegram, approvals, session lists, `src/im/*` | drafts, streams, cards | commands, rendering, delivery | WeChat deferral | delivered in order | planned in part |
| AI gateway: request translation, other providers, routing state | route failures, bindings | translate, choose a route | late results | - | not modelled |
| Usage, Codex patching, configuration, onboarding, CLI, macOS client | files, external services | parsing, I/O | data rather than control | - | not modelled |

How they interact: a request of the session takes a permit of the gate before it enters
the pending map and returns it when it leaves; a drain waits for these permits, stops
the bridge, and fences the lease before it commits. The websocket reader feeds the work
queue through the envelope layer; its worker resolves pending requests, which wakes the
callers in the bridge and in the HTTP handlers. A pong taken from the queue starts
recoveries, which use the same request path. The worker also publishes the app-server's
notifications on a broadcast channel; the event router of the bridge follows them, tracks
turns, feeds the progress bubble and starts queued messages, next to the inbound worker of
the conversation and the two timers of the fallbacks. The gateway is a separate path: a
request of the Codex application goes to a provider and its answer is translated on the way
back.

The hazards of this code, each at its line and with the properties that look at it,
are the list `hazards` of `PROJECT.json`.

## Modules

### ProtectedShutdown, LifecycleAdmission, LifecycleDrain

`ProtectedShutdown` is the abstract promise: work is admitted while the gate is
`serving`, a `closed` gate may reopen, and it is `stopped` only when no work is left.

`LifecycleAdmission` has one step per atomic operation: `AdmitCheck`, `AdmitCount` and
`AdmitRecheck` are the read, the `fetch_add` and the second read of `try_admit`;
`ReleasePermit` and `NotifyOne` are the `fetch_sub` and the `notify_one` of
`release_permit`. `drained` is the stored permit of `tokio::sync::Notify`. Each step is
sequentially consistent; the orderings in the code are Acquire/Release, and no weaker
behaviour of the hardware is modelled.

`LifecycleDrain` adds the requests. `request[r]` is the await or call a request has
reached; `Suspended` are the points where its future can be dropped (`Abandon`), which
runs `DrainingGuard::drop`. `Deadline` is the outer timeout, `DrainTimeout` the inner
one. Snapshots and lease validations may come out either way. The bridge is a flag with
the three stages of `start_bridge_task` between its awaits, for the requests' own
restores (`RestoreBridge`) and for API calls (`ApiCall`, `ApiStop`, and the stages they
leave in `bridge_ops`).

### ManagementLease

`control` is the control file, `handler[h]` a request handler or a transaction that
outlives it. A handler takes `lifecycle_control` and a clock value, its transaction runs
later under the file lock (`RunTransaction`), and `Disconnect` frees the mutex without
stopping the transaction. A restart is `BeginRestart` (first validation), `EndDrain`,
`Fence` (second validation, lock kept) and `Commit`. `NewInstance` ends the process at any point
and starts a new one over the same file. `issued`, `rotations` and `intents` are history.

### RemoteSession

One connection at a time, with a client record per client key. A task is a caller, a
recovery or the opener (the websocket task initializing its clients); its phase is the
await it has reached, and what it does under `remote_control.inner` between two awaits is
one step. Registering a request and sending it are separate steps. The worker holds an
answer between taking it from the pending map and delivering it, so disconnects and
timeouts fall in between. The app-server is external: it knows a client after its
initialize, carries out a request of a client it knows once, answers or not, and may
forget a client with all it had taken from it.

### ServerEnvelopes

One stream of one connection: `cursor`, the `next_segment_id` of every assembly, the work
queue as everything `delivered` minus what is `done`. `ReceiveEnvelope` is a whole run of
`handle_server_envelope`. A whole message compares as the largest segment id, as
`ack_cursor_gt` has it. The app-server may send envelopes in any order and repeat any of
them; the history variable `ordered` says that so far none has overtaken another when it
was first sent.

### TelegramInbound

`dispatcher` is the loop of `start_bridge` with the message it has taken, `worker[w]` a
task of `run_telegram_inbound_worker`: waiting for a message, timed out, in
`handle_inbound`, or gone. What happens under the lock of `inbound_workers` is one step:
`StartWorker` and `TrySend` in the dispatcher, `Retry` for a worker that turned out to be
gone, `Leave` for the idle worker that looks at its queue once more. A panic of a handler
ends the worker and leaves its entry in the map. `BridgeEnds` is the end of the generation
or of the task: it aborts all workers, and the abort is taken to be immediate. Messages of
a conversation are numbered by arrival; `received`, `handled`, `refused` and `panicked`
are history.

### TelegramTurns

One Telegram conversation bound to one thread. `actor[a]` is the event router, the inbound
worker of the conversation, or a fallback timer (one per token); its `pc` is the await it
has reached. The state is that of `RuntimeState`: `bound`, `current`, `starting`, `queue`,
`latch` (`TerminalStatusFallbackState`), `notices`; `client_turn` is the backend's record.
`start_ops` is the lock around the start of a queued turn. `SayStarted`, `SayTerminal` and
`SayStatus` are the backend's handling of a notification with its publication on `channel`,
`Lagged` the loss of what the router did not read in time, `HandleStarted`,
`HandleTerminal` and `HandleStatus` the router's handling. `Fire` and `OrphanCleanup` are
the two fallbacks. `Lock`, `Take`, `Route`, `Mark`, `Started`, `StartFailed`, `StartStale`,
`Requeue` and `ClearQueue` are the start of a queued message, which the router, the timers
and the worker share. `RestartBridge` drops every task of the bridge and keeps the runtime.

A message is too old when a turn of the thread has started or ended since it came. For an
ordinary message this is a free choice once there has been a turn. A queued message gets its
time when it is taken from the queue, so `overtaken` says whether the time of the latest
turn has been set since (`Stamp`, at each `mark_turn_started` and `mark_turn_completed`);
`Mark` then drops it as expired, and the task goes on to the next one. Two times within one
millisecond count as different.

Left out: payloads without a turn id, errors that will be retried, steering of a running
turn, attachments and typing indicators. The two locks that the terminal boundary takes one after the other are merged. A fallback timer
fires only when the router has caught up (it waits much longer than the router needs),
unless the fault "slow" is allowed. The constant `Faults` names the faults of a run: an
answer to `turn/start` after the turn's end ("late"), a turn without a terminal event
("orphan"), a router that lags ("lag"), a refused or failed start, a notice that cannot be
sent.

### ProgressDelivery

The progress of one thread over several turns: `progress` is
`TelegramCommandProgressState`, the router takes the events of a turn in order, `closer` is
`/stop`, `/exit` or a fallback, and `driver[d]` a task of
`telegram_command_progress_driver`, which sends, sleeps and retries. Each access to the
runtime's lock is one step. Entries and texts are abstracted to a revision and to whether
the final reply is in it; `bubble[t]` is what Telegram shows for turn t.

### StorageMove, StorageMigration

`StorageMove` is the promise: a home moves to an empty or missing destination in one step
with everything in it, then the move is recorded, and it never happens twice.

`StorageMigration` is the disk and the processes. `at` maps each place to the directory
there; `soft` in a directory and `unsynced` are the changes a power failure may undo, each
undone or kept by the choice of `PowerFails`. `run[m]` is a process in
`migrate_storage_to`, one action per step that reads or changes the disk; `command[c]` a
process in `async_main`, which may load and save the configuration, make the home, and take
the daemon's lock. Legacy daemons come and go by themselves. A migration may be killed, or a
call of it fail (`KillRun`), before any of its steps, up to `MaxKills` times, and the power
may fail at any point, up to `MaxOutages` times, in any order. `reported` and `found` are
history: the homes that a migration has reported as moved by itself, and as moved before
(its manifest was found, or an interrupted run was recovered); `reused` are the homes moved
with a pending manifest that an earlier run had left unsynced and that was used again. Only
the migration's own changes are subject to loss. A legacy daemon that starts beside a home
whose move is not yet durable is taken to make its directory only when the move is on the
disk (`LegacyStart`): file systems write the two names of one directory in order. A destination inside the source, symbolic links and Windows are left out; a move
across file systems fails without an effect, like a killed run.

### ResponsesStream, GatewayStream

`ResponsesStream` is `ResponsesStreamState` as functions from a state and a chunk to the
next state. A fragment of text is a number, so that texts can be compared. Ids, sequence
numbers and the part events around a text are left out. `Parses` is
the set of arguments that are whole JSON. For a custom tool the `input` field of the JSON,
whole or not, is what follows the first fragment (`Visible`); a tool search shows nothing
before it is done. What a call is done with (`Input`) depends on whether its arguments
parse: cut off or malformed, a custom call is done with the raw arguments, although the
input in them has been streamed, and a tool search with none. A custom call that the
provider sends without the object around it is shown as a function's would be and is not
modelled apart.

`GatewayStream` runs it (`DoneWith` says what a client may find in a finished item): the provider chooses chunks with reasoning, text, parts of tool
calls, a finish reason and the usage, in any mix, and may stop anywhere; it keeps the
contract of the comment at `responses_stream.rs` 764. `body` is the stack of streams with
the taps of the log, `client` what the events show, `log` the bounded queue with the record
of the request, `reader` a page being read. `Offer` is `try_send`; `Persist`, `Flushed` and
`Purged` are the writer thread.

## Runs

| Run | Checks | Result |
|---|---|---|
| `drain` | `NoWorkAfterCommit`, `DrainHasOwner`, `SignalKeepsGateClosed`, `NoLostWakeup`, `GateSpec`, `DrainEnds` | hold; the gate implements `ProtectedShutdown`; drains end and requests return although permits may never be given back |
| `lease` | `LeaseInv`, `CommitIsFenced`, `RotatesOnce`, `LiveLeaseIsKept` | hold; `LeaseInv` is `TypeOK` and `GenerationNamesHolder` |
| `session_recovery` | `RecoveryHasOwner`, `CallReturns`, `UnknownClientRecovers` | hold, without drains |
| `session_during_drain` | `SessionInv`, `DefaultClientSettles` | hold with drains and aborted tasks; `SessionInv` is `TypeOK` and `PendingIsAwaited` |
| `replay_of_turn_start` | `ExecutedOnce` | violated, see Findings |
| `envelopes` | `StrictlyOrdered`, `AckedIsKept` | hold; the first for any order of arrival, the other as long as no envelope has overtaken another |
| `telegram_inbound` | `OneAtATime`, `HandledInOrder`, `NothingLost`, `MessagesSettle` | hold |
| `turns` | `TurnInv`, `FailureToldOnce`, `QueueHasStarter` | hold with fallbacks, late and lost events; `TurnInv` is `TypeOK` and `TurnIsTracked` |
| `turn_queue` | `QueueKept`, `ReservationHasOwner`, `QueueMoves` | hold with refused and failed starts and a restart, except for the stranding named under Observations; `QueueKept` is `QueueAccounted` and `QueuedInOrder` |
| `storage_migration` | `StorageInv`, `ReportStands`, `MovesAsAWhole`, `InterruptedCompletes` | hold with a kill and a power failure in either order, except for the two cases named under Observations; the migration implements `StorageMove`; `StorageInv` is `TypeOK`, `MoveIsOnRecord` and `DaemonOwnsHome`; `InterruptedCompletes` speaks of moves whose pending manifest is still there |
| `progress` | `DeliveryInv`, `ShownForward`, `ReplyArrives` | hold; the last except for the cases named under Observations; `DeliveryInv` is `TypeOK`, `OneRequest` and `OneBubble` |
| `gateway_stream` | `StreamInv`, `WholeAnswer`, `LogTellsTruth`, `ReadIsSettled`, `AnswerEnds`, `LogServes` | hold; `StreamInv` is `TypeOK` and `WellFormed` |

The type invariants of `LifecycleDrain`, `ServerEnvelopes` and `TelegramInbound` are proved for
every value of the constants and not checked again.

A run is `tlc -config <cfg> <module>`. Each property of a passing run has a mutant, a
plausible bug in a definition (written beside it under the comment `Mutant:`), with which
TLC finds the property violated.

### Bounds

- `LifecycleDrain`: two tasks are enough for one to race while the other drains; two
  requests for one to be abandoned and the next to find what it left behind.
  `MaxApiCalls` and `MaxPending` bound bridge calls; one start already straddles a drain.
- `ManagementLease`: two installations compete, two handlers let a detached transaction
  meet a restart. A lease lasts one tick and `MaxTime` is 1, so a lease claimed at 0 has
  expired at 1. `MaxGeneration` 3 is reached, so the refusals of `checked_generation`
  happen. Two request ids let a second rotation replace the record of the first, whose
  retry then comes too late. `MaxInstance` 2 gives one restart or crash. Clients name the
  generations they have been told (`Observed`), however old.
- `RemoteSession`: `session_recovery` has one connection with two clients and two recovery
  tasks, `session_during_drain` has a reconnect. The app-server forgets once in the passing
  runs. A caller makes one request, with its one retry.
- `ServerEnvelopes`: five messages, two of them chunked, in any order; a queue of two
  fills up.
- `TelegramInbound`: two conversations with three messages each and queues of one, so that
  a message can be handled, one wait and one be refused; one panic. There are as many
  workers as messages, since a message starts at most one.
- `TelegramTurns`: two turns let an event, a timer or an answer of the first meet the
  second. `turns` has two fallback tokens (one of the router's, one of the server's, or one
  of each turn) and one queued message; `turn_queue` two queued and two direct messages, so
  that one is put back in front of another, and a restart. With
  the second turn and a direct message a queued one is overtaken and expires. `NoticeHistory` 2 of the code's
  longer list is enough for two turns.
- `StorageMigration`: two legacy homes, so that a choice can be ambiguous and a manifest
  another home's; one command makes the destination at the wrong moment. One kill and one power failure, in either order: a kill leaves something
  behind that the power failure then takes, or the second interrupts the recovery from the
  first. One migrator runs again and again: the lock lets in one migration at a time
  (`Begin`; the proofs, for any number of them, rest on `OneMigration`) and a process takes
  nothing from one run to the next, so that another one would do what the next run does.
- `ProgressDelivery`: two turns, two updates, one refused request, one close. Four drivers
  are as many as are ever alive.
- `GatewayStream`: a tool of each kind. Of the arguments in reach, `Parses` has one each of
  one, two and three fragments, so calls of every kind end whole and cut off. Three fragments
  in three chunks reach every pair of item kinds, a third
  that returns to the first, and two tool calls of different kinds at once. A queue of two
  fills up. Readers, cleanups, failing and delayed writes meet answers of at most one chunk
  (`MaxWatched`): what the log does depends on the kind of a write, not on the answer.

Deadlock is not checked in the configurations that say so: a daemon that has shut down,
bounds that are used up, and a closed connection are legitimate ends.

### Fairness

- `LifecycleDrain`: weak fairness of each request's own steps (tokio polls a woken future,
  timers fire) and of the `notify_one` that follows a `fetch_sub` without an await. None
  for tasks returning permits, and none for clients staying connected.
- `RemoteSession`: weak fairness of callers (their timeouts included), recoveries, the
  opener, the worker, the delivery of what was sent, the ping loop, the Close message and
  the stale check of the liveness loop. None for opening or losing connections, for
  forgetting, or for drains; the app-server need not answer a request.
- `TelegramInbound`: weak fairness of the dispatcher's and the workers' own steps. None for
  the busy notice and none for handlers: the HTTP client of `outbound_http.rs` bounds the
  time to connect but not a whole request. `MessagesSettle` therefore excepts a
  conversation whose handler, or a loop whose notice, never returns.
- `TelegramTurns`: weak fairness of the router, the worker and the timers, and of the
  app-server ending its turns, which `QueueMoves` needs. None for messages or restarts.
- `StorageMigration`: weak fairness of a migration that has begun. `InterruptedCompletes`
  is about a migration that runs again, so it asks for the fairness of starting one.
- `ProgressDelivery`: weak fairness of the router, the closer and the drivers, and of the
  end of a turn. Refusals are bounded, as a driver's retries are.
- `GatewayStream`: weak fairness of the writer thread, of the blocking readers and cleanups
  and of polling a body while its client reads. None for the provider and none for the
  client: an answer may stall, and `AnswerEnds` speaks of providers that have stopped.

## Findings

`replay_of_turn_start`: the replay after an initialize of another caller sends a
`turn/start` again to an app-server that has forgotten the client. The quoted test and
message are in `PROJECT.json`.

### Observations

Behaviours that the models reach and that no property of a passing run rules out, with the source line
where they arise.

- `start_bridge_task` reads the lifecycle state and awaits two locks before it spawns the
  bridge, so a bridge can run when a shutdown is committed (`web/im_api.rs` 1643).
- The gate is reopened before the stopped bridge is started again; a request dropped in
  between leaves an active daemon without its bridge (`web/manage.rs` 505).
- A drain of more than 30 s, which the 300 s limit allows, outlasts the lease; the
  holder's renewals wait behind the restart, which is then refused (`web/manage.rs` 47).
- A release whose client disconnected can run in the middle of a later drain
  (`web/manage.rs` 1453).
  `CommitIsFenced` shows that the second validation catches it.
- A recovery refused during a drain leaves its client marked as recovering
  (`remote_control_backend/recovery.rs` 147). This is why
  `RecoveryHasOwner` is checked without drains.
- A queued Telegram message that found the thread busy is put back after the turn that
  made it busy has ended, and then waits for the next event; likewise when the confirmation
  of `/stop` cannot be sent (`im/telegram/flow/thread_routing.rs` 281, `flow.rs` 333).
  `QueueHasStarter` and `QueueMoves` except these (`excused`).
- A queued message gets its time of receipt when it is taken; when another turn starts, or
  ends, before the lock under which it would start, it is found expired and dropped with a
  notice, with the thread idle and bound, although `README.en.md` 197 says that queued
  messages start automatically (`im/telegram/flow/thread_routing.rs` 237, 305). To
  `QueueAccounted` it is given up.
- A restart of the bridge during a `turn/start` leaves the thread reserved (`forsaken`;
  `im/runtime.rs` 584).
- The start of the next turn drops the progress of the last, with a reply that was embedded
  in it and not yet delivered (`im/runtime.rs` 677). `ReplyArrives` excepts turns that another has followed, and
  turns that a command or a fallback has closed.
- A daemon start refused because of a legacy daemon has already made the destination, and
  the migration its message recommends is refused as well (`daemon/process.rs` 82, 129).
- A command that loaded its defaults before a migration can save them over the migrated
  configuration (`lib.rs` 106).
- A migration that is killed after it has published its pending manifest and before it has
  synced the directory leaves it unsynced; the next run uses it again without a sync
  (`daemon/storage_migration.rs` 171), moves the directory, and a power failure may leave
  the data at the destination without a manifest. `MoveIsOnRecord` excepts the homes moved
  this way (`reused`), of which there are none as long as nothing is killed.
- A run killed after the rename is recovered without the sync of the destination's parent
  that the migration itself makes (`daemon/storage_migration.rs` 256), and the move is
  reported; a power failure may then undo it. The same holds of a manifest that is found.
  `ReportStands` lets a power failure after a kill take such reports back (`found`); a run's
  report of its own move stands.
- A daemon of an earlier product that is started after its lock was probed runs beside the
  migration, which moves its directory away, or beside the daemon that has probed for it
  (`daemon/storage_migration.rs` 142, `daemon/process.rs` 112).
- A custom tool call that the provider cuts off in its arguments is finished with the raw
  JSON after its input was streamed, and a cut-off tool search with empty arguments
  (`ai_gateway/transform/responses_stream.rs` 953). `WholeAnswer` claims the whole input
  only of arguments that parse.
- A record of the request log stays "running" when its terminal write met a full queue, or
  when the client left before the provider answered (`ai_gateway/request_log.rs` 404).

Read beside the models and not modelled: the Anthropic translator ends a truncated body as a completed response
(`ai_gateway/providers/anthropic_messages/stream.rs` 107); a late success clears a newer
blacklisting of a route (`ai_gateway/routing_state.rs` 50).

## Proofs

`tlapm <module>` checks them. The theorems are for every value of the constants.

`LifecycleDrainProofs` assumes only `TasksFinite`, `NoRequestAssumption` and
`BoundsAssumption`.

- `TypeCorrect`, `PermitsCorrect`: `active_permits` equals the number of tasks between
  their `fetch_add` and their `fetch_sub` (`PermitCount`). Without it the counter could
  not be shown to stay a natural number, and zero would not mean drained.
- `InvCorrect`: the inductive invariant `DrainInv`. `OneOwner` (a request that is under way
  holds `lifecycle_control`), `StateOfStep` (what the step of the owner says about the
  gate) and `SignalThenCommit` make `DrainHasOwner` inductive. `DrainedSteps` says that
  past the wait no permit is counted that a task could still be admitted with: a task
  that increments afterwards reads `Draining` and backs out.
- `CommitIsSafe`, `DrainIsOwned`, `SignalIsFinal`, `WakeupIsNotLost` follow from it.
- `GateRefinement`: every step of the atomics, the notification and the requests is a
  step of `ProtectedShutdown` or a stutter.

`TelegramInboundProofs` assumes `InboundAssumption`: any conversations, workers and capacity.

- `TypeCorrect`: no queue exceeds its capacity (`TypeOK`).
- `WorkersCorrect`: the inductive invariant `WorkerInv`. `LiveRegistered` (a worker that has
  not ended is the one in the map) is what the lock around the idle check buys;
  `GoneIsEmpty` and `EntriesStarted` say what an entry can refer to; `SecondAttempt` says
  that a retry finds no entry, so the dispatcher never gives a message up.
- `OneHandler` and `NoMessageLost` follow, the latter by a step lemma of its own.
- `OrderCorrect`: with `Ordered` (handled before queued, queued before the message that
  the dispatcher is placing).

`ManagementLeaseProofs` assumes `LeaseAssumption`: any installations, request ids, handlers
and durations, and generations of any width.

- `InvCorrect`: the inductive invariant. `GenerationsBelow` (the lease in the file and all
  leases ever issued are at or below the counter) makes a new generation new, also when the
  counter is at its limit and the transaction is refused. `RotatedIsPast` (a request id
  that has rotated the credential named an older one) covers the ids whose record later
  rotations have replaced. `CallsKnown` says what a transaction that outlives its handler
  still carries; `CommitHoldsLock` that a restart past its second validation has the lock of
  the control file, so that nothing else can write it.
- `LeaseCorrect`, `CommitFenced`, `RotationOnce` and the action property `LeaseKept` follow.

`StorageMigrationProofs` assumes `StorageAssumption` and `NoDirectory`: any legacy homes,
migrations and commands, any number of kills and of power failures.

- `InvCorrect`: the inductive invariant. `HomesHoldTheirOwn` and `DestinationOnRecord` tie
  data to manifests, and `MigratorKnows` says what a migration knows of the disk at each of
  its steps. What makes a power failure between two steps harmless, also after a kill, is
  `Backed`: a final manifest that is not durable has the pending one behind it, a removal
  that is not durable a final one, and a pending manifest that is not durable belongs to a
  home that is excepted. `MoveIsOpen` says what an undone move goes back to. As long as
  nothing was killed, `UnsyncedIsOwned` says more: whatever is not durable belongs to the
  migration that is about to sync it, so no home is excepted. `ReportIsDurable` is
  `ReportStands` with what the report rests on: for a run's own report that its move and
  its manifest were synced, for one that was found the same while nothing was killed.
- `StorageCorrect` and `ReportCorrect` follow from it.
- `MoveRefinement`: every step, kills, power failures and write-backs included, is a step of `StorageMove` or
  a stutter, when the abstract home is read from what is durable.

`ProgressDeliveryProofs` assumes `ProgressAssumption`: any turns, updates, closes, refusals
and drivers.

- `InvCorrect`: the inductive invariant. `LiveIsSerial` says that a driver that has the
  delivery of a bubble which can still be claimed is the only one, and sends the revision
  that is marked. It has to be limited to `Live` bubbles: a driver may go on sending for
  a turn that the state has dropped. That such a turn is never claimed for again is
  `InOrder` (a current turn is not older than what the router has heard), `OnlyHeard`,
  `NotYetShown` and `DeadIsQuiet`. `RequestIsNew` says what the request under way relies on.
- `DeliveryCorrect` follows, and `NeverBackward`, an action property, by a step lemma for
  each action.

`TelegramTurnsProofs` assumes `TurnsAssumption`: any turns, messages, timers and restarts, any
capacity of the queue, any subset of the faults.

- `InvCorrect`: the inductive invariant. `TokenBudget` counts tokens against the statuses
  that turns have sent or still owe, which bounds both counters of the fallbacks;
  `TimersFresh` says that a timer is started once for its token. `OpsHeld` (the tasks between
  the lock of the queue and its release are the holder of `telegram_queue_start_ops`) leaves
  one task with a then makes taking, putting back, sending and expiring keep the order. `Accounted` says where
  each message is. (sent before held, held before queued)
  then makes taking, putting back and sending keep the order. `Accounted` says where each
  message is.
- `TypeCorrect` and `QueueCorrect` follow. `ReservationCorrect` needs `UnboundIsFree`, and
  `StarterCorrect` needs `UnboundIsEmpty` and counts a message that is being put back as
  waiting (`WaitingHasStarter`): `QueueHasStarter` by itself is not inductive.
- `ToldOnceCorrect`: with `NoticeInv` (a turn whose failure was told has a claim that says
  so, and a `/stop` that will take its claim back has one of a turn that was not told of).
  Its hypothesis is `MaxTurns <= NoticeHistory`: the history has room for every turn of the
  behaviour, so that no claim is dropped. With more turns the property rests on events
  of a turn not coming more than `TERMINAL_NOTICE_TURN_HISTORY_MAX` (256) turns late,
  which nothing in the code enforces; the run has a history as long as its turns.
- `TurnCorrect`: with `TrackInv`. The router lags behind the app-server, so what `current` says
  is compared with what is still on `channel`: an ending on it is of a turn that is over
  (`EndsAreOver`), the start of a turn that runs is the last thing on it and news to the
  router (`StartIsLast`, `StartIsUnsaid`), a task that completes a turn completes one that is
  over, or one of which the router will never hear (`FinishIsOver`), and a turn that runs and
  was announced has nothing behind it that could displace it (`Followed`). Its hypothesis is
  that a fallback timer fires only when the router has caught up (`"slow"` is not one of the
  `Faults`): otherwise the timer may end the current turn on behalf of the last one.

`RemoteSessionProofs` assumes `SessionAssumption`: any clients, callers and recovery tasks,
any number of connections and of clients forgotten, with or without drains.

- `InvCorrect`: the inductive invariant. `PendingIsAwaited` compares the pending maps with
  the waiting callers; what makes it inductive is `RepliedWithConnection` (a request without a
  reply is one of the open connection, so `cleanup` reaches its caller, and a send that
  finds its connection gone has nothing left to take out), `AnswerIsDrawn` (the id the worker
  holds is not one still to be drawn, so an answer never meets a later request of the same
  caller) and, in `QueueInv`, that no response outlives its connection. Callers that were
  aborted are left out throughout: their entries stay.
- `SessionCorrect` follows.
- `RecoveryOwned`, with `RecoveryInv`: a recovery task that runs is on the open connection,
  so that it ends only by finishing, by asking for the connection to be closed, or with the
  connection. Its hypothesis is `~Drains`: a drain refuses the initialize of a recovery and
  leaves the mark (`recovery.rs` 147).

The module also has the theorems of `ServerEnvelopes`, the other direction of the connection.
They assume `EnvelopeAssumption`: any seq_ids, any segment counts, any capacity.

- `EnvelopesTypeCorrect`: the queue never exceeds its capacity, an assembly never its segments.
- `OrderCorrect`: with `BehindCursor` (everything delivered is at or before the cursor), for
  any order of arrival.
- `KeptCorrect`: with `CursorCovers` (what has arrived is what the cursor covers) and
  `AssemblyWaits` (an unfinished message without damage has its assembly at the
  segment after the cursor), as long as no envelope has overtaken another (`ordered`).

`GatewayStreamProofs` assumes `ToolAssumption` and `GatewayAssumption`: any finite set of
tool indexes of any kinds, any set of arguments that parse, any readers, any capacity of the queue, answers of any length.

- `GatewayHolds`: the inductive invariant `GatewayInv`.
- `StreamHolds` rests on `Tells`: there is a run of the client under the events that wait in
  the translator's queue, each of them the next event of a well-formed response, and it
  ends in a client that `Matches` the translator. `TextShown` and `CallsHaveItems` say
  what the open items show, `OpenIsKnown` that the translator knows every open item,
  `DoneAreListed` and `Counted` that its `output` is what the client has, and `InPhase` what
  `finished` and `completed` exclude. One lemma for each function of the translator extends
  the run by the events it emits. The parts of tool calls and the calls still open are
  handled by recursive functions along an ascending list of indexes; an induction over the
  list is carried out by the least index at which the claim would fail.
- `WholeHolds` carries what was heard of the provider (`Heard`: the texts, the calls with
  their arguments, whether and how the end was meant) along the same run. `Carries` says
  that the client at the end of the run has been shown exactly that: the concatenated texts
  of its messages and of its reasoning, every open call with the arguments the translator
  has gathered, every finished call with what it is done with (`Input`), each at a place of its own
  (`Placed`), and a completion only where one was meant. The lemma of each function of the
  translator has to preserve it as well; `Answering` adds that no call is finished before
  the answer is, and `HeardAfter` that a chunk adds to what was heard what its fragments add
  to `said`. When nothing is left in the queue the run is empty and `Carries` is
  `WholeAnswer`. After the response is over nothing of it changes (`OverKeeps`), which is
  why the theorem needs no invariant of a response that was cut off.
- `LogHolds` rests on `Record`: what is recorded, what waits in the queue of the log and what
  the request has yet to offer (`todo`) together, so that the truth about a request can be
  read off them at any point, and on `TapInv`: the tap and the client agree on whether the
  response has ended.
- `ReadHolds` rests on `LockInv` (the lock of the log is held by the reader or the cleanup
  whose marker is in the queue, and there is one of each) and `ReaderInv` (what changes the
  record of a request that was over when the read began is in front of the marker).

Only model-checked:

- the liveness properties and their fairness, which this prover does not handle;
- `TurnIsTracked` when a timer may fire while the router is behind: it is false there.

## Not modelled

Token text, identity proofs and the locator of the active daemon; the splitting of client
messages into chunks; several connections at a time, the default-client migration and the
resubscription of bound threads; of the IM core, approvals, thread creation and session
lists, and the channels other than Telegram; of the AI gateway, the Anthropic and Responses
providers, the translation of requests and the routing state. The rest of the inventory's
last row is parsing, rendering and I/O: it keeps little state of its own, and what could be
wrong with it is found by tests over data. It is also most of the repository's lines, so the
share of the source that is mapped stays small. The components of `PROJECT.json` give the
reasons one by one.

## Plan

1. `BridgeTask` (`im_api.rs` 48-92 and 1598-1720, `bridge.rs` 50-140 and 537,
   `im/runtime.rs` 584-619): generations, start against stop and restart; composed with
   `LifecycleDrain` in place of its flag. Questions: a start that read `enabled` before a
   stop; a restart that spawns the new bridge before it invalidates a generation
   (`im_api.rs` 1695); the last invalidation of an old bridge (`bridge.rs` 537).
2. `ConnectionSelection` (`client_state.rs` 216-356, `outbound.rs` 24-42, 277-284 and
   383-403): several connections, the default-client migration, responses.
3. The Anthropic translator beside `ResponsesStream`, with `WholeAnswer` as its question.
4. WeChat deferral (`im/core/outbound.rs` 531-930).
