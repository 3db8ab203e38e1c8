# Verification of the Cantelop SDK

This directory holds a TLA+ model of the Session runtime of `@cantelop/sdk`, of the harnesses that
run in it, and of what surrounds it: Workspace synchronization and databases, logins, the client and its App. It holds the modules, the
TLC configurations that check them on small instances, and theorems that TLAPS proves for
every value of the constants. Paths in this file are relative to the repository.

## 1. The system

The SDK lets an application run *Sessions*. A Session runtime is one Node process in a sandbox:
it hosts the application's Session behaviour (or a native harness such as Claude), takes
messages from the platform over HTTP, runs at most one background activity, and hands its
output back to a platform that polls for it. The platform itself, the applications and the
provider processes are not in the repository.

| Component | State it keeps | Operations | Interacts with |
|---|---|---|---|
| Intake mailbox (`src/mailbox.ts`) | queue, cached result promises, runner flag, `pending` | enqueue, cancel, drain, run, settle | the adapter enqueues; settle notifies quiescence |
| Runtime messages (`src/runtime-messages.ts`) | receipts, unsettled set, byte budget, completion generation, parked polls | admit, cancel, deadline timer, settlement, completions | routes call it; its cancel calls the adapter |
| Runtime quiescence (`src/runtime-quiescence.ts`) | observed generations, parked waits | observeMessage, changed, waitForQuiescence | every component that changes idleness calls `changed` |
| Session runtime adapter (`src/session-runtime-adapter.ts`) | activation promise, controls in flight, recoveries, invocations | receive, cancel, recover, activate, harness operations | composes mailbox, messages, quiescence, activity, output |
| Background activity (`src/activity.ts`) | the slot, the queue, steering chain, hook and deadline of each activity, follow-ups | start, queue, steer, cancel, extend, settle, flush | sends follow-ups to the intake; notifies quiescence |
| Cursor buffer and output (`src/cursor-buffer.ts`, `src/output.ts`) | entries, cursors, waiting publishers and readers | publish, append, read, acknowledge | user code publishes, the platform reads and acknowledges |
| Observations and log capture (`src/observability.ts`, `src/runtime-log-capture.ts`) | a cursor buffer, drop counters | best-effort publish, drop reports | process output, the platform |
| Turn queue (`src/harnesses/queue.ts`) | waiting turns, current turn | enqueue, cancel, drain, handoff | harness behaviours |
| Claude durable state (`src/harnesses/claude-durable-state.ts`, `durable-file.ts`) | one JSON file, revision, outbox, fence | open, commit, acknowledge | Claude runtime; the file survives a crash |
| Claude runtime (`src/harnesses/claude-runtime.ts`, `claude-stream.ts`, `claude-launch.ts`) | active run, buffered events, inputs and runs in the durable state | input, cancel, reset, deliver, observe, flush, recover | durable state, activity, provider process |
| Workspace database (`src/database.ts`, `session-database.ts`) | current connection, renewal in flight, users per connection | acquire, release, transaction, close, reconnect | platform credentials |
| Workspace sync (`src/sync-node.ts`, `sync.ts`, `native/.../workspacesync`) | last synced tree, tail of passes, helper process | pass, flush, stop, background loop | workspace files, the platform's store |
| Auth terminals and logins (`src/auth-terminal.ts`, `auth-code-login.ts`) | current terminal or login, its process and timers | attach, start, code, stop, kill | adapter (reserved Sessions), provider CLI |
| Terminal bridge (`src/auth-terminal-bridge.ts`, `terminal-socket.ts`) | buffered frames, paused flag | post, pause, resume, close | terminal process, websocket |
| Client event stream (`src/stream.ts`) | cursor, projection | read, reconnect | platform |
| Client, app, transport, integration (`client.ts`, `app.ts`, `transport.ts`, `integration*.ts`) | none beyond a connection | requests | platform |
| Edge, webhooks, fleets, resources (`protocol-edge.ts`, `edge-connection.ts`, `webhooks.ts`, `fleet*.ts`, `resources.ts`) | none that outlives a request | dispatch, verify, remote calls | application handlers, platform |
| Build time (`app-config*.ts`, `compiler.ts`, `build.ts`, `app-definition.ts`) | none | generate code | file system |
| Server and startup (`session-runtime-server.ts`, `-routes.ts`, `-startup.ts`, `-protocol.ts`) | the HTTP server | parse, validate, long-poll | adapter, output |
| Platform contracts (`native/.../messageprotocol`, `runtime/model`) | data types | validation | none |

What is hard in this system is not parallelism (there is one event loop) but the order of its
jobs. Promises settle in one job, their reactions and `finally` blocks run in later ones,
`queueMicrotask` defers a drain, timers and HTTP requests come in between, and user code may
hang, throw, or ignore its abort signal. Each component keeps counters and flags that are updated
in different jobs (`pending`, `pendingControls`, `running`, `flushing`, `delivered`), and other
components rely on their agreeing. The other hard part is delivery: long polls are
abandoned, responses are lost, acknowledgments repeat, and a sandbox may crash between two writes.

What makes each component correct:

- *mailbox*: serialized and first in first out; a message is delivered to user code at most once; an
  entry cancelled in the queue never runs; nothing is stranded; `pending` is exact.
- *messages*: a settled receipt never changes and says what happened; the byte budget does not leak; a
  collector of completions misses none.
- *quiescence*: a wait is answered when, and only when, the observed work is done.
- *activity*: one slot; the slot waits for provider hooks, but not forever; queued work gets its turn in order;
  idleness is announced, and means that follow-ups were handed over.
- *output*: bounded, gapless, in order; publish resolves only when the platform has the event.
- *Claude runtime*: an input is written to the provider at most once, across crashes; every
  revision is published in order and never reused.
- *harness mode*: quiescence and receipts tell the truth about work that outlives its handoff, a cancel finds every submission admitted
  before it, and every operation ends.
- *native turns*: one turn at a time has processes, down to the last descendant; a conversation identifier is claimed once; an aborted turn settles.
- *Claude deltas*: whoever commits them, the timer or the next event, a run's events are stored once and in order, and all of them before it completes.
- *observations*: publishing never waits, and what is dropped is announced, exactly.
- *sync*: never the only copy of a content is destroyed; the base and the status say what both sides agreed on; the sides converge.
- *database*: no connection is closed under an operation and none leaks.
- *logins*: at most one at a time, known as long as it runs, and each comes to an end.
- *terminal bridge*: keystrokes arrive in order, and a paused socket is resumed.
- *stream*: each event once, in order, without a gap, however connections break and chunks split.
- *server*: a shutdown waits for answers under way but not for long polls.
- *App and edge*: a caller is told the truth about its Message; a settled invocation's capability is not used; a resolve after a delete asks again.

## 2. Modelling conventions

- **One action is one job of the event loop**: a call, a timer, or a promise reaction runs to
  completion. Jobs that are ready interleave in any order. This contains every order of
  Node's macrotasks and microtasks, so a safety property that holds here holds of the real order.
  Where the code does several things in one job (cancel of a message aborts its controller *and*
  removes it from the mailbox) they are one action.
- **Data is abstracted** to what the properties tell apart. A message is an identity and, where the
  budget matters, a size; a promise is `"pending"`, `"resolved"` or `"rejected"`.
- **User code** (receive, onActivate, work, hooks, adapters) ends when it likes, and how it likes.
- **Deadlines** are timers that may fire whenever they are armed; no model counts time.
- **The platform's collectors** are not in the repository. They are modelled from what the routes and the
  comments ask of them, and marked external in the map.
- **Seeded faults.** Operators whose comment begins with "Seeded fault" are not part of any specification. Each is a
  plausible wrong version of the definition that follows it, for testing that the properties can tell
  the difference; replacing the one by the other must make TLC report the property.

## 3. The modules

`Mailbox` — `InMemoryMailbox`. `result[id]` is the cached promise, `queue` the waiting entries,
`running` the entry whose `run()` has not reached its `finally`, `drains` the `drain()` microtasks
queued by `enqueue`, `settles` the results whose `settle()` reaction is still to run. `sequence` and
`runs` record what the properties need (the second is a history variable). Actions:
`Enqueue`, `CancelQueued`, `DrainJob`, `ReceiverSettles`, `Release`, `Settle`.

`RuntimeMessages` — receipts. `status` is `receipt.state`, `cause` its `error_code`,
which is set exactly when its controller is aborted. `Reserve`, `Started`, `RequestCancel`,
`RecordOutcome` (the `then` of the delivery promise) and `Finalize` (its `finally`) are
conjuncts of the actions of `SessionIntake`. The collector polls `completions()` and reads receipts.

`RuntimeQuiescence` — generations and waits. `Changed(idleAfter)` is the call every
component makes after a step that may have changed idleness.

`SessionIntake` — the adapter in behaviour mode. It EXTENDS the three modules and composes their
operations into whole handlers: admission of queued messages, of cancel commands that
bypass the mailbox, of commands a reserved auth Session refuses; recovery; activation, memoised
whether it succeeds or fails; cancellation by request and by deadline; background work;
quiescence waits. `stage` says how far the receiver of the running entry got: throwing because its
signal aborted, awaiting activation, or in user code.

`Activity` — `InMemoryActivity`. `work[a]` follows a submission from the queue
through its promise. The array `queue` is a set, `queued`, with the submissions before each one, `ahead[a]`: an
array and its positions would distinguish states that no step tells apart. `settled`, `aborted`, `hook`, `timer`, `steers`, `adapter` and
`followups` are fields of `ActiveActivity`; `awaited` is what `settle()` captured when it began to
wait, `idleSeen` is what `isIdle` was when `stateChanged` was last called.

`CursorBuffer` — `CursorBuffer`, `SessionOutputBuffer.publish` and the output routes, with a
collector that overlaps polls, loses responses and repeats acknowledgments. It implements
`OutputHandoff`, the abstract specification: events are published, stored by the platform in
order without a gap, and confirmed only when stored.

`ClaudeStore` — `DurableClaudeStore` over `writeDurableJson`, with `flush` of `claude-runtime.ts`. `disk` is the file and
`current` the state in memory, each a revision and its outbox; `operations` are the serialized transactions that
wait for their turn. `Persist` is a transaction that succeeds; `PersistFails` one whose write fails, before or after
the rename, and fences the store; `RejectDue` and `MutationThrows` reject one operation only. The flush captures
the outbox (`batch`, `through`), sends it in order (`SendNext`, `SendFails`) and acknowledges what it captured, while
commits go on. `Crash` loses the process at any time, also inside a write. It implements `PublicationLog`, the
abstract specification: a revision has one content for ever, revisions arrive in order, and one leaves the outbox
only when the platform has it.

`ClaudeRuntime` — `createClaudeRuntime` on a native stream. Four threads of promises share the store: the
mailbox's handler (one command at a time), the work of the managed activity, the reader of native events and the
`onCancel` hook. `at[a]` is the `await` where actor `a` stands, and each action is the job that runs from one await to
the next: `Persist` applies the first transaction that waits (`Mutated`) and lets its actor go on (`Resolved`),
`PersistFails` and `RejectFenced` throw into it (`Rejected`). `stream` follows `claude-stream.ts` from starting through
closing; `written` counts what was really written to Claude and is a history variable. `ClaudeStore` answers for the
file and the outbox, so a commit here only succeeds or fails, and a flush takes any time and may fail.

`ClaudeDeltas` — `observe`, `commitObserved` and the end of a run in `claude-runtime.ts`, which `ClaudeRuntime` takes as one
step. `over` says that the result of the last turn is read: Claude (external) reports nothing after it, which the code does not check and relies on.
`deltas` is `run.buffered`, `commits` the batches in the store's queue, `awaited` the place of the one the reader waits for. A
commit may fail for lack of room, which stops the run, or fence the store.

`HarnessOperations` — the adapter in harness mode. The mailbox is a line and the message being received (`Mailbox` has it in
detail). `Receive` and `Handoff` are the two halves of the receiver, around the creation of the harness; `StopOperation` is the
operation's own deadline timer; `Withdraw` a cancel or a deadline of a receipt; `FlushFollowup` the admission of what the work sent, also by a call
that throws after it has sent some.

`NativeTurns` — `TurnQueue`, with `runJsonProcess` (`cli.ts`), `process-stop.ts` and the conversation of `claude.ts`. `phase[t]` is the
`await` a turn stands at, `group[t]` its process group, `rest` the turns whose process has closed and left descendants, `talk` and
`file` the conversation in memory and as saved, `loaded` whether it has been read (once per runtime: a read that fails rejects every turn of it), `claims` what was
ever given to a process as a new identifier. `RuntimeLost` loses everything but the file.

`RuntimeLog` — `RuntimeObserver` on its bounded `RuntimeObservationBuffer`, and the capture of console, stdout and stderr. `owed` is `droppedByTarget`;
`count` of a line is a history variable: its number among the lines of its target.

`WorkspaceFiles` — the Go service that serves both the Workspace and, in the helper process, the local directory. A request is served in two
steps, its last check and its rename, because other writers do not wait. `WorkspaceSync` EXTENDS it with `startSync`: `at` is where a cycle stands (listing
the remote side, the local side, visiting paths, awaiting a request), `listing` what the pass was told, `Decision` the three-way
decision, `queue` the tail of promises that `flush`, the poll loop and `stop` share. `held` and `since` are history variables.

`WorkspaceDatabase` — the client of `database.ts` over `session-database.ts`. `caller[k]` says which `await` an operation stands at; `users`, `retired` and
`shared` are the code's; credentials age from fresh over due to expired.

`AuthLogins` — `AuthTerminals` and `AuthCodeLogin`, which share the rule that a Workspace has one login. A command is the sequence of its remaining steps
(`todo`), since commands run one at a time in the mailbox; timers, output, exits and the attach route come between them.

`TerminalBridge` — the platform's side of a login terminal: the browser's messages from the wire (`outgoing`) through the parser's
buffer (`unparsed`) and the chain of posts to the Sandbox (`received`).

`ClientStream` — `stream.ts`, character by character as far as line endings matter: `ReadChar` is one turn of `readLines` and of the
frame and cursor checks behind it. The platform may lose a connection anywhere, resend, begin a new stream,
report an error or send what is no event, after which nothing is read.

`RuntimeServer` — the life of the HTTP server and of each request in it: bodies, long polls, recoveries, attached terminals, and the shutdown.

`AppCommands` — a submission from `app.ts` through `edge-connection.ts`, `transport.ts` and `protocol-edge.ts` to the platform: `told[t]` is what the caller of a
try waits for or was told, `job[t]` where the try is on its way, which goes on when the caller gave up. Beside it, the lookup and the
deletes of a Workspace reference.

`MC*` modules give TLC its constants. `MCServices` puts ten modules that share no state into one run. `SessionIntakeProofs` (mailbox,
receipts, quiescence, adapter), `ActivityProofs`, `CursorBufferProofs`, `ClaudeStoreProofs`, `ClaudeRuntimeProofs`, `WorkspaceSyncProofs`,
`HarnessProofs` (harness mode, native turns, deltas) and `ServicesProofs` (database, commands, server, logins, bridge, log, event stream, and
the ten parts together) hold the theorems.

## 4. The runs

Each row names the configuration's bounds and why they are enough.

| Run | Shows | Bounds |
|---|---|---|
| `intake_messages` | no entry of the mailbox is stranded, leaks a count or runs twice; waits are never stranded and answered only when quiet; a receipt says what happened and stays | two messages, one wait for any generation up to 3 (one more than can be observed), one piece of background work; symmetric in the messages |
| `intake_controls` | entries start in order; a failed activation fails all that wait for it, and is final; every admitted message settles, and leaves the queue at its deadline even behind user code that hangs | a message, a cancel command and a recovery: the smallest mix in which the mailbox, the controls and the activation all meet, and each counter of the idle predicate can be the last to fall |
| `intake_reserved` | the byte budget is exact and no completion is missed; refused commands and auth commands in a reserved Session | one refused and one auth message of sizes 1 and 2, a collector that polls without limit |
| `activity` | work and providers keep to the slot, the queue drains in order, idleness is announced and means done; settled activities leave and queued work gets its turn, although hooks and adapters may hang | two submissions of two messages, one with priority, one steerable, both hooked; two follow-ups each. Both may be queued before a drain, and either may hold the slot while the other waits |
| `activity_hook_race` | expected violation: see section 7 | two submissions, the grace never expires |
| `output` | bounded, gapless, no lost wake-up of publishers or polls; publish resolves only for stored events; the handoff is implemented; everything is acknowledged | two publishers that compete for the room one acknowledgment frees, two overlapping polls, events of two sizes, a buffer of two entries and three bytes, batches of one, three events |
| `claude_store` | the publication log is implemented and revisions are published in the end | two views (so a reused revision would show), room for two publications, three revisions and one for each failure, two failures: one of a write and one of its successor, or of the process between them |
| `claude_store_full` | expected violation: see section 7 | one lost process, a full outbox of two |
| `claude_runtime` | Claude is given no input twice, what it was given is settled with its run, a stopped run releases the slot | two inputs, so that one steers the other's run, is retained for it or is left for the next; one cancel, aborted activity or reset; one failed write or lost process |
| `claude_runtime_settled` | expected violation: see section 7 | two inputs, no cancel, no failure |
| `workspace_sync` | the base names what both sides had, "synced" is true, nothing is lost, the sides converge, stop finishes | two paths, so that a pass leaves one for later; two versions and two edits (one on each side, or two that undo each other); two passes a cycle (so the retry after a change and the pass that gives up both occur); one waiting flush; one fault. The edited path meets the faults alone, and a path in conflict without faults: with both, the instance is too large |
| `services` | ten parts that share no state, one at a time: `subject` chooses the part in the initial state, so the states of the parts add up and do not multiply | see below |

The bounds of `services`, part by part:

- *database*: two callers and two connections, so one caller holds a connection that the renewal another one asked for
  replaces; credentials age step by step; close and reconnect at any time.
- *turns*: two turns, one of them steering the other, a queue of two, one lost runtime. An identifier claimed by a turn that is
  interrupted and one claimed after a loss can both collide with the turn that follows.
- *logins*: two login processes, either a terminal or a code login, and three commands: a start, one that replaces it, and a code or
  a stop. A late close of the first meets the second.
- *bridge*: limits of 4 and 2 and six messages, so that the socket is paused, resumed and paused again, with messages left unparsed.
- *stream*: two events of two streams, two subscriptions, eight characters on the wire: more than one frame, so chunks split frames, lines and the
  pair of CR and LF; an error or a frame that is no event may end a connection.
- *harness*: a dispatch, a request and a cancel, at most one operation at a time (so the second finds no room), one follow-up each.
- *log*: one message and the process's own buffer, lines that fit and one that is too large, room for two records and two bytes, four lines.
- *deltas*: three events, so a batch of the timer, one of an event and the end may be in the queue together.
- *server*: two requests on any routes, so a poll may start after close beside one that was parked before.
- *commands*: two submissions, one by a webhook handler and by slug, with two tries each and three in all; two deletes and three lookups: one before, one
  during, one after a delete.

Deadlock checking is off where the bounds stop the model: a Session
whose messages have all settled, an output that published `MaxEvents` events, a store or a runtime that used up its
revisions or inputs, a synchronization that was stopped, a subject with no calls left. Progress is shown by the liveness properties.

`MaxMessages` (intake), `MAX_PENDING_BYTES`, `MAX_QUEUED`, `maxPending`, `maxPendingBytes`, `maxBatch`,
`CLAUDE_MAX_PUBLICATIONS`, `MaxPasses`, `MaxWaiting`, `MAX_PENDING_INPUTS`, `RESUME_PENDING_INPUTS`, `MaxOperations`,
`MAX_OBSERVATION_BYTES`, `MaxBuffered` and `MaxBufferedBytes` are limits of the code with small values. `MaxGeneration`,
`MaxBackground`, `MaxSteers`, `MaxFollowups`, `MaxRevision`, `MaxFailures`, `MaxInputs`, `MaxCancels`, `MaxEdits`, `MaxQueue`, `MaxFaults`,
`MaxLosses`, `MaxCommands`, `MaxMessages` (bridge), `MaxEvents`, `MaxStreams`, `MaxConnections`, `MaxWire`, `MaxSent`, `MaxLines`, `MaxSpans`, `MaxEventsRead`,
`MaxTries`, `MaxAllTries` and `MaxLookups` bound the model.

## 5. Fairness

- `RuntimeFairness` (SessionIntake), `LoopFairness` (Activity) and the resumptions in `CursorBuffer`: weak
  fairness of promise reactions, microtasks and timers. The event loop runs every job that stays ready;
  nothing in the code can withdraw one for ever.
- `DeadlinePasses`: `setTimeout` in `RuntimeMessages.admit` fires unless the receipt settles first.
- `ReleaseSlot(a, TRUE)`: `PROVIDER_HOOK_GRACE_MS` in `activity.ts`.
- `UserCodeSettles` is *not* part of the specification. It is the antecedent of the property that needs it,
  so the half of `MessagesFinish` that says queued messages leave is checked with user code that hangs.
- `WorkFairness` (Activity): work ends. Hooks and adapters are given no fairness: they may hang.
- In `CursorBuffer` the platform keeps polling (WF of `Read`), not every response is
  lost (SF of `Store`), and what is stored is acknowledged. These are assumptions on the platform,
  without which no buffer drains.

- In `ClaudeStore` the event loop runs due transactions, messages keep coming, so that a closed store is opened again and
  an outbox is flushed (both happen on activation and on every command), a fenced sandbox is replaced, and no
  publication fails every time it is tried (SF of `SendNext` for each revision). Failures are bounded by `MaxFailures`.
- In `ClaudeRuntime` commits and flushes settle and what was resolved goes on (WF). A stream that was cancelled or whose
  reader failed ends: `runJsonProcess` (`src/harnesses/cli.ts`) kills its process after a grace. A stream nobody
  stopped may run for ever, and Claude need not echo or answer anything.

- `TurnsFair`: the event loop and the file system go on, `process-stop.ts`'s grace timer fires, a killed process closes and a closed pipe is
  read to its end. Nothing is asked of a process that runs, of SIGTERM, or of the platform that collects what is published.
- `LoginsFair`: the event loop, the 10-minute and 60-second timers, the grace timer, and the provider's own calls (spawn, write), which settle; a killed process closes.
- `BridgeFair`: the event loop, the socket, and a Sandbox that answers its posts. Posts may fail, which closes the terminal.
- `HarnessFair`: promise reactions and the operation's timer. Work whose signal was aborted ends: that is the contract of a harness, and
  what `AbortedTurnsSettle` shows of the native ones.
- `WorkspaceSync`: the cycle goes on, and the file services answer. Writers, faults, `flush` and `stop` are given none, and are bounded.

No fairness is assumed of producers, cancels, aborts or resets.

## 6. What is proved

Every theorem holds for all values of the constants that satisfy the named `ASSUME`s, which say that certain sets are finite, that the
"none" values are no members of them and that bounds are numbers. Theorems named after an invariant (`MailboxInvariant`, ...) are the
inductive strengthenings the others rest on.

`SessionIntakeProofs` first proves the mailbox for every finite set of identities: `MailboxHoldsEntries` and its parts (`MailboxTypes`,
`NothingStranded`, `PendingIsExact`, `OpenEntriesAreHeld`, `ReceiversRunOnce`), `FirstInFirstOut`, `SettlementIsFinal`. The properties are not
inductive alone. `MailboxInv` strengthens them: the queue is strictly ordered by sequence, and its entries are open and
never ran (so a cancelled entry cannot be the running one, and the head is the oldest open entry); settled results
are the only ones with a `settle()` on its way (so the count falls once for each).

It then proves the composed runtime, for every number of messages, recoveries, waits and
background work. `IntakeImplementsMailbox` shows that each of its steps is a step of the mailbox or leaves it alone, which
carries `MailboxInv` over (`IntakeHoldsEntries`, `IntakeStartsInOrder`). `IntakeInv` adds `AdapterInv`: a message in the mailbox has a reservation;
`pendingControls` is the number of open controls; no cancelled message waits in the queue and every receiver of a message that ran called
`started()`; outcomes follow deliveries. From it: `CancellationsAreTrue` (`OutcomesAreTrue` and `CancelledNeverRuns`), `SettledReceiptsAreFinal`, and, with
`TrackerSteps` (every step that can change the idleness calls `changed()`, or makes the runtime busy), `AnswersAreQuiet` and
`NobodyIsStranded`, which assumes a Session that is not a reserved auth one. The run checks `AnsweredOnlyWhenQuiet` with messages and background
work only; with controls and recoveries it is the theorem that speaks. `FailureIsFinal` needs only that the receiver of an entry
which is not an auth command runs after a successful activation (`ActivationInv`). `IntakeCountsReceipts` is about the byte budget and the completions:
`BudgetInv` says that `pendingBytes` is the number of pairs of an unsettled receipt and one of its bytes (`Held`), so a reservation adds and a settlement removes exactly the
pairs of one receipt; `CollectInv` says that a collector that has no answer under way, and asks for what is after the current generation, knows every settled receipt, so one that parks misses nothing.

`ActivityProofs` proves every safety property of the scheduler for every set of submissions and all bounds.
`LifeInv` relates the slot, the queue, the flushing set and the fields of a submission (what is queued, who owns the slot, who
may have follow-ups left); `ProviderInv` says that steering cannot grow after the work settled unless it was captured, that a
hook starts only on the first abort, and that a timer is armed only for the owner of the slot; `OrderInv` that the queue is
totally ordered. The theorems: `SlotIsKept` (`ActivityTypes`, `WorkIsInSlot`, `QueuedWorkIsDrained`, `ProvidersAreWaitedFor`),
`IdlenessIsTold` (`IdlenessIsAnnounced`, `IdleIsDone`), `HooksStartInSlot`, `LaunchesInOrder`.

`CursorBufferProofs` proves the output for every set of publishers and polls and all limits. `BufferInv` says that the entries are
the published events after the acknowledged cursor (inductive only with the rest); that the
platform has a prefix of the events which lies between what is acknowledged and what was delivered, and every
response in flight continues some prefix it had (`CollectorInv`), so a late or repeated acknowledgment never runs ahead;
and that a parked poll has nothing to read (`ParkedInv`). The theorems: `BufferKeepsEvents` (`BufferIsGapless`, `PublishedIsStored`, `PollsAreWoken`), and
`BufferImplementsHandoff`, the refinement. `BufferSharesRoom` adds `RoomInv`: the count is the sum of the sizes of the entries, both limits hold, and
nobody is parked for whom there is room, which an append cannot break (it leaves less room) and an acknowledgment restores by waking everyone.

`ClaudeStoreProofs` proves the store for every set of views, capacity and number of failures. `StoreInv` says that the file and the memory each hold the
revisions after a prefix that has arrived (`StateOk`); that a store which is ready and not fenced has in memory what is in the
file, which is why the fence is needed; that a batch in flight follows a prefix that has arrived; and that only what has arrived is
ever acknowledged. From it `ConfirmedRevisionsAreDurable` and the refinement `StoreImplementsLog`, whose cases are a write that lands, a
publication, and an acknowledgment that lands.

`ClaudeRuntimeProofs` proves the Claude runtime for every number of inputs, cancels and failures: `InputsWrittenTruly`. That an input is written once
and never while its file shows it as accepted depends on reads made before a commit, a flush or both, so `Inv` (`RuntimeInvariant`) says, for each actor and each place
where it can wait, that what it read is still true: `QueueInv` and `StatusInv` for commits that are queued (the status found is the status
replaced), `HoldInv` for an input that was taken and is not written (it is beyond "accepted", nobody else has taken it, and nobody detaches from a stream that
is fresh), `DeliveryInv` for the reads before a flush, `PhaseInv` for where the handler, the work and the reader can be at the same time, and `SettleInv` for who settles what
was written. Most of it is claimed only of a store that is not fenced: after a failed commit what was read no longer matters, because nothing more can be written.
`RunsHaveNames` shows that the identifiers the model draws do not run out.

`WorkspaceSyncProofs` proves the safety of the synchronization for every set of paths and versions and any number of edits, passes, flushes and faults. `HeldInv`
says that listings, base, state file and requests speak of contents that were really held: a request removes or replaces only a version the
other side held, and writes one the other side has or had. It gives `SyncBaseWasAgreed` and, with the two-step service of a request (what
passed its check and is still there was the base), `SyncLosesNothing`. `CycleInv` follows the cycle under way: what its pass has settled was on both sides since
it began, a waiting request moves contents seen in the cycle, and a cycle in progress reports "syncing"; so a clean result is true when it
becomes "synced" (`SyncTellsTheTruth`). `QueueInv` bounds the tail.

`ServicesProofs` proves seven of the parts of `services`, each alone, and then the ten together:

- *database*, `DatabaseHoldsConnections`: `SharingInv` (the shared connection is open and not retired, and only retired connections are closed by
  their users), `CallersInv` (whoever holds something holds a connection that was made) and `UsersAreCounted` (the counter of a connection is
  the cardinality of `Using`, so the user who brings it to zero is the last).
- *commands*, `CommandsTellTheTruth`: `TriesInv` relates what a caller waits for to where its try is: one that has not left its caller is nowhere, and
  one refused on its way is gone and was never taken.
- *server*, `ShutdownIsOrderly`: `ShutdownInv` ties the two signals to the phases of the server: no request is in flight before it listens or after it has closed, and no poll waits once it is closing.
- *logins*, `LoginsAreKnown`: `SlotInv` (at most one of the two slots is taken, and a process that lives has it) and `CommandInv`: what is left of a command frees the slot
  before it starts a login, starts at most one, and awaits a stop only as its first step.
- *bridge*, `BridgeKeepsOrder`: `PipeInv`, by which what was received, posted, left unparsed and is outgoing are consecutive runs of the messages, where only
  the head of the posts may have been received already.
- *log*, `LogGapsAreAnnounced`: `Announced` relates the log, what each target is owed and what it has printed: up to every line the records of a target account for its
  count, and the whole log with what is owed accounts for all.
- *stream*, `StreamFollows`: the reader is a pure function of one character (`Feed`), and `Run` is what it makes of many. The invariant looks ahead: at every
  character that is still to come, in the chunk or on its way, the cursor follows and an honest platform is not refused (`ComingInv`), and after the last of them the reader is between two
  frames, at the last event sent (`SentInv`). Where a chunk is cut then changes nothing (`ReadChunkKeeps`), a connection that breaks leaves the beginning of a run
  that was fine (`FinePrefix`), and what the platform sends extends it (`FrameFine`, `SendingKeeps`). `ReadCharFeeds` ties the action to the function.
- *together*, `ServicesKeepTypes`: the part that is the subject keeps its invariant by its own lemma, the others by standing still.

`HarnessProofs` proves three parts of how a harness runs what a Session hands over:

- *harness mode*, `HarnessTracksSubmissions`: `PlaceInv` (a submission is in exactly the places its receipt and operation say) and `OrderInv` (the
  mailbox keeps the order of admission, so what was admitted before the cancel being received has left the mailbox).
- *native turns*, `TurnsRunAlone`: `GroupInv` (a turn has processes only while it reads, publishes or is being stopped, and then it is current) and `ClaimInv`
  (a turn about to launch under an identifier that is not resumable has one newer than every claim).

- *deltas*, `DeltasAreStored`: `InOrder` says that what is stored, each batch in the queue and what is buffered follow one another; `ReaderInv` that the reader waits for the
  last of the queue; `WholeInv` that a run which is live misses nothing; `OverInv` that one which has read the
  result of its last turn has nothing buffered or queued once its reader goes on. So one that completes has stored everything, provided that Claude is silent after its last result.

Facts about recursive functions (`SumOf`, `Accounted`, `Run`) need an induction that the provers do not have: the library's theorems take an operator as a
parameter. The lemma `Induction` says the same of a *set* of naturals, and follows from the least element of its complement (`WFMin`, `NatLessThanWellFounded`). A recursive function is
a CHOOSE, so each has a lemma that the function exists, that two of them agree, and the equation of one step; everything else uses only that equation.
`RemoveAtProperties` and `Induction` are stated in every module that needs them and does not extend one that has them.

## 7. Disagreements between the code and its documentation

`activity_hook_race`: `settle()` (`src/activity.ts:262`) waits for the steering and cancellation promises
as they are when the work ends. While it waits for the steering, the activity is still `current` and not
`flushing`, so a cancel, a message cancellation or the deadline reaches `abort()`, which
starts the `onCancel` hook and stores a promise nobody waits for. When the steering ends the slot goes to
the next activity while the previous one's hook is still interrupting the provider. The
comment on `onCancel` (`src/session.ts:29`) promises that the slot remains owned until the hook and the work
settle. The run uses `PromptSpec`, in which the grace never expires, so the grace is not the cause. `ProviderHoldsSlot`, a part of `SlotIsRespected`, states
what does hold: the slot covers the adapter, and every hook that had started when the work ended.

`claude_store_full`: `initialize` (`src/harnesses/claude-runtime.ts:76`) commits a revision before `onActivate` flushes. A process that is
lost with a full outbox leaves no room for it: the commit throws `Claude publication capacity`, every later activation
does the same, and what is in the file is never published, against the comment on `flush` (lines 108-109).
`RevisionsArePublished` states what does hold: every revision is published if no store is opened on a full outbox.

`claude_runtime_settled`: an input that steers a run which is ending may be made `interrupted`, and published so, by the run's
final commit, and then be set back to `accepted` by the commit in which `deliver` detaches it
(`src/harnesses/claude-runtime.ts:206`, which does not look at its status). A later start runs it, after the client that
waits as `README.md` shows took it for finished. The run has no failure and no cancel.

Remarks that are no findings, seen while modelling `ClaudeRuntime`; each one is a behaviour of the model, and no run states it:

- an input that was detached or is still accepted makes the next idle input start the *older* input's run;
- `start` sets `active` before `context.activity.start`, which throws when the command's signal has aborted: `active` then stays
  set with no work behind it, and a handler that awaits `run.ready` waits for ever;
- a final commit that throws (a fenced store, or a full outbox) leaves `active` set, which needs a restart;
- a cancel or a hook whose commit comes after the run's final commit leaves a finished run `cancelling` until the next one;
- `run_finishing` may be answered after the input was admitted and detached, and the detached input runs later.

In the intake: in a reserved auth Session a refused command observes
a generation without calling `changed()` (`src/session-runtime-adapter.ts:281`), so a wait for exactly that
generation is answered only by the next change. `NoStrandedWaiter` is therefore checked on a Session that is
not reserved.

And in the parts of `services`, also behaviours of the models:

- *database*: `close()` followed by `reconnect()` while a renewal is pending lets a caller go on with a connection that `close()` tore ("torn" in the model);
- *logins*: a terminal that starts while the lifetime is already aborted is stopped only by its own 60-second timer; `#stop` gives up waiting after
  `STOP_MS`, so a process that was killed but has not closed may overlap the next login, which `LoginIsKnown` allows;
- *deltas*: after the timer's commit was refused for lack of room, later events may be stored with a gap before them; `EventsAreStored` claims order for every run, and
  completeness only for one that completes;
- *server*: an attached terminal ends only with its login's timers and a recovery only with user code, so a shutdown may wait for either; messages are still
  admitted while the server is closing;
- *App*: `delete()` by slug of a Workspace that is absent leaves an earlier lookup cached; a caller whose signal aborted is told no id to
  retry with; after `invalid_response` and the like the Message may have been taken, which the caller cannot tell ("doubtful").

## 8. Only model-checked, and not modelled

Every safety property of the passing runs is a theorem, its invariants and its action properties alike. What stays with TLC:

- *liveness*, that is every property under fairness: TLAPS proves nothing about ENABLED;
- that the models do what they should at all: a theorem holds of a model that never moves, and the coverage of the actions is TLC's.

Definitions by recursion over data (sums of a buffer's bytes, of a log's counts, the state a reader has after a run of characters) are
recursive functions, not `RECURSIVE` operators, and are reasoned about as section 6 says; no theorem depends on what a fold of the
community modules computes.

Abstractions that a reader should know:

- `SessionIntake` has one activation and one incarnation: a sandbox that restarts loses all of this state, and starts again from `Init`. Its background work is
  abstract: it may start from a receiver, during the activation, or at any later time from the context the activation keeps; `Activity` models it alone.
- `ClaudeRuntime` leaves out settings and their conflicts, `RUN_MAX_INPUTS`, `CLAUDE_MAX_MESSAGES` and the eviction of finished inputs,
  native event contents and the projected view; `ClaudeDeltas` has the coalescing of text deltas. Failed, cancelled and interrupted
  inputs are one status, "stopped", because no guard of the code tells them apart. A full outbox is not among the
  failures of a commit there: `ClaudeStore` has it.
- `WorkspaceSync` leaves out directories, symbolic links, the validation of names and the wire format; a content is a hash. A path that fails does so a bounded number of times: an oversize
  file, which fails in every cycle until it is replaced, is not told from a transient fault. `NeedsHelper` is required before the remote read of a path, where the code
  needs it after; either way the cycle fails. One abandoned request is followed at a time: while one is under way, further ones are dropped. Of the Go sources only the file service is modelled.
- `WorkspaceDatabase` leaves out the borrowed view a transaction gives user code (`database.ts` 20-37); `AuthLogins` the formats of tickets and
  codes; `TerminalBridge` the encoding of frames and the output to the browser, which keeps no state; `ClientStream` the details
  of what makes a frame no event.
- `AppCommands` leaves out the commands that are one request and keep nothing (cancel, stop, view, status, environment, auth), the environment commands of a webhook
  handler, and the sync and terminal relays of the edge.

Not modelled, each with its reason in `PROJECT.json`: fleets and resources (declarations; the state is the platform's), build-time code
generation (sequential, run once), Session and environment interfaces (types and validation) and the Go contracts (data types). HTTP parsing,
validation, formatting and tracing keep no state across jobs.

## 9. Plan

Done: every component that keeps state across jobs of the event loop, with the theorems of section 6. What is left, in this order:

1. *Composition*: `SessionIntake` with `Activity` as the background work, replacing the abstract
   `BackgroundStarts`/`BackgroundEnds`, and `HarnessOperations` with `NativeTurns` as its harness.
2. *Refinements* to state of the parts that have none: a client's stream as a log that is read in order, the mailbox as a queue with
   cancellation, the Claude runtime's inputs as calls that are each made at most once.
3. *The rest of `AppCommands`*: environment commands of a webhook handler, and the relays of the edge.
