# Verification of Omarchy AI Bar

TLA+ models of Omarchy AI Bar: the runtime of its daemon, the display protocol,
its sockets, files and child processes, and the larger provider adapters. They are
checked with TLC on small instances and, where noted, proved with TLAPS for every
value of the constants.
Paths are relative to the repository root, which the project sees as `src/`.

## 1. The system

A user daemon polls about seventy AI providers for usage, keeps one snapshot per
provider/account scope and serves the snapshots to a desktop panel, a tray icon
and command-line clients over Unix sockets.

| Component | State | Operations | Interacts with |
|---|---|---|---|
| Scheduler (`crates/runtime/src/scheduler.rs`) | periodic deadline, popup deadline, armed and fired reset boundary per scope | set_popup_open, schedule_reset, reconcile_reset_boundaries, next_deadline, take_due | owned by the actor; reads both clocks |
| Snapshot store (`snapshot_store.rs`, `crates/domain/src/snapshot.rs`) | one snapshot per scope, watched by all readers | apply_success, apply_failure, apply_local_history, mark_history_state, apply_cost_usage, mark_scheduled, mark_refreshing, restore | owned by the actor; persistence and client tasks watch it |
| Runtime actor (`actor.rs`, `command.rs`) | command channel, running and queued fetches, optional workers, generations, backoff | refresh, popup and reset commands, schedule due, worker joined, shutdown | daemon tasks send commands; providers run as its worker tasks |
| Worker drain (`shutdown.rs`) | join set, report | cancel_and_drain | last step of the actor |
| Daemon (`crates/app/src/daemon.rs`) | snapshot cache on disk, listener, client tasks, tray | startup, persist, accept, actions, shutdown | composes all of the above on one executor thread |
| Display protocol (`crates/ipc/src/protocol.rs`, `codec.rs`) | handshake guard, sequence per connection | hello, action, ack, snapshot frames | daemon client tasks and `qml/omarchy-plugin/Service.qml` |
| Sockets and single instance (`socket.rs`, `permissions.rs`, `single_instance.rs`) | socket path, lifecycle lock | probe, unlink, bind, forward | two processes that start at once |
| Credential transport (`credential.rs`) | one-shot socket, deadline | accept, unlink, verify, read | settings frontend |
| Storage (`crates/storage`) | private files with predecessor, lock files, history database, configuration | stage, prepare, commit; reload; bounded database commands | daemon, account commands |
| Managed Codex accounts (`codex_accounts.rs`) | configuration and one `auth.json` per account | login, activate, remove | storage |
| Refresh sources, transport, child processes (`provider_refresh.rs`, `crates/providers/src`) | retry budget, child process, request ids | fetch, fallback, request, teardown | run inside the actor's workers |
| Provider adapters (`crates/providers/src/providers`) | none between fetches (two keep a cache or a token) | `fetch_at` | transport, child processes, browser profiles, vendor files |
| Domain values, notifications, CLI, packaging | none shared | projection, printing, installing | - |

What is hard here: results of worker tasks arrive in any order and after they
were superseded; requests of four kinds meet a concurrency limit, a queue, a
cooldown and a minimum interval; wall-clock boundaries are projected onto a
monotonic clock while the wall clock is stepped; a restart may fall between a
publication and its persistence; a shutdown meets tasks that ignore it. The full
list, with the line where each hazard bites and the properties aimed at it, is
`hazards` in `PROJECT.json`; entries without a property say why.

What makes each part correct:

- scheduler: a boundary fires at most once, not early, and is neither postponed
  nor forgotten; late polls cause no burst;
- store: every snapshot passes the domain's checks; a ledger is never shown with
  another fetch's sample; nothing says "refreshing" for ever;
- actor: bounded fetches, one per scope; a queue that loses and doubles nothing;
  automatic work honours backoff; scans survive automatic refreshes; admitted
  refreshes conclude;
- drain: ends, and counts each task once;
- daemon: what is restored is stale, without retained activity, and keeps a
  Retry-After;
- display: what a frontend shows comes from the daemon it talks to, never goes
  back, and converges; no panel command older than one already taken is applied;
- sockets: at most one daemon serves, under a name that leads to it; a live
  socket's name is never taken away and a lone start recovers from any crash;
- files: only whole documents, durable on return, the predecessor kept (and of a
  secret, no second copy);
- history, accounts, configuration: exactly the newest rows; a listed account has
  its home, and a failed login leaves only what it had renamed; what a command wrote
  can be loaded again, within the limits it checks;
- transport and children: a credential only to approved origins, a body sent
  once, the answer to this very request, every operation back in bounded time, no
  process left behind;
- adapters: a sign-in is asked for only when one was refused; an answered usage is
  not lost to an optional request, a cancellation is not taken for a failure; no
  page is asked for beyond a limit, nothing of a foreign origin or from a source
  that was not configured; percentages and resets make sense for every number a
  service may send.

## 2. Modules

| Module | Models | State and actions |
|---|---|---|
| `Timestamps` | instants and timestamps as positive naturals, `None` = 0 | |
| `Scheduler` | `Scheduler` and `Clock` | one action formula per method, over `normalDue`, `popupDue`, `pendingResets`, `lastFired` and the clocks `mono`, `wall` |
| `SchedulerMachine` | the scheduler under an arbitrary caller; abstract specification for the actor | |
| `SnapshotStore` | the store's transitions | operators from the current snapshot to the published one |
| `RuntimeActor` | the actor | composes `Scheduler` and `SnapshotStore`; see below |
| `ActorProperties` | properties and fairness of the actor | |
| `Daemon` | restarts and persistence around the actor | `ActorStep`, `Persist`, `Restart` |
| `ShutdownDrain` | `cancel_and_drain` | `Tick`, `Finish`, `DropAborted`, `Join`, `GraceElapsed`, `Return` |
| `DisplayClient` | the connection, request and panel state of `Service.qml` and the reducer of `Protocol.js` | operators from a frontend record to the next |
| `DisplayServer` | a task per connection, the bridge and the frontend at its far end | extends `DisplayClient`; `Serve`, `Publish`, `Deliver`, `DaemonStop`, `BridgeExits`, `HandshakeTimeout`, `PanelRetry`, `UserPanel`, ... |
| `FrontendPresence` | the daemon's tray tick over its client tasks (`daemon.rs`), and the presence policy of `frontend_presence.rs`, which only the ipc tests use, over the same connections | `Connect`, `Disconnect`, `Advance`, `TrayTick` |
| `SocketOwnership` | `DisplaySocket::bind`, cleanup, endpoint lock, pinned directory, forwarding start | one step per system call; `Crash`, `Meddle` |
| `CredentialReceiver` | the one-shot credential socket, accept and unlink apart | `Accept`, `Unlink`, `ReadByte`, `Connect`, `Send`, `Close`, `Rename`, `Tick`, ... |
| `PrivateFile` | what an atomic private file promises | abstract specification |
| `AtomicFile` | the transactions of `atomic_file.rs` and `lock.rs` on directory entries and inodes | `Step`, `Crash`, `Edit`; implements `PrivateFile` |
| `HistoryStore` | the history database, its worker thread and channel; the open one look and one transaction at a time | `Open`, `Spawn`, `Initialize`, `CheckCreated`, `Cleanup`, `Request`, `ExecuteInsert`, `Shutdown`, `Crash`, `Replace`, ... |
| `CodexAccounts` | login, activate, remove as concurrent processes | one action per step that another process can see |
| `Configuration` | validation, the configuration commands, the reloader | `RunCommand`, `Write`, `Edit`, `ReaderLoad`, `ReaderPoll` |
| `ProviderErrors`, `Transport` | error kinds; one request with redirects, limits, timeout, retry, cancellation | `Request`, `Redirect`, `Chunk`, `Timeout`, `Decide`, `Again`, `Cancel`, ... |
| `JsonRpcChild`, `Subprocess` | the JSON-RPC child and the one-shot program, with their process groups | |
| `KiroReaper` | the cleanup guards and the reaper thread of `kiro.rs`; a spawn, a signal and a scan may fail or see only a part | `Reserve`, `Spawn`, `Cleanup`, `Kill`, `ScanComplete`, `ScanPartial`, `Handoff`, `Drop`, `Receive`, ... |
| `ProviderFetch` | how any adapter's fetch is run | `Send`, `Return`; see below |
| `ProviderSources` | discovery and one refresh of a source (`provider_bootstrap.rs`, `provider_refresh.rs`) | plan |
| `MiniMax`, `Kiro`, `CodexAdapter` | one adapter each | plan |
| `AlibabaAdapters` | alibaba, alibabatokenplan, qwencloud | plan |
| `SessionAdapters` | amp, kimi, mistral, opencode | plan |
| `AgentAdapters` | claude, copilot, kilo | plan |
| `CookieAdapters` | zoommate, qoder, devin, stepfun, mimo, notion | plan |
| `KeyAdapters` | zai, openrouter, doubao, bedrock, vertexai | plan |
| `PlanAdapters` | grok, chutes, longcat, commandcode | plan |
| `MCActor`, `MCDaemon`, `MCDisplay`, `MCServices`, `Providers` | instances for TLC | |
| `SchedulerProofs`, `RuntimeActorProofs` | proofs about the scheduler, and about the actor and the daemon around it | |
| `DisplayProofs` | proofs about the display protocol: the frontend's functions, then the steps of the system | |
| `ServiceProofs`, `AccountProofs`, `ConfigurationProofs`, `StorageProofs` | proofs about the machines of `MCServices`; the last composes them | |

`RuntimeActor` follows `run`. At `pc = "select"` the actor waits; the biased
select makes it take a shutdown first and a deadline only when no command waits
(`commands = <<>>`). Workers whose join is pending are not forced before a
command: a worker that has not been joined may still be running. A handler has no
await and the daemon's executor has one thread (`daemon.rs:72`), so handlers are
atomic towards other tasks; the loops inside them (one request after another,
one freed slot after another) are separate steps at `pc = "admit"` and
`pc = "fill"` between which only the clocks move.

| Code | Action |
|---|---|
| `RuntimeHandle::refresh`, `set_popup_open`, `try_schedule_reset`, `request_shutdown` | `SubmitRefresh`, `SubmitPopup`, `SubmitReset`, `RequestShutdown` |
| `handle_command`, `handle_schedule_due` | `TakeRefresh`, `TakePopup`, `TakeScheduleReset`, `TakeScheduleDue` |
| `admit_refresh` | `AdmitUnknown`, `AdmitCoalesced`, `AdmitHistoryOnly`, `AdmitStarted`, `AdmitQueued` |
| `handle_required` | `RequiredSucceeded`, `RequiredMismatched`, `RequiredFailed` |
| `handle_abnormal_worker` | `RequiredPanicked`, `OptionalFailed` |
| `fill_required_slots` and the enrichment spawned after it | `FillSlot`, `FillDone` |
| `handle_optional` | `OptionalReturned`, `OptionalFailed`, `ReapSuperseded` |
| end of `run` | `BeginDrain`, `DrainWorkers` |

Abstractions. A sample keeps its fetch time, the generation of its refresh, one
reset boundary (the code takes the earliest of several windows; the set-valued
form is checked in `SchedulerMachine`) and its ledger, named by the generation of
the worker that computed it: this is what the properties tell apart. A provider
may return any sample, any error of `ErrorKinds` with any hint of `RetryAfters`,
a sample for another scope, or panic. `pending_capacity` is checked once, when
the actor is built, against the number of sources (`actor.rs:576`); since
`PendingConsistent` shows that a scope is queued at most once, the queue stays
within it. Receipts and broadcast events are left out, as nothing in the daemon's
state depends on them. Generation and publication counters are unbounded; the
code faults when 2^64 is reached. The publication sequence is not kept. Instants
do not saturate.

**Adapters.** Every `fetch_at` is a sequential program that asks its services
questions (an HTTP request, a file, a child process, a browser profile) and
returns a sample or one classified error. A module gives that program as a plan: a
function of the answers so far, whose value is the next question, the sample or
the error (`Ask`, `Ok`, `Err`; `Then` is Rust's `?`). `ProviderFetch` runs the plan
against every answer of `Replies`, refusals, timeouts and malformed bodies
included; the caller's token may be cancelled during or after any question, and
every later one is then answered "cancelled". An answer is a record of the fields
the code reads, with a member of a small set for each text: a token is "pasted" or
"refreshed", a JSON body is "junk" or has its figures. Figures are integers (a
ratio is scaled by 100), so rounding within one percent is abstracted. What the
operators keep is which session, region, host and fallback is tried in which
order, which failure is reported in the end, what is optional, when paging stops,
and how figures are clamped, summed and dated.

**Machines side by side.** The components of `MCServices` share no state. Each
runs alone, chosen by `machine` in the initial state, on a common bank of
registers `r1`..`r15`, so that one run checks a property of the same kind for all of
them. The parameters of the machines that proofs are about are constants of
`MCServices` under their modules' names (`FileInodes` for the inodes of files; the
suffix 1 or 2 for accounts with one command at a time or several); those of the
others are fixed in their instances. `Providers` chooses an adapter in the same way.
The display's environment (restarts, shells, the user, refusals, faults, strangers)
spends from a `budget`, chosen in the initial state from the constant `Budgets`;
`MCDisplay` names three of them, and `DisplayProofs` takes any set of budgets. A
shell that starts again does not wait for the bridge of the old one
(`Service.qml:2884`): that bridge stays a connection of its own, marked with its
`shell`, until it leaves.

## 3. Runs

| Run | Instance | Checks | Distinct states |
|---|---|---|---|
| `scheduler` | one scope, boundaries {2,4,7} of which the last plus grace is unrepresentable, one wall-clock step | a boundary fires once and in order, not early, keeps its deadline while armed, is taken; no burst | 19,522 |
| `actor_queue` | two scopes (one with local history), one slot, three commands, an unknown scope | bookkeeping, queue, ledger, scans, backoff, history never goes back | 1.67 million |
| `actor_time` | one scope, boundary, periodic deadlines, one wall-clock step, samples from past and future | validity, refinement of the scheduler | 2.02 million |
| `actor_liveness` | two scopes, one slot, fair fetches | refreshes conclude | 209 thousand |
| `daemon_restart` | one scope with history, one restart at any step | Retry-After, freshness, retained activity | 1.09 million |
| `display` | a daemon restart; a shell restart beside the old bridge; a stranger | what is shown, and which panel command is applied | 5.72 million |
| `services` | the components of `MCServices` with their crashes and faults | survival of stored state, endpoint and fallback, whole answers, request policy, no orphans, refinement of `PrivateFile`, forbidden steps, drain | 6.96 million |
| `liveness` | the same, smaller, with fairness; the display with one restart | every operation returns; the display converges | 162 thousand |
| `providers` | 28 adapters and the refresh sources | sign-in, usage kept, requests in bounds, figures | 1.41 million |
| `actor_last_good`, `daemon_retry_after`, `codex_lost_update` | as above | expected violations, section 4 | |

Why the bounds suffice. Two scopes and one slot are the smallest instance in
which a request waits while another scope's fetch ends, fails or panics, and
three commands let a scope be requested while running, while queued and again
afterwards. Scopes only interact through the slot limit and the queue, which are
proved for every number of scopes. The command channel of two entries lets a
command arrive behind another. `MaxTime` exceeds the normal cadence plus the
first backoff in `actor_time`, so a periodic deadline falls inside and outside a
cooldown. `MaxSteps = 1` puts the wall clock anywhere once, before or after
every event; the theorems of section 5 cover any number of steps. In
`daemon_restart` the Retry-After of 3 outlives the run's clock, so a fetch that
undercuts it is always visible. In `display` three connections let a task of a
broken connection still hold lines while a newer one is served, and one daemon
restart makes the sequence start again under a connected frontend. In `services`
two writers, processes or commands meet every step of one another with one crash;
the socket has its meddled variant because an outside `unlink` or `rename` between
two system calls is what the inode checks are for; the account machine with one
command at a time fails anywhere, the directory sync and the rollback of a login
included, and a configuration may pass both of its limits. In `providers` every limit
(pages, sessions, profiles, packages, rows) is 2 or 3 and exceeded by an answer;
answers that are independent of each other are varied one part at a time
(`setup.varies`), the rest answering what leads there. Deadlock is checked for the
scheduler, the actor and the daemon, where a stopped actor stutters explicitly; the
other components end: a fetch returns, a command exits, a drain is done.

`RetryAfterSurvivesRestart` is used twice on purpose: with one restart it holds,
since the persisted overlay becomes a cooldown; with two it is violated.

Fairness. `SchedulerMachine`: time passes and a reached deadline is polled; the
actor sleeps on it. Actor: a handler's loop runs to its end (no await), and a
fetch of each scope is eventually joined; transport and child processes have
finite timeouts (`providers/src/transport.rs:232`, `subprocess.rs`), and the
biased select polls finished workers before commands and deadlines. Nothing is
assumed of clients, of the shutdown request or of optional workers. Drain: the
timer runs, aborted tasks are dropped, ready tasks are joined; nothing is assumed
of a cooperative task. The code documents the limit of this
(`shutdown.rs:69-73`): a future that never yields cannot be aborted. The other
components: a ready future is polled and its timers fire, so servers, children,
clients and other processes may stay silent for ever; a lock is released because
its holder runs or the kernel releases it; the reaper's scan is complete again and
again (strong fairness), as the code repeats it until it is (it says itself,
`kiro.rs:1727-1732`, that an indeterminate responsibility may remain: without that
assumption the reaper keeps it), and a signal that is sent again and again strikes.

## 4. Findings

1. `actor_last_good`: the design document says a failed refresh never erases the
   last successful snapshot; the code does so for non-transient errors and
   explains why in a comment. The document is out of date.
2. `daemon_retry_after`: a Retry-After is lost by the second restart. After the
   first, the snapshot carries no error overlay, the next publication persists
   it so, and the next process finds nothing to back off from, although
   `run_loop` calls that state authoritative across a restart.
3. `codex_lost_update`: account commands load the configuration before they take
   its lock and write all of it back, so an `activate` beside a `remove` restores
   an account whose home the other has archived.

Observations made while modelling. Either nothing in the repository says otherwise,
or the sentence it contradicts is quoted; the models keep the behaviour, and the
properties say exactly how far the code goes.

- `ShutdownReport.cancelled` also counts workers aborted before the drain, where
  `shutdown.rs:28-29` speaks of those cut off after the grace period only.
  `GraceIsGranted` states both parts.
- Tray: the plan (`docs/superpowers/plans/2026-08-29-omarchy-ai-bar.md:298`) wants
  the fallback restored "without flicker during rapid shell reload". The policy in
  `frontend_presence.rs` has the grace for that, the daemon does not use it:
  `daemon.rs:192-198` has a grace after its start only. `TrayFollowsTasks` is the
  rule the daemon has.
- A shell that restarts while the bridge of the old one still runs: a panel line of
  the old shell may reach the runtime after one of the new (`NeverBackwards` names
  this case).
- The configuration commands read, change and write without a lock across the
  three, so that of two at once one is lost (as a whole: what is written is one
  command's change to what it had read, `OthersKept`). `config enable` and `disable`
  do not validate what they write, so the number of routes can pass the limit, and
  no command compares the encoded size with `MAX_CONFIG_BYTES`: past either limit
  neither the daemon nor a command can load the file any more. `WrittenLoads` says
  that nothing else can make it unloadable. An unsupported source mode of one
  provider fails the whole discovery.
- When the directory sync after the rename of the configuration fails, the write is
  reported as failed although the new configuration is in place; `finish_login`
  (`codex_accounts.rs:259`) then discards the new home, and the configuration lists
  an account without one (`unsynced` in `ListedHasHome`). Writing the old login
  back may fail in turn (`codex_accounts.rs:260-263`); the new one then stays, of
  the same person (`FailedLoginConfined`).
- History: `cleanup_failed_new_database` looks at the path and then removes what is
  there (`history.rs:1321-1322`); a database put there in between is removed with
  it. Socket: a name removed between the last two looks of `bind`
  (`socket.rs:190, 193`) leaves a daemon that nobody can reach. A child that answers
  with an id not used yet is believed when that id is used
  (`json_rpc_child.rs:746-751`).
- Kiro: pipes that answer after the terminal was latched no longer count, also when
  the terminal then says nothing useful (fixed by the test
  `post_commit_pipe_output_cannot_revoke_latched_pty_fallback`).
- MiniMax: the end of a "today" window is shown also when it has passed
  (`minimax.rs:3161-3168`), and "resets in" a negative number as well; a browser
  session with only a coding-plan cookie whose page cannot be read is reported as a
  missing credential although requests were sent (`minimax.rs:1348`). A refusal of
  billing asked for with a bearer token, or of the endpoint that would complete the
  page, hides usage that was answered.
- These optional requests take a cancellation for a failure that may be passed over:
  `Forgiving` in `Providers`. The fetch then returns a sample after the caller has
  cancelled it.
- OpenCode Go, enabled by hand with neither a key nor local usage at the daemon's
  start, is registered for the key and built for local data: once there is any, a
  refresh ends with an API error before a request (`Misregistered`).
- A popup opened by a frontend that then disconnects keeps the popup cadence until
  a panel is closed again.
- Lazy sources: the history cache ignores the date and the manual trigger; a
  cancellation while the keyring is read returns the primary's error.
- Codex: Auto stops at a stale login of another program; after a refused token an
  unreadable login file is reported as a missing credential.
- Grok: Auto drops the CLI's error, so an offline CLI without a login file is
  reported as a missing credential; the first entry with a token is chosen even
  when it is expired and a later one is valid.
- Chutes: a refusal (401, 403) of the optional quotas hides usage already answered;
  `chutes.rs:123` calls it authoritative; an explicit window alone is shown twice; one over-long unit fails the fetch.
- LongCat: the last session's missing credential replaces an earlier refusal.
  CommandCode: an active subscription to an unknown plan fails the fetch although
  credits were answered; only the first profile with a cookie is tried.
- Bedrock: where the next month has no local midnight, the fetch fails. Doubao: an
  unconfirmable zero is shown as 100 %. Vertex AI and Notion do not cap a
  percentage. OpenRouter and z.ai classify a 401 as an API error.
- An `ApiKeyCredential` takes the first key that is set, also when it is malformed
  and a later one is good.
- ZoomMate sends sessions whose cookie is for the second host to the first, whose
  401 ends them. StepFun: a credit plan without figures shows two full windows; a
  refreshed token lives in memory only. Devin: a top-level 1 is one percent, a
  nested one is all. Copilot: `slow_down` delays once without lengthening the
  interval; paging of budgets stops silently at its limit.

## 5. Proofs

The theorems follow from the named assumptions on the constants and from nothing
else. `SchedulerAssumption`, `ActorAssumption`: positive cadences with the popup's
shorter, a finite set of scopes with an order, positive limits. `DrainAssumption`
and `ServicesAssumption`: finite sets of tasks, writers and commands, natural
numbers for limits and bounds, a model value that is no document and no process.
`DisplayAssumption`: natural numbers for the limits and budgets of the display.
TLC evaluates all of them. The bounds of the runs are constants of the proved
modules, so a theorem holds for any number of scopes, slots, commands, writers,
processes, retries, bytes, crashes and clock steps.

Every component has the same shape of proof: an inductive invariant that is a
conjunction of named parts, one lemma that it holds initially, one lemma per group
of actions that it is kept, and a theorem that combines them. Invariants were first
checked with TLC. In `MCServices` the machine never changes, so the invariant of a
component is proved under "if this machine runs".

**Scheduler** (`SchedulerProofs`).

- `SchedulerTypeCorrect`, `ArmedNotYetFiredHolds`, `FiresInOrderHolds`. "Armed
  lies after fired" is inductive with the types, and the order of fired
  boundaries is a corollary: a boundary that fires was armed.
- `NoEarlyResetRefreshHolds` needs `ProjectedAfterGrace`: while the wall clock was
  never stepped, the deadline a boundary was given lies at or after the boundary
  plus its grace.
- `ArmedDeadlineIsFixedHolds`, `NoCatchUpBurstHolds`: action properties, from the
  types.

**Actor** (`RuntimeActorProofs`).

- `ActorTypeCorrect`, one lemma per group of actions.
- `PendingConsistentHolds`: inductive by itself. The queue only grows by a scope
  that is neither running nor queued and shrinks at its head.
- `FetchesBoundedHolds`. The bound counts workers, the code counts scopes, so the
  invariant is `OneFetchPerScope`: every required worker is the one
  `active_required` names and the active scopes do not exceed the limit. It needs
  `EnrichmentWaits`: what waits in `enrich` is optional work.
- `WorkIsInHandHolds`: no slot idles while a request waits (`NoIdleSlot`), whatever
  is marked as running has its worker (`AllActiveRun`), and a history shown as
  scanning has its scan (`ScanHasWorker`).
- `AutomaticStartsHonourBackoffHolds`. A queued request is started without looking
  at the backoff again, so the invariant is `QueuedPassed`: what waits has passed
  the cooldown and the floor, and neither can begin for a scope that is queued.
- `NoRuntimeFaultHolds`, `NeverStuckRefreshingHolds` rest on `SnapshotChanges`,
  which lists for every step what it can do to a snapshot.
- `LedgerBelongsToSampleHolds`. Two samples may have the same fetch time, so the
  comparison of `fetched_at` in `apply_cost_usage` alone is not enough. The
  invariant `EnrichesShownSample` adds that a current enrichment worker carries
  the generation of the shown sample, because starting a fetch cancels the
  scope's optional worker; `HistoryMatches` adds that exactly the scopes with a
  local history show one.
- `HistoryNeverRegressesHolds` and `ScanSurvivesAutomaticRefreshHolds` rest on
  `ScanSteps`, the same list for scans, with `ScansInOrder` (what is shown is not
  newer than the current scan, nor that than the last generation) and
  `GenerationsNameScans` (a generation names one worker).
- `ActorImplementsScheduler`: `Spec => Sched!Spec`, by simulation. `StepsSimulate`
  maps every actor step to a scheduler step or a stutter; it needs
  `ClocksBounded` and `ResetsReported` (reset times in samples are reported
  boundaries). The scheduler theorems therefore hold inside the actor.

**Daemon** (`RuntimeActorProofs`, second part).

- `EveryProcessKeepsPromises`: the actor's invariants hold in every process of the
  daemon, not only in the first. A restart is no `Init` of the actor: it begins in
  `ProcessStart`, the state `run_loop` builds from the cache, so the actor's
  invariants are shown to hold there, given that the cache is `CacheSound` (what
  it holds was published by an actor that kept its promises).
- `NoRetainedActivityHolds` with `NothingScanned`: before the first worker of a
  scope, nothing of its history is shown. `FreshOnlyByFetchHolds`: the action
  property, from the list of snapshot changes.

**Display** (`DisplayProofs`), for any number of connections, publications,
tracked requests and retries and any budget of restarts, faults and strangers.

- `DisplayKeptHolds`. None of the three properties is inductive: whether a frame is
  rejected depends on what was written to the connection it arrives on and on what
  the frontend still tracks. `DisplayKept` therefore describes both ends.
  `ConnectionsKept`: a shell has at most one open bridge, that of the running shell
  is the attached one, and any other open connection is an older shell's or belongs
  to a `Stranger`, who never gets past the handshake.
  `AwaitsHello`: until the frontend has taken the hello, it waits in the inbox or
  its answer leads the outbox with snapshots of one stream behind it. `Greeted`:
  afterwards no second hello is under way and every snapshot is of the stream the
  frontend knows. `ReportsInOrder`: what is still to be reported belongs to a
  request that is tracked and open, and a terminal state is the last that is
  reported of it; this is why evicting finished requests at the tracking limit
  never makes a progress line unsolicited. `Made` and `InOrder`: panel requests
  of one shell that are still to be read are in the order they were made, up to the
  frontend's current one, and after the one applied last unless that is a later
  shell's.
- The frontend is a set of functions that call one another, so each is given a
  contract first: `Moves` (it keeps the record sound, changes the named fields
  only, and either stays in the session or renews it) and `Spoke` (what it writes
  asks for something under an open request). The step proofs, one per action, use
  the contracts, and `Follows`: a frontend that goes on has made what it had made.
- `ShownIsOfStreamHolds` is a consequence of `DisplayKept`;
  `ShownNeverRegressesHolds` and `NoStaleActionHolds` are action properties that
  every step from a state of `DisplayKept` has. For the latter, a task whose peer
  is gone may hold older lines, but its first progress line fails and ends it
  before the command is submitted; a step backwards is therefore one of a bridge
  that is still open and of an older shell.

**Services** (`ServiceProofs`, `AccountProofs`, `ConfigurationProofs`, `StorageProofs`).

- `DrainTypeCorrect`, `EveryTaskCountedHolds`: inductive with the cardinality of
  the join set.
- `RequestWithinPolicyHolds`: `Transport!WithinPolicy`. That the whole of `send`
  takes bounded time needs an account of it (`TimeAccounted`): what has passed is
  paid for by the finished rounds and the clock of the current one.
- `EndpointAndFallbackHolds`: `EndpointOwned` of the socket (one lock holder, fresh
  inodes, the bound name is the holder's), proved with an outsider who unlinks and
  renames; without one a serving process moreover still owns its name. For the
  tray, `PresenceKept`: what the icon shows is what the last tick decided, of this
  instant or of the one before, whatever came and went since; for the policy, no
  frontend leaves after the last observation.
- `NoOrphansHolds`: `ChildInHand` (the group of the JSON-RPC child), `OutputsEnd`
  (a stream's end and an exit status are final), `Supervised` (the reaper's slots
  count exactly the jobs in its hands, so a hand-off always finds room in the
  channel).
- `WholeAnswersOnlyHolds`: `FrameKept` of the credential receiver (what was taken
  is a prefix of what the accepted client sent, and is the digits, the separator
  and the payload read so far; nothing is taken before the name is gone), with
  `ChildInHand` and `OutputsEnd`. The child may answer any id at any time, so a
  result is only claimed to bear the id that was asked for.
- `FilesImplementPrivateFile`: the file transactions, for both variants of the
  write, implement `PrivateFile`. The invariant `FileKept` says that every
  directory a crash may leave names a whole document or none, and (`StagedApart`)
  that a temporary file is complete once it is written and that, until it is
  renamed, no directory a crash may leave has it under the target's name. Without
  the first the rename could publish a torn document; without the second, filling
  the temporary file could change the current one. Every step has one of four shapes (`Quiet`,
  `Synced`, `Replaced`, `Lost`), and each shape is a step of `PrivateFile` or a
  stutter.
- `StoredStateSurvivesHolds`, from `Stored`, the conjunction of what each machine
  keeps. Files (`FileStored`, `SecretStored` on top of `FileKept`): only the step
  between the rename and its directory sync can leave unsynced entries
  (`OnlyRenamesUnsynced`), the predecessor is in the backup or still the document
  while a write is under way (`PredecessorInHand`), and a secret's inode never has
  two names (`SingleNames`). History (`HistoryKept`): the table is the newest rows
  committed; pruning by age and then by count may meet the rows in any order, so
  the row that is cut is found by the least-number principle
  (`WellFoundedInduction`) rather than by induction over the table. Accounts
  (`AccountKept`, in `AccountProofs`): what a login, a merge, a write and a command
  have in hand at every step (`CommandInHand`), and that a login has changed only
  the files it renamed (`ChangedOnly`), with every failure, also of the sync after a
  rename and of the rollback; with several commands at once only `DraftsKept` is
  left, every draft being sound by itself, which is what finding 3 comes down to.
  Configuration (`ConfigKept`): what waits to be written is valid but for the
  limits that are not checked, and a reader holds the last configuration that
  loaded.
- `NoForbiddenStepHolds`, action properties from `Stored` and `Guarded`: who holds
  a socket's name can be led back to a start (`StartKept`, with `AloneRecovers`: a
  start that runs alone gets past whatever a crash left); the opened database is
  the one that was prepared, and one put at the path later has a later identity
  (`OpenedIsOurs`); `WithinPolicy` for retries;
  `FailureIsFinal` beside `ChildInHand` for the child; `DraftsAreChanges` for the
  configuration: a draft is the file it was read from changed by its command, and
  taking the named providers out of both leaves the same routes and order. That
  removing a set twice, or from a concatenation, is removing it once
  (`Without`) is shown by the least counterexample.
- `ServicesTypeCorrect`, from `Stored`, `Guarded` and `Shaped`. The limits are the
  content: `GraceKept` (nobody is cut off inside the grace period), `HeldInside`
  (a lock is held exactly inside a transaction), `OutputsEnd` with the bounded
  output, `BuffersKept` of the credential receiver: the declared length is a
  natural number whatever the digits (again by the least counterexample), within
  the limit before anything is taken, and what was taken stays below it.

`ServicesAssumption` collects the assumptions of the modules and adds none.

Model-checked only:

- `ArmedResetIsTaken`, `RefreshConcludes`, `OperationsReturn`, `DisplayConverges`:
  liveness needs fairness and ENABLED, which the prover does not have.
- `RetryAfterSurvivesRestart`: false in general (finding 2), true with one restart.
- The adapters: their plans are functions of finite logs that fold over answers.
  What a fold computes for every log needs induction over data. The two folds
  that are proved about (`Without`, `LengthOf`) are written as recursive functions
  on positions, where a least counterexample can be taken instead.

## 6. Not modelled, and the plan

- The other adapters (about forty) are shorter variants of the patterns that are
  modelled: a key or a cookie, one or two requests, a few figures. The local log
  scanners (`local_claude.rs` and the like) are parsers over files.
- The parts of `wiring.rs`, the command line and the bridge installer that print,
  parse arguments or run installers; notifications; the Hyprland witness;
  packaging and release scripts: no state that outlives a call, or outside the
  running program.
- Domain identifiers, money and texts: validated values.
- QML rendering, settings pages and the credential dialog; the D-Bus tray object.
- Timing below the executor: a control client that stays silent stalls the daemon
  for `CONTROL_IO_TIMEOUT` (`daemon.rs:540`); this bound is not modelled.
- Crashes within `Daemon`'s `Persist` are those of `AtomicFile`, checked there.

Proofs that could come next: the parts of `RequestsStayInBounds` and
`LoginOnlyWhenRefused` that concern single plans, once their folds are written as
recursive functions on positions.

## 7. Running

    tlc -config ActorQueue.cfg MCActor
    tlapm RuntimeActorProofs.tla

The module of each configuration is listed under `runs` in `PROJECT.json`, which
also maps every definition to its source lines and names, for every checked
property, a plausible defect of the code (an operator marked "Mutant" before the
definition it replaces) under which the property fails.
