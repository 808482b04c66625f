# TLA+ models of the ReftrixMCP worker system

ReftrixMCP is an MCP server that analyses web pages.  Requests (`page.analyze`)
become BullMQ jobs in Redis; jobs run in worker processes that the server forks
and supervises, one per worker type (`page`, `embedding-backfill`).  What is
hard in this system is not the analysis but the machinery that keeps the
workers running: processes that leave after each job, exits and messages that
arrive in any order, a Redis lock with a time to live that tells workers of
different origin apart, a restart budget, and a shutdown that may begin at any
moment.  These modules model that machinery, TLC checks it on small instances,
and TLAPS proves the safety properties for every value of the constants.

Paths below are relative to `apps/mcp-server/src/`.

## Inventory of the system

| Component | State it keeps | Operations | What is hard | What makes it correct |
|---|---|---|---|---|
| **WorkerSupervisor** (`services/worker-supervisor.service.ts`, `-lifecycle.service.ts`) | per type: state, completed and restart counts, pendingRestart, SIGABRT streak; children map; pid table; isShuttingDown | ensureWorkerRunningForType, spawnWorker, IPC dispatch, exit handling, respawn chain, initiateRestart, shutdown | exits, IPC messages, timers and tool calls interleave; handlers look the child up again when they run | one supervised process per type; a restart hits the process it is meant for; budget respected; no start after shutdown; shutdown ends |
| **Lock orchestrator and retries** (`-lock-orchestrator.service.ts`, `-helpers.ts`) | lockAcquired, heartbeat timers, acquire in flight, shared lock service | acquire with retry, heartbeat, release with retry and probe, release at shutdown | fire-and-forget promises; shared connection closed by whoever is last; replies lost | own lock never forgotten; others' locks untouched |
| **Active-worker lock** (`services/worker-active-lock.service.ts`) | one Redis key per type with nonce and TTL | SET NX EX, extend, release by nonce, probe | expiry races the heartbeat | changes hands only by release or expiry |
| **Manual worker and dual-run guard** (`scripts/start-workers.ts`) | its own token, heartbeat | probe, acquire, heartbeat, release | two commands, fail-open when Redis is away | no second consumer of a locked queue |
| **Worker process, post-job exit** (`workers/shared/post-job-lifecycle.ts`, completed listeners) | done, messages in the pipe | complete, report, exit | report and exit race; dispose races its ceiling | one job, one process, one report |
| **Server entry** (`index.ts`) | | shutdown signals | exits when `shutdown()` resolves | leaves no children |
| **Deferred start of the secondary worker** (lifecycle, 338-640, `services/vision/vision-unload-handshake.ts`) | retry timer, attempts, strikes | staggered start, probe, tick, give-up, clear | calls and ticks act on what they saw before a probe; ticks overlap a slow one; probes are answered after shutdown | every deferral ends; the cap is overrun only by ticks under way; shutdown ends it |
| **Supervisor failure path** (`worker-supervisor-failure-path.service.ts`) | database rows | orphan backfill | runs beside recovery; probes a lock its own server still holds | each orphan is closed once |
| **Page-analyze queue and worker** (`queues/page-analyze-queue.ts`, `workers/page-analyze-worker.ts`) | job state, progress, lock, page rows | add, take, run, report, complete or throw, exit | the command that completes a job takes the next for a process that exits; progress is written without a lock and outlives runs | completed means saved; every job ends |
| **Stall and orphan recovery** (`worker-stall-recovery.service.ts`, `orphaned-job-utils.ts`) | judgements on jobs read earlier | recover at a start, by age, and on stall events | everybody ends jobs past their lock; the worker may live, the job may run again | no recovery hits a run that is well; a job that never ran waits again |
| **Backfill queue and collision guard** (`queues/embedding-backfill-queue.ts`, `queues/enqueue-with-collision-guard.ts`) | claim key (5 s), job id | claim, add, judge, retry under a new id, fail open, release | claim expires, replies are lost, losers look too early, jobs end meanwhile | no request dropped, no call makes two jobs, claims released by their holder, everyone answered |
| **Backfill status and crons** (`services/backfill-status.helper.ts`, `-reconciliation.service.ts`, `-recovery-reconciliation.service.ts`, `workers/embedding-backfill-worker.ts`) | status, startedAt and retry count of a page's row; embeddings still missing | write at dispatch, begin and end of a job; reconcile stale rows, recover failed ones, give up | jobs write unconditionally, crons on a status read earlier, and the process that runs the crons exits after each job | completed means nothing is missing; a cron does not reopen a closed row; the budget bounds the retries; every row comes to rest |
| **Backfill job and its fork** (`queues/embedding-backfill-processors.ts`, `workers/phases/embedding-backfill-fork-orchestrator.ts`, `-child.ts`, `shared/fork-common.ts`) | per-job lock, BullMQ's job lock, child, pipe, timers | acquire, fork, hear, relay the lock, time out, settle, fall back, release | messages, exit and timeouts race; two locks with different lives; a parent dies and its child does not | parent and child never work at once; no two covered children; last words heard; the job's lock outlasts the child; every run ends |
| **Phase-5 fork orchestrator** (`workers/phases/phase-5-fork-orchestrator.ts`) | child, timers, result promise | the same for the embedding phase of a page, by chunks | | not modelled; it shares `runChildProcess` with the above |
| **GPU resource manager** | current holder | acquire, release | switch while in use | one holder |
| **Rate limiter, auth, caches, GDPR deletion, cleanup crons, crash watcher** | counters, LRU maps, rows, files | | limits, eviction, debounced saves | mostly sequential |
| **Analysis services and MCP tools** | none across requests | pure functions of HTML, CSS, images | data, not states | not modelled |

## Modules

| Module | Models |
|---|---|
| `ActiveLock` | The lock key of each type as Redis keeps it: `owner`, `lease`, and one operator per command a client sends. A library of commands; it has no behaviour of its own. |
| `WorkerSupervisor` | The supervisor, its lock orchestrator, the child processes with their IPC pipes, the timers, manual workers, server crash and restart, Redis failures. Instantiates `ActiveLock` on its own `owner` and `lease`. |
| `SupervisedWorker` | The abstract specification: what the supervisor promises of the processes of a type, as a life cycle `none, up, ended, pausing, replacing, givenup` with a restart budget. It ends in `twinned`, of which nothing is promised: a call came while an unplanned replacement paused. |
| `WorkerLife` | The life of one worker type as those see it who may call the supervisor at any moment: state, children entry, processes and the respawn that follows each. Lock, budget and delays are left to chance. `SecondarySpawn` builds on it, and `WorkerSupervisor` implements it for each of its types. |
| `CollisionGuard` | The way a job enters its queue: `enqueueWithCollisionGuard`, its claim key in Redis, and the jobs of one canonical id. Independent of the supervisor. |
| `BackfillStatus` | The backfill columns of one page's row and everybody who writes them: the page worker, the backfill jobs, the two crons of each backfill process, the supervisor's scan. |
| `BackfillFork` | One backfill job from the moment it is taken: the processes that take it, their children, the per-job lock and BullMQ's lock of the job. |
| `PageJob` | The jobs of the page-analyze queue: their runs and what these report, the exit after a job, and the three recoveries that end or requeue jobs of others. |
| `SecondarySpawn` | The deferred start of the backfill worker: calls, probe, retry timer, overlapping ticks, give-up. Instantiates `WorkerLife` for that worker. |
| `SupervisorClaims`, `CollisionGuardClaims`, `BackfillForkClaims` | Statements of comments and documents that the code does not meet. |
| `MCWorkerSupervisor`, `MCCollisionGuard`, `MCBackfillStatus`, `MCBackfillFork`, `MCPageJob`, `MCSecondarySpawn` | The instances TLC checks. |
| `WorkerSupervisorTyping`, `-Lifecycle`, `-Lock`, `CollisionGuardProofs`, `BackfillStatusProofs`, `BackfillForkProofs`, `PageJobProofs`, `SecondarySpawnProofs` | Theorems and proofs. |

The models meet where their components do.  `BackfillStatus` takes from
`CollisionGuard` what it says of an add: nothing where the canonical job lives,
else one job under the canonical or a retry id.  `BackfillFork` refines the
steps between `BeginJob` and `Process` of one job of `BackfillStatus`; a worker
process that exits after its job is the `Leave` of `WorkerSupervisor`.  `PageJob`
takes from the supervisor that a process is started when there is none, and
opens up the run of a job that `WorkerSupervisor` calls `CompleteJob`; that
there may be a second process, a worker started by hand, an orphan of an
earlier server, or a twin, is what `claim_dual_run`, `page_live` and `page`
show.  `SecondarySpawn` takes
the life of a worker from `WorkerLife`, which has calls at every moment and
leaves the lock, the restart budget and the delays to chance; that
`WorkerSupervisor` gives each of its types such a life is `EachWorkerLives`,
checked by `page` and proved.  What the
give-up writes to a row is `GiveUpSpawn` of `BackfillStatus`.

### State and actions of `WorkerSupervisor`

One action is one turn of the event loop: a function up to its next `await`,
or one Redis command.

| Variables | Code |
|---|---|
| `closing`, `state`, `completed`, `restarts`, `pending`, `aborts` | `isShuttingDown`, `perTypeState`, `sigabrtCountByWorkerType` |
| `child`, `bound` | `children`, `bindingTable` |
| `awaiting` | the promises `shutdown()` waits for |
| `lockAcquired`, `heartbeat`, `service`, `acquire`, `release` | maps of the orchestrator; `service` is `lockService !== null`; `acquire` the attempt of `tryAcquireLockWithRetry`; `release` where `releaseRedisLockBestEffort` stands |
| `proc`, `kind`, `done`, `told`, `msg` | processes in slots: living, dead with the exit event queued, gone with its respawn chain running, orphan; whether the job is done, the process told to stop, a report in the pipe |
| `chain`, `wait` | the respawn chain by the slot that exited, and the 30 s intervals left of a 60 s delay |
| `owner`, `lease`, `manual` | the Redis keys; the manual workers |
| `server`, `boot`, `faults` | the server process and its token; Redis failures left |
| `twinned`, `late` | history since this server started: types that were called between an unexpected exit and its timer; types called into life after shutdown began |

| Actions | Code |
|---|---|
| `EnsureWorkerRunning` (`BeginAcquire`, `Spawn`, `MayStart`) | `ensureWorkerRunningForType`, `acquireRedisLockBestEffort`, `spawnWorker` |
| `AcquireGranted`, `AcquireRefused`, `AcquireFailed` | one `tryAcquireLock` of the retry loop with the callbacks that follow |
| `CompleteJob`, `Leave`, `Crash`, `OrphanEnds` | completed listener, exit after the job or when told, crash or SIGABRT, a process that outlived its server |
| `DeliverIpc` (`Trusted`, `NotifyJobCompleted`, `InitiateRestart`) | `dispatchVerifiedIpc` for `job-completed` |
| `HandleWorkerExit` (`PlannedExit`, `UnexpectedExit`, `GiveUp`, `ExitWhileClosing`) | `handleWorkerExit` and its branches, with `shutdownChild`'s exit listener |
| `RespawnTimer`, `ReleaseAttempt`, `ProbeOwn`, `ProbeForeign`, `RespawnNow` | `scheduleSigabrtAwareRespawn`, `executeSelfChainedRespawn` step by step, `scheduleRespawn` |
| `Shutdown`, `ShutdownRelease`, `ShutdownClose`, `ServerExit` | `shutdown`, `releaseRedisLockBestEffort`, `handleShutdown` |
| `ServerCrash`, `ServerStart` | a crash and a new server process with new tokens |
| `ManualFailOpen`, `ManualProbe`, `ManualClaim`, `ManualStop` | `evaluateDualRunGuard` and the release on exit |
| `Tick`, `LeaseLapses` | 30 s pass; a key expires |

Three modelling decisions deserve a word.

*Time.*  The only long delays are the lock's TTL and the two 60 s waits, all
multiples of the 30 s heartbeat.  `Tick` lets one such interval pass, and only
when nothing that takes seconds is under way (`Quiet`): retries end within
700 ms, a told process is killed within 10 s, restart delays are 3 s and 8 s.
The TTL is exactly two intervals, so `LeaseLapses` may end a lease in its last
interval before the heartbeat that would have extended it.

*Calls at any moment.*  `ensureWorkerRunningForType` looks at the state and the
children map and at nothing else, so the model lets calls come at any moment.
In two of them they do what nobody means them to.  Between an unexpected exit and
its respawn timer (3 s, or 60 s while respawns are suppressed) the state says
`running` and the map is empty: a call forks a second process, and the timer
forks its own; the map then holds one of the two and forgets the other.  And
while the server shuts down, a type that was given up as crashed is started,
and nobody waits for it.  The history variables `twinned` and `late` record
which types this has happened to, and the properties name them where they make
an exception: of twins they promise nothing that one process would need.  The
other properties, `RestartAwaitsExit`, `EachWorkerLives` (what `SecondarySpawn`
relies on), all that is said of locks and all that is said of progress, make no
exception.

*Failures.*  `MaxFaults` bounds the Redis commands that fail.  A failed SET NX
or release may have been executed with only the reply lost.

### State and actions of `CollisionGuard`

One action is one Redis command of one call with the code that runs on its
reply.  A call stands for its nonce and its retry id, both fresh UUIDs.

| Variables | Code |
|---|---|
| `pc`, `winner`, `outcome` | the command the call awaits, whether `attemptAtomicClaim` was granted, and the outcome of its `EnqueueResult` |
| `maker` | the active job whose processor makes the call (`evaluateAnalysisGuard`), if one does |
| `claim` | the nonce in the claim key |
| `job` | BullMQ's jobs by id |
| `slow`, `added`, `backed`, `removed` | history: the reply of a call's add took more than the 100 ms threshold; jobs a call created; whether a job waited or ran at some moment of the call; a job has left the queue |
| `faults` | Redis commands that may still fail |

| Actions | Code |
|---|---|
| `Begin`, `BeginWithoutClient`, `Claim` | `enqueueWithCollisionGuard`, `dispatchAfterClaim`, `attemptAtomicClaim` |
| `AtomicAdd`, `WinnerState` | `handleAtomicAdd` |
| `EnqueueRetry`, `EmitAudit` | `handleProbeTerminal`, `handleCollisionEnqueue` |
| `Lookup`, `Probe` | `dispatchLoserPath`, `handleProbeActive` |
| `Release`, `FailOpen` | `releaseClaim` in the `finally` block, `handleFailOpen` |
| `RedisFails` (`Executed`, `Recover`) | a command fails, executed or not, and the exception takes its way through `finally` and `catch` |
| `CallerDies`, `ClaimLapses` | the calling process ends; the 5 s are over |
| `StartJob`, `EndJob`, `RemoveJob` | the queue's workers, retention and `data.delete` |

*BullMQ* (`^5.66.5`) is external.  An add under an existing id changes nothing
and hands back that id.  The code takes the timestamp of the object it gets for
that of the job it found; but the client stamps the object with the present
time before it sends the command (`opts.timestamp`, which no caller sets, or
`Date.now()`), whatever job has the id.  So the timestamp looks old exactly when
the reply took more than 100 ms, and either may happen to any add: `AtomicAdd`
takes its own job for a retained one after a slow reply, and a retained one for
its own after a prompt one.  The second loses the request (`claim_retained`);
`NoRequestLost` says that it is lost in no other way while Redis answers, and
`OneJobPerCall` that the first enqueues the work a second time under the retry
id and never more.  `waiting` stands for waiting, prioritized and delayed, which
the guard tells apart only by name; `Reported` gives the names `getState` may
answer with.  Jobs may be removed at any time, by retention or `data.delete`;
after that a call may find what it judged gone, and the three safety properties
about jobs speak of the time before.

### State and actions of `BackfillStatus`

One action is one database or queue command of a writer, with the code that
runs on its result.

| Variables | Code |
|---|---|
| `status`, `started`, `retries` | `embeddingBackfillStatus`, `-StartedAt` (as an age: fresh, over 10 minutes, over an hour, or NULL), `-RetryCount` |
| `skipOld` | `embeddingBackfillSkippedAt` of a skipped row is an hour ago |
| `pending` | the categories `computeRemainingStatus` would still count |
| `analysing`, `pagePc`, `skipSeen`, `analyses` | `analysisStatus`, where the page worker stands, its skip reason, how often the page was analysed |
| `job`, `jobPc`, `jobId` | the queue's jobs by id, and where each worker's processor stands with which job |
| `up`, `cronPc`, `recoverPc` | processes alive, and where their crons stand |
| `faults`, `crashes` | database commands and recoveries of orphaned jobs that may still fail, processes that may still die |

| Actions | Code |
|---|---|
| `Analyse`, `AnalyseAndSkip`, `AnalysisFails`, `Mark` | phase 5 and `markAnalysisCompleted` in `page-analyze-worker.ts` |
| `Dispatch`, `WriteQueued`, `ReadRetries`, `PinFailed`, `ClaimSkipped`, `EnqueueAll` | `dispatchBackfillJobsForPage`, `dispatchSkipRecoveryBackfill` |
| `TakeJob`, `Guard`, `GuardRequeue`, `GuardReadd`, `GuardTerminate`, `GuardThrows` | the processor up to and with `evaluateAnalysisGuard`, whose exceptions end the job as failed |
| `BeginJob`, `Process`, `Inspect`, `Conclude`, `Fail`, `CompleteJob`, `FailJob` | the rest of the processor, `finalizeBackfillJob`, BullMQ's verdict and the exit after it |
| `Fetch`, `LeaveRow`, `Probe`, `CronInspect`, `CloseOrOrphan`, `ExpireOrRetire`, `RecoverSkipped`, `RescueQueued`, `GiveUpQueued`, `CronEnqueue` | the reconciliation cron |
| `RecoverFetch`, `RecoverClaim`, `RecoverTerminate`, `RecoverEnqueue` | the recovery cron |
| `StartWorker`, `CrashWorker`, `Stall` | a process starts and recovers orphaned jobs, dies; BullMQ's stall check |
| `GiveUpSpawn`, `PageWorkerDies`, `CloseAnalysis`, `AnalyseAgain`, `Age` | `handleSecondarySpawnTimeout`; the page worker's death and its clean-up; a new analysis; time |

Both `skipped_*` statuses are written, read and left alike and are one value.
Audit entries and failure reasons are left out: every reason that is written
may be recovered from.  A cron's batch is the one page.  A loop that adds jobs
one by one is one action for any subset of them, since an add may fail and
nothing reads the queue in between that a smaller subset does not stand for.
What an analysis leaves to compute, and whether a processor embeds its category
or part of it, is open.  A retained ended job is as good as absent: the guard
then takes a retry id, and whether it does or not is left open.

### State and actions of `BackfillFork`

One action is one turn of an event loop, one Redis command, or a step of the
child; an interval is 30 s, the period of the relay and the child's heartbeat.

| Variables | Code |
|---|---|
| `job`, `takes` | the job in its queue, how often it was taken |
| `owner`, `lease`, `renew` | BullMQ's lock of the job, and when its worker renews it |
| `holder`, `ttl`, `handle` | the per-job lock of `worker-active-lock.service.ts`, and the handle `runForkOrFallback` holds |
| `proc`, `pc` | worker processes; where `runForkOrFallback` stands |
| `child`, `verdict`, `age` | the child of `runChildProcess`: live, sent a SIGKILL, exited; how; since when |
| `pipe`, `saving`, `count` | IPC messages unread, an `updateProgress` under way, where `resultProcessedCount` comes from |
| `relay` | the interval of the lock relay is over |
| `bare`, `mute` | history: a child runs without its lock; its last words did not fit the pipe |

| Actions | Code |
|---|---|
| `TakeJob`, `Renew`, `JobLockLapses`, `Stall`, `CompleteJob`, `FailJob` | BullMQ |
| `Acquire`, `AcquireRefused`, `AcquireFailsOpen`, `Release`, `PerJobLockLapses` | `tryAcquirePerJobLock` and its four answers, `releasePerJobLock` |
| `Fork`, `ForkFails`, `Hear`, `ProgressSaved`, `Relay` | `runEmbeddingBackfillFork`, `onChildMessage` |
| `TimeOut`, `Settle` | `runChildProcess`: heartbeat and overall timeout, `exit` |
| `ChildProgress`, `ChildEnds`, `ChildDies` | `embedding-backfill-child.ts`, the kernel |
| `Answer` | the in-process fallback ends, or the result is returned |
| `StartWorker`, `CrashWorker`, `Tick` | a process starts and takes the active job back from whoever runs it, dies; 30 s pass |

`moveToFailed` with the token `"0"`, by which a starting worker takes orphans
back, does not look at the job's lock; so `StartWorker` frees the lock of a
living process too, and that process goes on without the job.  `exit` is
handled one turn of the event loop after it was emitted (`setImmediate`,
`fork-common.ts:539`); that this turn is enough to read what is left in the
pipe is an assumption about Node, and `DoneHeard` rests on it.  A message that
fails validation ends the run in the fallback whatever else the child says
(`Succeeded`).  The heartbeat timeout may fire at any
time from `HeartbeatTicks` on: which silence it is the model does not say.
Left out: the legacy mode without a fork, the abort signal, audit entries, and which of `race_lost` and the 500 ms launch
limit refused the lock, for both lead to the same fallback.  The pre-flight
probe only logs.  `scanOrphanPerJobLocks` and `cleanupOrphanPerJobLocks` are
called by no code and are left out.

### State and actions of `PageJob`

One action is one command on the queue with the code that follows its reply.
A process is a worker slot between a start and its end, and stands for its lock
tokens.

| Variables | Code |
|---|---|
| `state`, `lock`, `old` | the job in BullMQ; whose token is in its lock; `processedOn` is further back than `lockDuration + STALL_MARGIN_MS` |
| `progress` | `job.progress`, as far as `categorizeByProgress` tells it apart: 0, less than 90, 90 and more |
| `reached` | history: how far the runs of the job have come |
| `pc`, `at` | where `processPageAnalyzeJob` stands, and with which job |
| `verdict` | what a process has judged and is about to do: the loop of a recovery, a stall event |
| `calm`, `faults` | history: nothing has gone wrong so far; what may still go wrong |

| Actions | Code |
|---|---|
| `Add`, `Take`, `Stall`, `Lapse` | `addPageAnalyzeJobWithGuard`; BullMQ |
| `Begin`, `Ingest`, `Phases`, `Embed`, `Throw` (`Report`) | `processPageAnalyzeJob`, by what it does to the progress |
| `Return`, `Rethrow`, `Discard` | the worker's verdict with its token, the completed listener and `process.exit` |
| `Start`, `StartBeside`, `Run` | `startWorkers`: recovery first, then the worker |
| `Check`, `HandleStalled` | `recoverOrphanedJobs`, `handleStalledJob` |
| `Execute` (`Complete`, `Fail`, `Retry`) | the commands that follow a judgement, with the token `"0"` |
| `Crash`, `Age` | a process dies; time passes |

*What ends a job.*  `moveToCompleted` and `moveToFailed` with the token `"0"`
look at the job's state and not at its lock, so a recovery may end a job under a
living run; with its own token a run is refused once the job is no longer its
own, and BullMQ then emits no event, so the process does not exit.  `Return`
takes the next waiting job in the same command, and the process that took it
exits: `startWorkers` reckons with this (`start-workers.ts:414-415`).

*A mishap* is a command that fails, a lock that a living process loses, a
second process, or a process that dies before its recovery is over; `calm` says
there was none.  Crashes of a running process and the exit after each job are
no mishaps: the recoveries exist for them.

Left out: the rows of the page, reasons of failure, memory limits, the queue
clean-up that an operator calls, and concurrency above 1 (the default).

### State and actions of `SecondarySpawn`

One action is one turn of the event loop: a call or a tick up to its next
`await`, a timer, an exit.

| Variables | Code |
|---|---|
| `closing`, `state`, `child` | `isShuttingDown`, `perTypeState` and `children` of the type `embedding-backfill` |
| `proc` | processes of the type, and the two timers of the respawn that follows an exit |
| `call` | what each `bootstrapWorkersForPageAnalyze` awaits: the first heartbeat of the page worker, then the probe |
| `tick` | what each `runSecondarySpawnRetryTick` awaits: the probe, the queued rows, the rows in progress |
| `timer`, `attempts`, `strikes` | `secondarySpawnRetryTimer`, `-Attempts`, `-ProbeFailedStreak`: one of each, shared by all |

| Actions | Code |
|---|---|
| `Bootstrap`, `PrimaryAwaited`, `CallProbed` (`Ensure`, `ScheduleRetry`) | `bootstrapWorkersForPageAnalyze`, `ensureAllWorkersRunningStaggered` |
| `TickBegins`, `TickProbed` (`TickUnloaded`, `TickResidual`, `TickFailed`, `TickDeferred`) | `runSecondarySpawnRetryTick` before and after its probe |
| `ScanQueued`, `ScanInProgress` | `handleSecondarySpawnTimeout` |
| `Shutdown` (`ClearTimer`) | `shutdown` up to its first await |
| `WorkerStep` (`WorkerLife`) | the worker's life, by what it does to `state` and `children` |

The probe answers `unloaded`, `residual` or `failed`, or throws; a tick treats
a throw as `failed`, a call lets its caller catch it.  How the probe arrives at
its answer (three attempts, validation of what Ollama says) is left out, and so
are audit entries and the age of the deferral, which only they carry.

## Runs

| Run | Constants | Shows |
|---|---|---|
| `page` | 1 type, 2 slots, 1 manual worker, 1 server process, budget 1, threshold 1, no faults | The properties of the life cycle, `EveryChildSupervised`, `RestartAwaitsExit`, `RestartsOnlyTheSender`, `ShutdownTerminatesChildren`, the refinements `ServiceContract` and `EachWorkerLives`, and `ManualKeepsLock` and `OwnLockKnown`, which hold until a command fails. Two slots are a process and the one whose chain runs, or a twin; the first SIGABRT suppresses respawns, the second unexpected exit gives the type up, a call revives it. |
| `page_live` | 1 slot, 1 manual worker, 2 server processes, budget 2, threshold 2, 1 fault, no symmetry | `LockTakenOnlyOnExpiry`, and `ExitIsAnswered`, `ShutdownCompletes`, `LeftLocksExpire` under `FairSpec`. With one slot a type has one process at a time: a fork waits until the old one is gone, its orphan too, and there are no twins. What is left is what these properties are about: a lost reply followed by a retry, the probe of an own or a foreign lock, a crash and the lock it leaves to the next server, SIGABRT streaks, and the way through the whole budget. With two slots and two servers the graph is beyond what a liveness check can hold. |
| `enqueue` | 2 calls, every state of an older job, 2 faults, no symmetry | `NoRequestLost`, `OneJobPerCall`, `CanonicalLiveAlone`, `ClaimReleasedByOwner`, and `ClaimFreed`, `CallsAnswered` under `FairSpec`, with prompt and slow replies, dead callers and jobs that vanish between two commands. Two calls are a holder that overruns its claim and its successor, or a winner and a loser; two faults are a lost reply and a lost release. |
| `backfill` | 1 worker, 2 categories, cap 1, 2 analyses | `CompletedMeansDone`, `RetriesBounded`, `CronsKeepClosed`. Two categories are two jobs of which one may finish while the other is lost; a second analysis opens a closed row again. The job and both crons of one process interleave already; two processes are too many states for TLC and are left to the theorems, which hold for any number. Deaths are in `backfill_live`; a death here, and jobs under retry ids, were checked as well (4.9 and 3.8 million states). |
| `backfill_live` | 1 worker, 1 category, 1 fault, 1 crash, no symmetry | `Settles` under `FairSpec`: a job lost at any point, a write or the recovery of an orphan that failed, or a process that died between a status and its jobs. |
| `fork` | 2 workers, 2 takes, one talking child, 1 fault, 1 crash | `FallbackAlone`, `NoCoveredTwins`, `DoneHeard`, `JobLockOutlasts`, and `RunsEnd` under `FairSpec`. Two workers are one that lost the job, alive or dead with its child going on, and one that took it over. The job's lock lasts 4 intervals, the relay grants 2, the per-job lock lasts 1, heartbeats time out after 1 and the child after 2 (20, 2, 2, 2 and 20 in the code): short, but what matters remains, a relay that cuts the lock and a per-job lock that may expire under a living child. |
| `page_job` | 2 jobs, 2 processes, 1 mishap or death, a crowd of 3, no symmetry | `CompletedMeansStored`, `RunOwnsJob`, `NeverFailedUnrun`, and `JobsEnd` under `FairSpec`. The crowd is the processes and the jobs that are not over: two processes with one job, where one judges what the other runs, or one process with two jobs, where the end of the first takes the second along. With two faults the safety properties were checked on 3.9 million states as well. |
| `spawn` | 2 calls, 3 ticks, 2 processes, cap 3, strike limit 2, no symmetry | `OverrunUnderWay`, `QuietAfterShutdown`, and `DeferralEnds` under `FairSpec`. Three ticks are one left behind by an earlier deferral, one that gives up and one beside it; two processes are a worker and the one a late call starts beside its respawn. The code's cap and limit are 20 and 3; what matters is that a strike may come first, and the cap before all strikes. |

That several types do not disturb each other is not left to a run: the supervisor's
theorems hold for any set of types.

`Slots` and `Categories` are symmetric and permuted in `page` and `backfill`, `Slots`
and `Calls` in the runs of claims; runs with liveness properties have no symmetry.
`MaxBoots` and `MaxFaults` bound the state space; `MaxJobs`, `MaxRestarts`,
`AbortLimit` and `LeaseTicks` are parameters of the program (defaults 1 and 3;
`maxRestartAttempts`; the SIGABRT threshold; 2).

Deadlock is checked in the supervisor's runs: a server that went down for good
leaves manual workers free to come and go, or time to pass.  It is not checked in
the other models: when every call is answered and every job has ended the queue
rests, and so do a closed row, a job that has ended (`fork`, `page_job`) and a
supervisor that is shut down (`spawn`).

Four runs contradict the repository's own words and are listed as findings:

| Run | The text | The code |
|---|---|---|
| `claim_dual_run` | the lock prevents two workers on a queue | every respawn releases the lock and does not take it again |
| `claim_reenqueue` | `re_enqueued`: the job is re-added | its id is still taken by the active job that asks: nothing is added |
| `claim_retained` | the timestamp check sends a winner that met a retained finished job on to a retry | the timestamp is the client's own, so after a prompt reply the answer is `enqueued_new` and there is no job |
| `claim_fallback_lock` | a run falls back to its own process "so the Job completes" | the relay has cut the job's lock from 10 minutes to one and stops before the fallback begins: the lock may expire, and the work is done without the job |

The models show smaller disagreements that have no run of their own.  Repeated
ensure calls are called safe, but one between an unexpected exit and its timer
makes two processes.  Exit after a job is called a planned restart; for backfill
it is counted as a crash, and several in a row use up the budget.  The 60 s wait
for a stale lock to expire ends with the lock still there when it is the
server's own, which the heartbeat extends.  Near-concurrent submits are said to
leave one job; on a retained finished job each of them may enqueue a retry.
`race_lost` and `rate_limited` are documented as "no spawn, BullMQ retry"
(`worker-active-lock.service.ts:283-284`), but the job runs in the process that
was refused.  A backfill child's final count is overwritten when a progress
message before it still awaits `updateProgress` (`overwritten`).  A row can be
`queued` or `in_progress` with a NULL `startedAt` (`Trapped`), which no scan
finds, although the worker speaks of a "final terminal-reach guarantee"
(`embedding-backfill-worker.ts:524-525`).  `shutdown()`
does not await the release of the locks it says it releases, so the server may
exit with a key set (`LeftLocksExpire` says it goes away).  A manual worker in
mode `all` looks at the page lock only.  A loser of the claim that looks before
the winner's add fails open, although a comment lists losers' outcomes without
that one; of parallel calls more than one may answer `enqueued_new`; and after
a reply slower than 100 ms a call may take its own finished job for a retained
one and enqueue the work twice (the second job `OneJobPerCall` allows).  A
comment lists `failed` among what an analysis that is skipped may write to the
backfill columns (`page-analyze-worker.ts:2706-2709`), but
`skipReasonToBackfillStatus` gives it for no reason: `dispatch_phase_failed`
becomes `skipped_fork_error` (`:1316`).

Of the page jobs: a job that never started waits again after a start
(`Retry`), but is failed by the other two recoveries.  The check by age looks at
`processedOn`, which a lock that is extended in time does not move, so it also
ends a run that is well but long, even one of its own process.
`handleStalledJob` reads the job after BullMQ has put it back, and may hit the
run that has taken it meanwhile.  The tracker's last report leaves out the
embedding's share and may lower the progress below 90: a job whose process dies
then is failed although all of it was saved (`CompletedMeansStored` is one
implication for that reason).  `moveToFailed` and `retry` are two commands; a
process that dies in between leaves a job failed that nobody ran.  A job that
kills its process before it reports anything is requeued at every start; only
the supervisor's restart budget bounds this.

Of the deferred start: the give-up scans the rows although the worker may be
there by then, started by a call during the probe, while the comment speaks of
a worker "still absent" (`worker-supervisor-lifecycle.service.ts:378-379`).  A
slow give-up clears the timer of a deferral that began after its own.  Attempts
may exceed the cap the comments give them.  A tick that ends on its last strike
does no scan.  `scheduleRespawn` marks a type restarting after shutdown, and a
respawn that meets a foreign lock during shutdown marks it crashed, so that a
late call or tick may fork a worker `shutdown()` does not wait for
(`QuietAfterShutdown` makes this its only exception).  No worker sends the
supervisor a `heartbeat`, so that `waitForFirstHeartbeat` never sees one and ends
by its timeout.

### Properties

Safety: `EveryChildSupervised`, `RestartAwaitsExit`,
`OwnLockKnown`, `ManualKeepsLock`; action properties `LockTakenOnlyOnExpiry`,
`RestartsOnlyTheSender`, `ShutdownTerminatesChildren`; refinements
`ServiceContract`, `EachWorkerLives`; liveness `ExitIsAnswered`, `ShutdownCompletes`,
`LeftLocksExpire`.  Of the collision guard: `NoRequestLost`, `OneJobPerCall`,
`CanonicalLiveAlone`, `ClaimReleasedByOwner`, `ClaimFreed`, `CallsAnswered`.
Of the
backfill: `CompletedMeansDone`, `RetriesBounded`, `CronsKeepClosed`, `Settles`;
of its fork: `FallbackAlone`, `NoCoveredTwins`, `DoneHeard`, `JobLockOutlasts`,
`RunsEnd`; of page jobs: `CompletedMeansStored`, `RunOwnsJob`,
`NeverFailedUnrun`, `JobsEnd`; of the deferred start: `OverrunUnderWay`,
`QuietAfterShutdown`, `DeferralEnds`.  Each is stated in words where it is defined.

Some say less than one might wish, because the code does.  `EveryChildSupervised`,
`RestartsOnlyTheSender` and `ServiceContract` leave out the types in `twinned`,
and `ShutdownTerminatesChildren` twins the map has forgotten and the types in
`late`.  `NoRequestLost` names the two ways in which a request is dropped,
`OneJobPerCall` the way in which work is done twice, and both and
`CanonicalLiveAlone` end with the first removal of a job.  `CompletedMeansDone`
is about a page's first analysis: a second one adds missing embeddings under a
row that is still completed.  `RetriesBounded` allows the cap to be overrun,
since every writer reads the count and increments it later.  `CronsKeepClosed`
leaves jobs and the page worker out, which write unconditionally.  `Settles`
admits a row that is trapped.  `NoCoveredTwins` admits twins one of which has
lost its lock: the per-job lock is never extended, and a child may outlive it.
`RunOwnsJob` and `NeverFailedUnrun` speak of the time before the first mishap:
a second process takes every active job for an orphan and ends it, since
`startWorkers` believes that no other worker exists.  `CompletedMeansStored` and
`JobsEnd` need no such premise.

### Fairness

`FairSpec` assumes weak fairness of what Node and Redis do on their own:
callbacks that are ready run (exit events, IPC messages, replies), timers
fire, and a process that is told to stop or has finished its job ends (SIGTERM
and SIGKILL follow the message within `shutdownTimeoutMs`).  The steps of one
acquire, one release and one process (its end, its exit event, its chain) are
each one weakly fair alternative, for each of them is one thing at a time.  `Tick` is strongly
fair, because time passes however many short steps interrupt it.  Nothing is
assumed of tool calls, jobs, crashes, failures or manual workers starting and
stopping: they may happen or not.

For the collision guard, `FairSpec` is weakly fair to each call's steps (a
Redis command is answered, or fails) and to the expiry of the claim.  Jobs
need not start or end, and callers may die.

For the backfill, workers are started again, take jobs and go on with them,
crons and BullMQ's stall check tick and time passes.  The reconciliation
cron runs at a start and every five minutes (`runOnStart`); the recovery cron
has no run at the start, so it ticks only in a process that stays up for its
interval, and a process exits after each job: that it does sooner or later
rests on the queue running empty.  `Probe`
is strongly fair because the queue is not always full.  Deaths, faults and
further analyses need not happen.

For the fork, something that is due happens before time stands still: weak
fairness of time and the due steps together, and of the fallback's end.  The
child is free to be silent, and to go on until it is killed.

For page jobs, `FairSpec` is weakly fair to the steps of processes that run, to
their timers (the stall check, the check by age) and to time, and assumes that
a process is started when there is none: the supervisor respawns a worker that
exited, and after it gave up or the server ended the next tool call or start by
hand does.  Jobs need not be added, and throws and deaths need not happen.

For the deferred start: the interval fires, and what a tick awaits ends (the
probe's headers arrive within 3 s or it aborts, its body within the idle
timeout of `fetch`; updates are answered or fail).  Calls need not come or go
on, and the worker may do anything.

## Proofs

The theorems on the supervisor are about `WorkerSupervisor`'s `Spec` for arbitrary constants that
satisfy `SupervisorAssumption`, with calls at any moment; they assume nothing beyond it.  Exceptions are
part of the properties.

| Theorem | Says |
|---|---|
| `TypeCorrect` | `Spec => []TypeOK` |
| `LockTakenCorrect` | `LockTakenOnlyOnExpiry` |
| `OwnLockCorrect`, `ManualLockCorrect` | `[]OwnLockKnown`, `[]ManualKeepsLock`, each until a Redis command fails |
| `ChildrenSupervised`, `RestartAwaited`, `OnlyTheSenderRestarts` | `[]EveryChildSupervised`, `[]RestartAwaitsExit`, `RestartsOnlyTheSender` |
| `ShutdownLeavesNoChild` | `Spec => ShutdownTerminatesChildren` |
| `ServiceCorrect` | `Spec => ServiceContract` |
| `EachWorkerCorrect` | `Spec => EachWorkerLives` |

**Typing.**  `Typed` is `TypeOK` with what its bounds depend on (an acquire
attempt within its budget, a wait only in a chain).  It is inductive.

**Life cycle.**  `EveryChildSupervised` is not inductive: an exit handler that
drops the child the map holds keeps it only if that child is the one that
exited, and a respawn keeps it only if no other process of the type runs.  The
inductive invariant `Life` adds that the map's child is a process of its type
that is present (`ChildIsPresent`), that a chain belongs to a process that is
gone (`ChainOfTheGone`), that a server that is down holds nothing
(`DownIsEmpty`), and `RestartAwaitsExit`; these hold of every type.  Of the
types not in `twinned` it adds that one with a chain has no child
(`GoneLeftNoChild`) and no second chain (`OneGone`), that one that is idle or
crashed has neither child nor chain (`Settled`), that one that is said to run and
has no child is in the window, where a call makes it `twinned` (`WindowOpen`),
that an idle one has spent nothing (`IdleFresh`), and that only its child is
trusted (`BoundIsChild`).  TLC checked `Life` before it was proved.  The
preservation proof has one step per action.  For shutdown, `AwaitingAll` says
that a closing server awaits every child the map holds, except of types in
`late`; a process that lives and is not the map's child is, by `Life`, a
forgotten twin.

**Refinement.**  `SupervisedWorker`'s `phase` of a type is computed from its
processes; `Life` says that without twins there is at most one, so every step
of the supervisor moves at most one type one step along its life cycle, and a
call in the window moves it from `pausing` to `twinned`.

The other refinement, `EachWorkerLives`, may not assume that there is one
process: of twins there are two or more.  Of `Life` it needs only
`ChainOfTheGone`, which is inductive with `Typed`.  `Seen`
maps each process of the type to what a caller can tell of it: a process that
has ended and whose exit has not been handled still looks alive, one that is
gone shows the half of its chain it is in.  A step of the supervisor then is
one step of `WorkerLife` for the type it is about (`WorkerEnsure`, `WorkerExit`,
`WorkerTimer`, `WorkerRelease`, `WorkerForeign`, `WorkerRespawn`, `WorkerIpc`,
one lemma per action), and does not show for the others (`SeenOne`, `SeenFork`).
On the other side, `WorkerLives` of `SecondarySpawnProofs` says that the worker in
that module does what `WorkerLife` allows, and nothing else.

**Locks.**  `LockTakenOnlyOnExpiry` follows step by step from typing and the
nonce checks.  `OwnLockKnown` needs that an owner is one of the tokens used so
far (a new server has a new token), `ManualKeepsLock` that a heartbeat keeps
the lease at two intervals whenever time may pass; `FaultsFall` says that what
holds until the first failure need only be kept by steps without one.

The theorems on the collision guard hold for any finite set of calls and any
number of faults, and for prompt and slow replies:

| Theorem | Says |
|---|---|
| `TypeCorrect` | `[]TypeOK` |
| `ClaimReleaseCorrect` | `ClaimReleasedByOwner` |
| `CanonicalAloneCorrect` | `[]CanonicalLiveAlone` |
| `OneJobCorrect` | `[]OneJobPerCall` |
| `RequestKeptCorrect` | `[]NoRequestLost` |

**Collision guard.**  The last three speak of the time before a job is removed;
since `removed` never becomes false again (`NoneRemoved`), each invariant below is
shown for steps that remove none.  `RetriedAfterEnd` says that a retry id is in
use, or about to be, only when the canonical job has ended, which is final;
`CanonicalLiveAlone` follows.  `AddedOnce` says that a call that has not decided
yet has created nothing, unless the reply of its add was slow and it goes on to
judge its own job; and that one on its way to the bare add of fail-open finds
the id taken if it has created a job.  It needs `RetriedAfterEnd` for a retry
whose reply was lost.  `Kept` is the argument for `NoRequestLost`: a live job is
known to every call under way (`LiveBacks`), a call that asks for a state asks
about a job that exists (`JudgedExists`), a decision rests on a known job or is
that of a prompt add that met a finished one (`DecisionBacked`, `Unseen`), and
without faults so does fail-open (`FallbackBacked`); it needs `RetryIdUnused`
for the retry.

The theorems on the backfill, its fork, page jobs and the deferred start hold for any
number of workers, jobs, categories, analyses, takes, calls, ticks, faults and crashes,
and assume nothing beyond `BackfillAssumption`, `ForkAssumption`, `PageJobAssumption`
and `SpawnAssumption`:

| Theorem | Module | Says |
|---|---|---|
| `TypeCorrect` | `BackfillStatusProofs` | `[]TypeOK` |
| `CompletedCorrect` | | `[]CompletedMeansDone` |
| `ClosedKept` | | `CronsKeepClosed` |
| `BudgetCorrect` | | `[]RetriesBounded` |
| `TypeCorrect` | `BackfillForkProofs` | `[]TypeOK` |
| `AloneCorrect`, `TwinsCorrect` | | `[]FallbackAlone`, `[]NoCoveredTwins` |
| `HeardCorrect` | | `[]DoneHeard` |
| `LockCorrect` | | `JobLockOutlasts` |
| `Typing`, `Completion` | `PageJobProofs` | `[]TypeOK`, `[]CompletedMeansStored` |
| `Ownership`, `Waiting` | | `[]RunOwnsJob`, `[]NeverFailedUnrun` |
| `TypeCorrect` | `SecondarySpawnProofs` | `[]TypeOK` |
| `OverrunCorrect`, `QuietCorrect` | | `[]OverrunUnderWay`, `QuietAfterShutdown` |
| `WorkerLives` | | `Spec => Worker!Spec` |

**Backfill status.**  `DoneOnce` says that in a page's only analysis what a job
or a cron has found complete stays complete, and that nothing is found before
there is something to find; `pending` only shrinks after the analysis.  For the
budget each of the processor, the reconciliation cron and the recovery cron of
a process, and the page worker, is worth one while it stands between its
reading of the count and its write; `InBudget` bounds the count plus those
rescues under way (`Rescuing`), and a read counts only below the cap.

**Backfill fork.**  `Apart` says that a child lives with a running parent only
while that parent waits for it (`FallbackAlone`), and that a live child or one
about to be forked is the holder of the per-job lock or is bare (`Covered`);
twins that are both covered would both be the holder.  `Heard` follows the last words of a child that exited cleanly from the pipe
into `count`: they are unread, or heard, or were lost, or some message was found invalid, after which
the job falls back (`Kept`).  `Leased` says
that until a command fails the owner's lease is above 0 while its child runs,
and above 1 unless the relay is due, so that it lasts to the next interval; a
relay that granted one interval would not.

**Page jobs.**  `IStored` says that a job whose progress is saved, or that is
completed, or judged complete by anybody, has been through the phases that
save, and so has the run that is past them; `reached` never falls.
`IReached` says that a job which a run is past its beginning with, or has
reported progress for, was begun.  `ICalm` is the situation before the first
mishap: there is one process (`Alone`); while it recovers, nobody runs
(`Recovering`); and when it serves, the only active job is the one it runs, under its lock, and
who is still to be judged is over or too old (`Serving`).  Both calm properties follow, and each step is either
a mishap or keeps it.

**Deferred start.**  `OverrunUnderWay` is inductive with typing: a tick that begins
adds one to both sides, one that ends below the cap leaves nothing to show, one that
reaches the cap stays under way until it clears the counter, and a counter that
is cleared is below the cap.  For `QuietAfterShutdown`, `Shut` says that after shutdown the
counters stand at 0, whoever goes on counting: a tick that begins clears them
instead, and a call that schedules a retry resets them.  `Shut` also says that
a type without a child is stopped, restarting or crashed, and of these `Ensure`
starts only the last.

Model-checked only: the liveness properties (fairness and ENABLED are beyond
the prover), and the runs against the claims.

## Not modelled

In the supervisor: the suppression of respawns after a spoofed IPC message, a fork that fails with `error` and
no `exit`, audit logs, and the messages `planned-restart-request` and
`fatal-error`, which no worker sends.  `CompleteJob` stands for a whole job;
which job, and what it stored, belongs to the queue models.

In the collision guard: stalled jobs that become waiting again, BullMQ's retries
(both queues set `attempts: 1`), payloads and priorities, and the difference
between completed and failed, which the guard treats alike.

In the backfill: the row of one page stands for all, the limits of a cron's
batch, and which of the skip reasons was met.  In its fork: see the end of its section.

In the page jobs: see the end of its section.

The supervisor's failure path, the phase-5 fork, the race
of dispose with its ceiling and the GPU manager are not modelled yet.  The other components of the inventory hold no
state across requests (analysis services, tools, schemas), or state that one
process updates in one turn (limits, caches).

## Plan

Each item is a module with its own MC module, its abstract specification where
one is named, and its proofs.

1. Done: `ActiveLock`, `WorkerSupervisor`, `SupervisedWorker`, `WorkerLife` and their
   proofs.
2. Done: `CollisionGuard` and its proofs.
3. Done: `BackfillStatus` and its proofs.
4. Done: `BackfillFork` and its proofs.
5. Done: `PageJob` and its proofs.
6. Done: `SecondarySpawn` and its proofs.
7. `PostJobDispose`: dispose, its ceiling and the exit.
8. The phase-5 fork by chunks, then `GpuManager`.
