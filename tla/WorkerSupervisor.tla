-------------------------- MODULE WorkerSupervisor --------------------------
(***************************************************************************)
(* The MCP server's WorkerSupervisor: it forks one child process per       *)
(* worker type, replaces the child after each planned or unexpected exit,  *)
(* publishes the active-worker lock in Redis, and terminates everything at *)
(* shutdown.  Around it: the children as operating-system processes, the   *)
(* IPC channel, the timers of the event loop, a manual worker started with *)
(* `pnpm worker:start`, and server crashes and restarts.                   *)
(*                                                                         *)
(* Sources: services/worker-supervisor.service.ts (per-type state),        *)
(* worker-supervisor-lifecycle.service.ts (spawn, exit, respawn),          *)
(* worker-supervisor-lock-orchestrator.service.ts and                      *)
(* worker-supervisor-helpers.ts (lock retries), scripts/start-workers.ts   *)
(* (manual worker, child side), workers/*.ts (job completion).             *)
(*                                                                         *)
(* Each action is one turn of the event loop: a function runs up to its    *)
(* next await.  Every Redis command is an action of its own.               *)
(*                                                                         *)
(* A definition D_What is a mutant of D: the bug that What names, to show   *)
(* that a property can tell the difference.                                *)
(***************************************************************************)
EXTENDS Naturals, FiniteSets

CONSTANTS
    Types,          \* WORKER_TYPES
    Slots,          \* identities of processes, reused once a process is gone
    NoChild,        \* the children map has no entry
    NoOwner,        \* the Redis key does not exist
    Manuals,        \* manual worker processes
    Guards,         \* [Manuals -> Types]: the type whose lock a manual worker claims
    Consumes,       \* [Manuals -> SUBSET Types]: the queues it consumes
    MaxJobs,        \* [Types -> Nat]: maxJobsBeforeRestart
    MaxRestarts,    \* maxRestartAttempts
    AbortLimit,     \* SIGABRT_RESPAWN_SUPPRESS_THRESHOLD
    LeaseTicks,     \* 60 s in heartbeat intervals: lock TTL and the long delays
    MaxBoots,       \* bound: server processes started, one after another
    MaxFaults       \* bound: Redis commands that fail

ASSUME SupervisorAssumption ==
    /\ Types # {} /\ IsFiniteSet(Types) /\ IsFiniteSet(Manuals)
    /\ NoChild \notin Slots
    /\ NoOwner \notin (1..MaxBoots) \cup Manuals
    /\ (1..MaxBoots) \cap Manuals = {}
    /\ Guards \in [Manuals -> Types]
    /\ Consumes \in [Manuals -> SUBSET Types]
    /\ MaxJobs \in [Types -> Nat \ {0}]
    /\ MaxRestarts \in Nat
    /\ AbortLimit \in Nat \ {0}
    /\ LeaseTicks \in Nat \ {0, 1}
    /\ MaxBoots \in Nat \ {0}
    /\ MaxFaults \in Nat

VARIABLES
    \* the server process
    server,         \* "up" or "down"
    boot,           \* which server process; stands for its boot token
    \* WorkerSupervisor: perTypeState, children, bindingTable, isShuttingDown
    closing, state, completed, restarts, pending, aborts, child, bound,
    awaiting,       \* the exits shutdown() awaits
    \* WorkerSupervisorLockOrchestrator
    lockAcquired, heartbeat, service,
    acquire,        \* attempt of tryAcquireLockWithRetry in flight, 0 when none
    release,        \* where releaseRedisLockBestEffort stands
    \* processes and their IPC pipe
    proc, kind, done, told, msg,
    \* the respawn chain that follows an exit, by the slot that exited
    chain, wait,
    manual, owner, lease,
    faults,         \* failures left
    \* history, since this server started; only the properties read it
    twinned,        \* types called between an unexpected exit and its timer
    late            \* types called into life after shutdown began

supVars   == <<closing, state, completed, restarts, pending, aborts, child, bound, awaiting>>
orchVars  == <<lockAcquired, heartbeat, service, acquire, release>>
procVars  == <<proc, kind, done, told, msg>>
chainVars == <<chain, wait>>
lockVars  == <<owner, lease>>
bootVars  == <<server, boot>>
callVars  == <<twinned, late>>
vars == <<bootVars, supVars, orchVars, procVars, chainVars, manual, lockVars, faults, callVars>>

Tokens == (1..MaxBoots) \cup Manuals

Redis == INSTANCE ActiveLock

WorkerStates == {"idle", "running", "restarting", "stopped", "crashed"}

(* "exited" and "aborted" (killed by SIGABRT) are dead with the exit event *)
(* still queued; "gone" is dead with its respawn chain running; "orphan"   *)
(* runs on after the server that forked it went down.                      *)
ProcStates == {"free", "alive", "exited", "aborted", "gone", "orphan"}

AfterFailedRelease_NoProbe ==
    [release1 |-> "release2", release2 |-> "release3", release3 |-> "none"]

(* The next stage when releaseLock returned false: tryReleaseLockWithRetry *)
(* has a budget of three, then executeSelfChainedRespawn probes.           *)
AfterFailedRelease ==
    [release1 |-> "release2", release2 |-> "release3", release3 |-> "probe"]
ReleaseStages == DOMAIN AfterFailedRelease
ChainStages == {"none", "timer", "bareTimer", "probe", "spawn"} \cup ReleaseStages

AcquireBudget == 3

Min(a, b) == IF a < b THEN a ELSE b

BootTypeOK == server \in {"up", "down"} /\ boot \in 1..MaxBoots

SupTypeOK ==
    /\ closing \in BOOLEAN
    /\ state \in [Types -> WorkerStates]
    /\ completed \in [Types -> Nat]
    /\ \A t \in Types : completed[t] <= MaxJobs[t]
    /\ restarts \in [Types -> 0..MaxRestarts]
    /\ pending \in [Types -> BOOLEAN]
    /\ aborts \in [Types -> 0..AbortLimit]
    /\ child \in [Types -> Slots \cup {NoChild}]
    /\ bound \in SUBSET Slots
    /\ awaiting \in SUBSET Slots

OrchTypeOK ==
    /\ lockAcquired \in [Types -> BOOLEAN]
    /\ heartbeat \in [Types -> BOOLEAN]
    /\ service \in BOOLEAN
    /\ acquire \in [Types -> 0..AcquireBudget]
    /\ release \in [Types -> {"idle", "release", "close"}]

ProcTypeOK ==
    /\ proc \in [Slots -> ProcStates]
    /\ kind \in [Slots -> Types]
    /\ done \in [Slots -> BOOLEAN]
    /\ told \in [Slots -> BOOLEAN]
    /\ msg \in [Slots -> BOOLEAN]

ChainTypeOK == chain \in [Slots -> ChainStages] /\ wait \in [Slots -> 0..LeaseTicks]

LockTypeOK ==
    /\ owner \in [Types -> Tokens \cup {NoOwner}]
    /\ lease \in [Types -> 0..LeaseTicks]

CallTypeOK == twinned \in SUBSET Types /\ late \in SUBSET Types

ManualTypeOK == manual \in [Manuals -> {"off", "probed", "locked", "open"}]

TypeOK ==
    /\ BootTypeOK /\ SupTypeOK /\ OrchTypeOK /\ ProcTypeOK
    /\ ChainTypeOK /\ LockTypeOK /\ ManualTypeOK /\ CallTypeOK
    /\ faults \in 0..MaxFaults

-----------------------------------------------------------------------------
EveryType(v) == [t \in Types |-> v]
EverySlot(v) == [p \in Slots |-> v]

(* A supervisor that has just been constructed, and no process. *)
Init ==
    /\ server = "up"
    /\ boot = 1
    /\ closing = FALSE
    /\ state = EveryType("idle")
    /\ completed = EveryType(0)
    /\ restarts = EveryType(0)
    /\ pending = EveryType(FALSE)
    /\ aborts = EveryType(0)
    /\ child = EveryType(NoChild)
    /\ bound = {}
    /\ awaiting = {}
    /\ lockAcquired = EveryType(FALSE)
    /\ heartbeat = EveryType(FALSE)
    /\ service = FALSE
    /\ acquire = EveryType(0)
    /\ release = EveryType("idle")
    /\ done = EverySlot(FALSE)
    /\ told = EverySlot(FALSE)
    /\ msg = EverySlot(FALSE)
    /\ chain = EverySlot("none")
    /\ wait = EverySlot(0)
    /\ proc = EverySlot("free")
    /\ kind = EverySlot(CHOOSE t \in Types : TRUE)
    /\ manual = [m \in Manuals |-> "off"]
    /\ Redis!Init
    /\ faults = MaxFaults
    /\ twinned = {}
    /\ late = {}

(* A Redis command fails: on a connection that close() already quit, or    *)
(* because Redis is unreachable.                                           *)
CommandFails ==
    \/ ~service /\ UNCHANGED faults
    \/ faults > 0 /\ faults' = faults - 1

-----------------------------------------------------------------------------
(* acquireRedisLockBestEffort: nothing when the lock is believed held or an *)
(* attempt is in flight; otherwise the first SET NX is sent.  Not awaited.  *)
BeginAcquire(t) ==
    /\ IF lockAcquired[t] \/ acquire[t] # 0
       THEN UNCHANGED <<acquire, service>>
       ELSE /\ acquire' = [acquire EXCEPT ![t] = 1]
            /\ service' = TRUE
    /\ UNCHANGED <<lockAcquired, heartbeat, release>>

(* spawnWorker: fork, bind the pid, overwrite the children entry, running. *)
(* slots is proc with the exited process's slot already given back.        *)
Spawn(t, p, slots) ==
    /\ slots[p] = "free"
    /\ ~msg[p]
    /\ proc' = [slots EXCEPT ![p] = "alive"]
    /\ kind' = [kind EXCEPT ![p] = t]
    /\ done' = [done EXCEPT ![p] = FALSE]
    /\ told' = [told EXCEPT ![p] = FALSE]
    /\ child' = [child EXCEPT ![t] = p]
    /\ bound' = bound \cup {p}
    /\ state' = [state EXCEPT ![t] = "running"]
    /\ UNCHANGED msg

MayStart_WhileRestarting(t) ==
    /\ ~(state[t] = "running" /\ child[t] # NoChild)
    /\ state[t] # "stopped"

(* The early returns of ensureWorkerRunningForType. *)
MayStart(t) ==
    /\ ~(state[t] = "running" /\ child[t] # NoChild)
    /\ state[t] \notin {"stopped", "restarting"}

(* ensureWorkerRunningForType, called for every page.analyze request, which *)
(* may come at any moment: while the state still says running and the exit  *)
(* of the child awaits its timer, and while the server shuts down.          *)
EnsureWorkerRunning(t) ==
    /\ server = "up"
    /\ MayStart(t)
    /\ BeginAcquire(t)
    /\ restarts' = IF state[t] = "crashed" THEN [restarts EXCEPT ![t] = 0] ELSE restarts
    /\ \E p \in Slots : Spawn(t, p, proc)
    /\ twinned' = IF state[t] = "running" THEN twinned \cup {t} ELSE twinned
    /\ late' = IF closing THEN late \cup {t} ELSE late
    /\ UNCHANGED <<bootVars, closing, completed, pending, aborts, awaiting,
                   chainVars, manual, lockVars, faults>>

-----------------------------------------------------------------------------
(* tryAcquireLockWithRetry and the callbacks of the orchestrator. *)

AcquireGranted_NotRecorded(t) ==
    /\ acquire[t] # 0
    /\ Redis!Acquire(t, boot)
    /\ acquire' = [acquire EXCEPT ![t] = 0]
    /\ heartbeat' = [heartbeat EXCEPT ![t] = service]
    /\ UNCHANGED <<bootVars, supVars, lockAcquired, service, release, procVars, chainVars,
                   manual, faults, callVars>>

(* onAcquired: startLockHeartbeat does nothing without a lock service. *)
AcquireGranted(t) ==
    /\ acquire[t] # 0
    /\ Redis!Acquire(t, boot)
    /\ acquire' = [acquire EXCEPT ![t] = 0]
    /\ lockAcquired' = [lockAcquired EXCEPT ![t] = TRUE]
    /\ heartbeat' = [heartbeat EXCEPT ![t] = heartbeat[t] \/ service]
    /\ UNCHANGED <<bootVars, supVars, service, release, procVars, chainVars, manual, faults,
                   callVars>>

(* already_held is fail-closed at once: no retry, no record of the holder. *)
AcquireRefused(t) ==
    /\ acquire[t] # 0
    /\ Redis!AlreadyHeld(t)
    /\ acquire' = [acquire EXCEPT ![t] = 0]
    /\ UNCHANGED <<bootVars, supVars, lockAcquired, heartbeat, service, release,
                   procVars, chainVars, manual, faults, callVars>>

(* redis_unavailable: retried after a backoff, up to the budget.  The SET   *)
(* may have been executed before the reply was lost.                        *)
AcquireFailed(t) ==
    /\ acquire[t] # 0
    /\ CommandFails
    /\ acquire' = [acquire EXCEPT ![t] = IF @ = AcquireBudget \/ ~service THEN 0 ELSE @ + 1]
    /\ (service /\ Redis!Acquire(t, boot)) \/ UNCHANGED lockVars
    /\ UNCHANGED <<bootVars, supVars, lockAcquired, heartbeat, service, release,
                   procVars, chainVars, manual, callVars>>

-----------------------------------------------------------------------------
(* The children. *)

(* The 'completed' listener sends job-completed over IPC; registerCompleted *)
(* ListenerAndExit then makes the worker leave after this one job.          *)
CompleteJob(p) ==
    /\ proc[p] = "alive"
    /\ ~done[p]
    /\ done' = [done EXCEPT ![p] = TRUE]
    /\ msg' = [msg EXCEPT ![p] = TRUE]
    /\ UNCHANGED <<bootVars, supVars, orchVars, proc, kind, told, chainVars, manual,
                   lockVars, faults, callVars>>

(* The process ends.  Its last IPC message may still be in the pipe, to be  *)
(* read before or after the exit event, or may be lost with process.exit.   *)
Die(p, how) ==
    /\ proc[p] = "alive"
    /\ proc' = [proc EXCEPT ![p] = how]
    /\ done' = [done EXCEPT ![p] = FALSE]
    /\ told' = [told EXCEPT ![p] = FALSE]
    /\ \/ UNCHANGED msg
       \/ msg' = [msg EXCEPT ![p] = FALSE]
    /\ UNCHANGED <<bootVars, supVars, orchVars, kind, chainVars, manual, lockVars, faults,
                   callVars>>

Leave_NotWhenTold(p) == done[p] /\ Die(p, "exited")

(* A worker that finished its job, or was told to stop (IPC shutdown, then  *)
(* SIGTERM and SIGKILL timers), ends.                                       *)
Leave(p) ==
    /\ done[p] \/ told[p]
    /\ Die(p, "exited")

Crash(p) == \E how \in {"exited", "aborted"} : Die(p, how)

OrphanEnds(p) ==
    /\ proc[p] = "orphan"
    /\ proc' = [proc EXCEPT ![p] = "free"]
    /\ UNCHANGED <<bootVars, supVars, orchVars, kind, done, told, msg, chainVars, manual,
                   lockVars, faults, callVars>>

-----------------------------------------------------------------------------
(* initiateRestart acts on the child the map holds, whoever asked for it. *)
InitiateRestart(t) ==
    IF child[t] = NoChild
    THEN UNCHANGED <<state, pending, told>>
    ELSE /\ state' = [state EXCEPT ![t] = "restarting"]
         /\ pending' = [pending EXCEPT ![t] = TRUE]
         /\ told' = [told EXCEPT ![child[t]] = proc[child[t]] = "alive"]

(* notifyJobCompletedForType; completedJobCount is only compared with the  *)
(* limit, so it saturates there.                                           *)
NotifyJobCompleted(t) ==
    /\ completed' = [completed EXCEPT ![t] = Min(@ + 1, MaxJobs[t])]
    /\ IF completed[t] + 1 >= MaxJobs[t]
       THEN InitiateRestart(t)
       ELSE UNCHANGED <<state, pending, told>>

Trusted_Anyone(p) == TRUE

(* verifyWorkerIpcMessage accepts a message only from a pid in the table. *)
Trusted(p) == p \in bound

(* dispatchVerifiedIpc: any other message is dropped. *)
DeliverIpc(p) ==
    /\ msg[p]
    /\ msg' = [msg EXCEPT ![p] = FALSE]
    /\ IF Trusted(p)
       THEN NotifyJobCompleted(kind[p])
       ELSE UNCHANGED <<completed, state, pending, told>>
    /\ UNCHANGED <<bootVars, closing, restarts, aborts, child, bound, awaiting, orchVars,
                   proc, kind, done, chainVars, manual, lockVars, faults, callVars>>

-----------------------------------------------------------------------------
(* runSelfChainedRespawnAndSchedule up to its first await.  Without the     *)
(* nonce of an exited child there is no lock to give back.                  *)
BeginRespawn(t, p, nonceKnown) ==
    /\ state' = [state EXCEPT ![t] = "restarting"]
    /\ completed' = [completed EXCEPT ![t] = 0]
    /\ chain' = [chain EXCEPT ![p] = IF nonceKnown THEN "release1" ELSE "spawn"]
    /\ wait' = [wait EXCEPT ![p] = 0]
    /\ service' = (service \/ nonceKnown)

PlannedExit_KeepsPending(t, p) ==
    /\ pending[t]
    /\ restarts' = [restarts EXCEPT ![t] = 0]
    /\ proc' = [proc EXCEPT ![p] = "gone"]
    /\ BeginRespawn(t, p, child[t] # NoChild)
    /\ UNCHANGED <<pending, aborts, heartbeat>>

(* handlePlannedRestart. *)
PlannedExit(t, p) ==
    /\ pending[t]
    /\ pending' = [pending EXCEPT ![t] = FALSE]
    /\ restarts' = [restarts EXCEPT ![t] = 0]
    /\ proc' = [proc EXCEPT ![p] = "gone"]
    /\ BeginRespawn(t, p, child[t] # NoChild)
    /\ UNCHANGED <<aborts, heartbeat>>

(* processSigabrtSignal: consecutive SIGABRT exits, saturating at the      *)
(* threshold; any other exit starts the count again.                       *)
AbortsAfter(t, p) ==
    IF proc[p] = "aborted" THEN Min(aborts[t] + 1, AbortLimit) ELSE 0

BudgetSpent_OneMore(t) == restarts[t] > MaxRestarts

BudgetSpent(t) == restarts[t] >= MaxRestarts

(* handleUnexpectedExit with the budget spent: crashed, heartbeat cleared. *)
(* triggerOrphanBackfill runs first and sees to it that a service exists.  *)
GiveUp(t, p) ==
    /\ ~pending[t]
    /\ BudgetSpent(t)
    /\ aborts' = [aborts EXCEPT ![t] = AbortsAfter(t, p)]
    /\ state' = [state EXCEPT ![t] = "crashed"]
    /\ heartbeat' = [heartbeat EXCEPT ![t] = FALSE]
    /\ proc' = [proc EXCEPT ![p] = "free"]
    /\ service' = (service \/ child[t] # NoChild)
    /\ UNCHANGED <<pending, restarts, completed, chain, wait>>

(* handleUnexpectedExit otherwise: the state stays as it is until the timer *)
(* of scheduleSigabrtAwareRespawn, at once or after 60 s.                   *)
UnexpectedExit(t, p) ==
    /\ ~pending[t]
    /\ ~BudgetSpent(t)
    /\ aborts' = [aborts EXCEPT ![t] = AbortsAfter(t, p)]
    /\ restarts' = [restarts EXCEPT ![t] = @ + 1]
    /\ chain' = [chain EXCEPT ![p] = IF child[t] = NoChild THEN "bareTimer" ELSE "timer"]
    /\ wait' = [wait EXCEPT ![p] =
                    IF proc[p] = "aborted" /\ aborts[t] + 1 >= AbortLimit
                    THEN LeaseTicks ELSE 0]
    /\ proc' = [proc EXCEPT ![p] = "gone"]
    /\ service' = (service \/ child[t] # NoChild)
    /\ UNCHANGED <<pending, state, completed, heartbeat>>

(* The exit event.  handleWorkerExit removes whatever child the map holds  *)
(* for the type, which need not be the process that exited; during         *)
(* shutdown the once('exit') handler of shutdownChild runs right after it. *)
ExitWhileClosing(t, p) ==
    /\ state' = [state EXCEPT ![t] = "stopped"]
    /\ proc' = [proc EXCEPT ![p] = "free"]
    /\ awaiting' = awaiting \ {p}
    /\ bound' = bound \ ({child[t]} \cup (awaiting \cap {p}))
    /\ UNCHANGED <<pending, restarts, completed, aborts, chain, wait, heartbeat, service>>

ExitWhileServing(t, p) ==
    /\ bound' = bound \ {child[t]}
    /\ PlannedExit(t, p) \/ GiveUp(t, p) \/ UnexpectedExit(t, p)
    /\ UNCHANGED awaiting

HandleWorkerExit(p) ==
    /\ proc[p] \in {"exited", "aborted"}
    /\ child' = [child EXCEPT ![kind[p]] = NoChild]
    /\ IF closing THEN ExitWhileClosing(kind[p], p) ELSE ExitWhileServing(kind[p], p)
    /\ UNCHANGED <<bootVars, closing, lockAcquired, acquire, release, kind, done, told,
                   msg, manual, lockVars, faults, callVars>>

-----------------------------------------------------------------------------
(* The respawn chain of an exited process. *)

ChainEnds(p) ==
    /\ chain' = [chain EXCEPT ![p] = "none"]
    /\ wait' = [wait EXCEPT ![p] = 0]

(* The timer of scheduleSigabrtAwareRespawn. *)
RespawnTimer(p) ==
    /\ chain[p] \in {"timer", "bareTimer"}
    /\ wait[p] = 0
    /\ IF closing
       THEN /\ ChainEnds(p)
            /\ proc' = [proc EXCEPT ![p] = "free"]
            /\ UNCHANGED <<state, completed, service>>
       ELSE /\ BeginRespawn(kind[p], p, chain[p] = "timer")
            /\ UNCHANGED proc
    /\ UNCHANGED <<bootVars, closing, restarts, pending, aborts, child, bound, awaiting,
                   lockAcquired, heartbeat, acquire, release, kind, done, told, msg,
                   manual, lockVars, faults, callVars>>

(* scheduleRespawn up to its timer: the type is marked restarting, although *)
(* a shutdown may have marked it stopped meanwhile.                         *)
ScheduleRespawn(p) ==
    /\ chain' = [chain EXCEPT ![p] = "spawn"]
    /\ state' = [state EXCEPT ![kind[p]] = "restarting"]

(* One releaseLock call.  A failed command may still have been executed.   *)
ReleaseAttempt(p) ==
    /\ chain[p] \in ReleaseStages
    /\ \/ /\ Redis!Release(kind[p], boot)
          /\ ScheduleRespawn(p)
          /\ UNCHANGED faults
       \/ /\ Redis!ReleaseRefused(kind[p], boot)
          /\ chain' = [chain EXCEPT ![p] = AfterFailedRelease[@]]
          /\ UNCHANGED <<state, faults>>
       \/ /\ CommandFails
          /\ (service /\ Redis!Release(kind[p], boot)) \/ UNCHANGED lockVars
          /\ chain' = [chain EXCEPT ![p] = AfterFailedRelease[@]]
          /\ UNCHANGED state
    /\ UNCHANGED <<bootVars, closing, completed, restarts, pending, aborts, child, bound,
                   awaiting, orchVars, procVars, wait, manual, callVars>>

(* probeExistingLock: respawn soon when the key is gone or Redis does not  *)
(* answer, after 60 s when the lock is still ours (ttl_fallback).          *)
ProbeOwn(p) ==
    /\ chain[p] = "probe"
    /\ ScheduleRespawn(p)
    /\ \/ /\ CommandFails
          /\ UNCHANGED wait
       \/ /\ owner[kind[p]] = NoOwner
          /\ UNCHANGED <<wait, faults>>
       \/ /\ owner[kind[p]] = boot
          /\ wait' = [wait EXCEPT ![p] = LeaseTicks]
          /\ UNCHANGED faults
    /\ UNCHANGED <<bootVars, closing, completed, restarts, pending, aborts, child, bound,
                   awaiting, orchVars, procVars, manual, lockVars, callVars>>

(* foreign_lock: the type is marked crashed and not respawned. *)
ProbeForeign(p) ==
    /\ chain[p] = "probe"
    /\ owner[kind[p]] \notin {NoOwner, boot}
    /\ state' = [state EXCEPT ![kind[p]] = "crashed"]
    /\ heartbeat' = [heartbeat EXCEPT ![kind[p]] = FALSE]
    /\ proc' = [proc EXCEPT ![p] = "free"]
    /\ ChainEnds(p)
    /\ UNCHANGED <<bootVars, closing, completed, restarts, pending, aborts, child, bound,
                   awaiting, lockAcquired, service, acquire, release, kind, done, told,
                   msg, manual, lockVars, faults, callVars>>

RespawnNow_AtShutdown(p) ==
    /\ chain[p] = "spawn"
    /\ wait[p] = 0
    /\ ChainEnds(p)
    /\ \E q \in Slots : Spawn(kind[p], q, [proc EXCEPT ![p] = "free"])
    /\ UNCHANGED <<bootVars, closing, completed, restarts, pending, aborts, awaiting,
                   orchVars, manual, lockVars, faults, callVars>>

(* The timer of scheduleRespawn.  It spawns whatever the map holds by now,  *)
(* and does not acquire the lock again.                                     *)
RespawnNow(p) ==
    /\ chain[p] = "spawn"
    /\ wait[p] = 0
    /\ ChainEnds(p)
    /\ LET slots == [proc EXCEPT ![p] = "free"] IN
       IF closing
       THEN /\ state' = [state EXCEPT ![kind[p]] = "stopped"]
            /\ proc' = slots
            /\ UNCHANGED <<kind, done, told, msg, child, bound>>
       ELSE \E q \in Slots : Spawn(kind[p], q, slots)
    /\ UNCHANGED <<bootVars, closing, completed, restarts, pending, aborts, awaiting,
                   orchVars, manual, lockVars, faults, callVars>>

-----------------------------------------------------------------------------
(* shutdown() and releaseRedisLockBestEffort, which it does not await. *)

(* Where the release of t stands after its synchronous part.  The service   *)
(* is closed at once by a type that holds no lock, unless another type's    *)
(* heartbeat is still registered when its turn comes.                       *)
ReleaseStarts(t) ==
    IF ~service THEN {"idle"}
    ELSE IF lockAcquired[t] THEN {"release"}
    ELSE IF \E u \in Types \ {t} : heartbeat[u] THEN {"close", "idle"}
    ELSE {"close"}

Live_RunningOnly == {child[t] : t \in {u \in Types : state[u] = "running"}} \ {NoChild}

(* The children that shutdown() tells to stop and waits for. *)
Live == {child[t] : t \in Types} \ {NoChild}

(* SIGINT and SIGTERM both lead here, and nothing stops a second signal: it *)
(* repeats everything, but the server exits when the first call is done.    *)
Shutdown ==
    /\ server = "up"
    /\ closing' = TRUE
    /\ heartbeat' = [t \in Types |-> FALSE]
    /\ release' \in [Types -> {"idle", "release", "close"}]
    /\ \A t \in Types : release'[t] \in ReleaseStarts(t)
    /\ awaiting' = IF closing THEN awaiting ELSE Live
    /\ state' = [t \in Types |-> IF child[t] = NoChild THEN "stopped" ELSE state[t]]
    /\ told' = [p \in Slots |-> told[p] \/ (p \in Live /\ proc[p] = "alive")]
    /\ UNCHANGED <<bootVars, completed, restarts, pending, aborts, child, bound,
                   lockAcquired, service, acquire, proc, kind, done, msg, chainVars,
                   manual, lockVars, faults, callVars>>

(* releaseLock has answered, well or badly: lockAcquired is cleared.  Its   *)
(* command left within shutdown(), ahead of another type's close().         *)
ShutdownRelease(t) ==
    /\ release[t] = "release"
    /\ \/ Redis!Release(t, boot) /\ UNCHANGED faults
       \/ Redis!ReleaseRefused(t, boot) /\ UNCHANGED faults
       \/ faults > 0 /\ faults' = faults - 1 /\ UNCHANGED lockVars
    /\ lockAcquired' = [lockAcquired EXCEPT ![t] = FALSE]
    /\ release' = [release EXCEPT ![t] =
                    IF \E u \in Types : heartbeat[u] THEN "idle" ELSE "close"]
    /\ UNCHANGED <<bootVars, supVars, heartbeat, service, acquire, procVars, chainVars,
                   manual, callVars>>

(* close() has returned: the service is dropped. *)
ShutdownClose(t) ==
    /\ release[t] = "close"
    /\ release' = [release EXCEPT ![t] = "idle"]
    /\ service' = FALSE
    /\ UNCHANGED <<bootVars, supVars, lockAcquired, heartbeat, acquire, procVars,
                   chainVars, manual, lockVars, faults, callVars>>

(* The server process ends: its memory and timers are gone, its children,  *)
(* which watch for no disconnect, run on.                                  *)
ServerGone ==
    /\ server' = "down"
    /\ closing' = FALSE
    /\ state' = EveryType("idle")
    /\ completed' = EveryType(0)
    /\ restarts' = EveryType(0)
    /\ pending' = EveryType(FALSE)
    /\ aborts' = EveryType(0)
    /\ child' = EveryType(NoChild)
    /\ bound' = {}
    /\ awaiting' = {}
    /\ lockAcquired' = EveryType(FALSE)
    /\ heartbeat' = EveryType(FALSE)
    /\ service' = FALSE
    /\ acquire' = EveryType(0)
    /\ release' = EveryType("idle")
    /\ done' = EverySlot(FALSE)
    /\ told' = EverySlot(FALSE)
    /\ msg' = EverySlot(FALSE)
    /\ chain' = EverySlot("none")
    /\ wait' = EverySlot(0)
    /\ proc' = [p \in Slots |-> IF proc[p] \in {"alive", "orphan"} THEN "orphan" ELSE "free"]
    /\ twinned' = {}
    /\ late' = {}
    /\ UNCHANGED <<boot, kind, manual, lockVars, faults>>

(* handleShutdown in index.ts: exit once shutdown() has resolved. *)
ServerExit ==
    /\ server = "up"
    /\ closing
    /\ awaiting = {}
    /\ ServerGone

ServerCrash ==
    /\ server = "up"
    /\ boot < MaxBoots
    /\ ServerGone

(* Another server process, with a boot token of its own. *)
ServerStart ==
    /\ server = "down"
    /\ boot < MaxBoots
    /\ server' = "up"
    /\ boot' = boot + 1
    /\ UNCHANGED <<supVars, orchVars, procVars, chainVars, manual, lockVars, faults, callVars>>

-----------------------------------------------------------------------------
(* A worker started by hand: evaluateDualRunGuard in start-workers.ts. *)

(* Redis unavailable: fail-open, the worker runs without a lock. *)
ManualFailOpen(m) ==
    /\ manual[m] \in {"off", "probed"}
    /\ faults > 0
    /\ faults' = faults - 1
    /\ manual' = [manual EXCEPT ![m] = "open"]
    /\ UNCHANGED <<bootVars, supVars, orchVars, procVars, chainVars, lockVars, callVars>>

(* probeExistingLock found no key; with a key the process exits (1). *)
ManualProbe(m) ==
    /\ manual[m] = "off"
    /\ owner[Guards[m]] = NoOwner
    /\ manual' = [manual EXCEPT ![m] = "probed"]
    /\ UNCHANGED <<bootVars, supVars, orchVars, procVars, chainVars, lockVars, faults, callVars>>

(* tryAcquireLock: run and heartbeat, or exit when someone else was faster. *)
ManualClaim(m) ==
    /\ manual[m] = "probed"
    /\ \/ /\ Redis!Acquire(Guards[m], m)
          /\ manual' = [manual EXCEPT ![m] = "locked"]
       \/ /\ Redis!AlreadyHeld(Guards[m])
          /\ manual' = [manual EXCEPT ![m] = "off"]
    /\ UNCHANGED <<bootVars, supVars, orchVars, procVars, chainVars, faults, callVars>>

(* The manual worker ends: gracefully, or by process.exit after its job or *)
(* a kill, when the fire-and-forget release may not leave the process.     *)
ManualStop(m) ==
    /\ manual[m] \in {"locked", "open"}
    /\ manual' = [manual EXCEPT ![m] = "off"]
    /\ \/ manual[m] = "locked" /\ Redis!Release(Guards[m], m)
       \/ UNCHANGED lockVars
    /\ UNCHANGED <<bootVars, supVars, orchVars, procVars, chainVars, faults, callVars>>

-----------------------------------------------------------------------------
(* Time.  Everything the code does takes seconds (release and acquire      *)
(* retries 700 ms, restart delay 2 s, kill timers 10 s), except the lease  *)
(* and the two 60 s delays: an interval of 30 s passes only when nothing   *)
(* shorter is under way.                                                   *)
Due(p) ==
    \/ proc[p] \in {"exited", "aborted"}
    \/ proc[p] = "alive" /\ (done[p] \/ told[p])
    \/ msg[p]
    \/ chain[p] # "none" /\ wait[p] = 0

Quiet ==
    /\ ~closing
    /\ \A p \in Slots : ~Due(p)
    /\ \A t \in Types : acquire[t] = 0
    /\ \A m \in Manuals : manual[m] # "probed"

Beating_SupervisorOnly == {<<t, boot>> : t \in {u \in Types : heartbeat[u] /\ service}}

(* The holders whose heartbeat timer runs: they send extendLock. *)
Beating ==
    {<<t, boot>> : t \in {u \in Types : heartbeat[u] /\ service}}
    \cup {<<Guards[m], m>> : m \in {n \in Manuals : manual[n] = "locked"}}

Tick ==
    /\ Quiet
    /\ \E lost \in SUBSET {b \in Beating : owner[b[1]] = b[2]} :
        /\ Cardinality(lost) <= faults
        /\ faults' = faults - Cardinality(lost)
        /\ Redis!Elapse(Beating \ lost)
    /\ wait' = [p \in Slots |-> IF wait[p] = 0 THEN 0 ELSE wait[p] - 1]
    /\ UNCHANGED <<bootVars, supVars, orchVars, procVars, chain, manual, callVars>>

LeaseLapses(t) ==
    /\ Redis!Lapse(t)
    /\ UNCHANGED <<bootVars, supVars, orchVars, procVars, chainVars, manual, faults, callVars>>

-----------------------------------------------------------------------------
TypeAction(t) ==
    \/ EnsureWorkerRunning(t)
    \/ AcquireGranted(t) \/ AcquireRefused(t) \/ AcquireFailed(t)
    \/ ShutdownRelease(t) \/ ShutdownClose(t)
    \/ LeaseLapses(t)

ProcAction(p) ==
    \/ CompleteJob(p) \/ Leave(p) \/ Crash(p) \/ OrphanEnds(p)
    \/ DeliverIpc(p) \/ HandleWorkerExit(p)
    \/ RespawnTimer(p) \/ ReleaseAttempt(p) \/ ProbeOwn(p) \/ ProbeForeign(p) \/ RespawnNow(p)

ManualAction(m) ==
    ManualFailOpen(m) \/ ManualProbe(m) \/ ManualClaim(m) \/ ManualStop(m)

Next ==
    \/ \E t \in Types : TypeAction(t)
    \/ \E p \in Slots : ProcAction(p)
    \/ \E m \in Manuals : ManualAction(m)
    \/ Shutdown \/ ServerExit \/ ServerCrash \/ ServerStart
    \/ Tick

Spec == Init /\ [][Next]_vars

-----------------------------------------------------------------------------
(* Fairness: the event loop runs ready callbacks, timers fire, Redis       *)
(* answers or fails, a process told to stop is killed within 10 s.  Time    *)
(* passes (strongly fair: no run packs infinitely many short steps into one *)
(* interval).  Nothing is assumed of tool calls, jobs, crashes, faults, or  *)
(* manual workers starting and stopping.                                    *)
AcquireStep(t) == AcquireGranted(t) \/ AcquireRefused(t) \/ AcquireFailed(t)
ReleaseStep(t) == ShutdownRelease(t) \/ ShutdownClose(t)
ProcStep(p) ==
    \/ Leave(p) \/ HandleWorkerExit(p)
    \/ RespawnTimer(p) \/ ReleaseAttempt(p) \/ ProbeOwn(p) \/ ProbeForeign(p) \/ RespawnNow(p)

Fairness ==
    /\ \A t \in Types : WF_vars(AcquireStep(t)) /\ WF_vars(ReleaseStep(t))
    /\ \A p \in Slots : WF_vars(ProcStep(p)) /\ WF_vars(DeliverIpc(p))
    /\ \A m \in Manuals : WF_vars(ManualClaim(m))
    /\ WF_vars(ServerExit)
    /\ SF_vars(Tick)

FairSpec == Spec /\ Fairness

-----------------------------------------------------------------------------
(* Properties *)

Dead(p) == proc[p] \in {"exited", "aborted"}

(* A process that runs, or whose exit event is still queued, is the child   *)
(* the children map holds for its type, so that exit, restart and shutdown  *)
(* handlers act on the process they mean: except of a type that was called  *)
(* between an unexpected exit and its timer, which may have several.        *)
EveryChildSupervised ==
    \A p \in Slots :
        (proc[p] = "alive" \/ Dead(p)) /\ kind[p] \notin twinned => child[kind[p]] = p

(* pendingRestart is set only while a process is there whose exit will      *)
(* consume it; otherwise the next crash would pass for a planned restart    *)
(* and reset the restart budget.                                            *)
RestartAwaitsExit ==
    ~closing => \A t \in Types : pending[t] => child[t] # NoChild

(* Until a Redis command fails, a guarded manual worker owns its lock for   *)
(* as long as it runs: heartbeats outrun the TTL, and neither a respawn nor *)
(* a shutdown of the supervisor deletes a key it does not own.              *)
ManualKeepsLock ==
    faults = MaxFaults =>
        \A m \in Manuals : manual[m] = "locked" => owner[Guards[m]] = m

(* Until a Redis command fails, the supervisor never forgets a lock that    *)
(* holds its nonce: it would neither extend nor release it.                 *)
OwnLockKnown ==
    faults = MaxFaults =>
        \A t \in Types : server = "up" /\ owner[t] = boot => lockAcquired[t]

(* A process that runs on when shutdown() has resolved and the server exits *)
(* is a twin the children map has forgotten, or was called into life after  *)
(* shutdown began: whatever exits, respawns and failures the shutdown met,  *)
(* it waits for all others.                                                 *)
ShutdownTerminatesChildren ==
    [][ServerExit =>
        \A p \in Slots : proc[p] = "alive" =>
            \/ kind[p] \in twinned /\ child[kind[p]] # p
            \/ kind[p] \in late]_vars

(* A lock passes out of the hands of a manual worker or of an earlier       *)
(* server process only by that worker's own release or when its lease runs  *)
(* out: no one else's release or claim takes it.                            *)
LockTakenOnlyOnExpiry ==
    [][\A t \in Types :
        /\ owner[t] \notin {NoOwner, boot}
        /\ owner'[t] # owner[t]
        => \/ lease[t] = 1
           \/ \E m \in Manuals : owner[t] = m /\ manual[m] = "locked" /\ manual'[m] = "off"]_vars

(* A job-completed report makes the supervisor stop the process that sent   *)
(* it, never a successor, however late the report is read.  Of twins, which *)
(* the binding table both trusts, it stops the one the children map holds.  *)
RestartsOnlyTheSender ==
    [][\A p \in Slots :
        told'[p] /\ ~told[p] /\ ~closing' =>
            (msg[p] /\ ~msg'[p]) \/ kind[p] \in twinned]_vars

(* The processes of a type, seen from outside: refinement mapping.         *)
Held(t) == {p \in Slots : kind[p] = t /\ proc[p] \notin {"free", "orphan"}}

Phase(t) ==
    IF t \in twinned THEN "twinned"
    ELSE IF Held(t) = {} THEN IF state[t] = "crashed" THEN "givenup" ELSE "none"
    ELSE IF \E p, q \in Held(t) : p # q THEN "several"
    ELSE IF \A p \in Held(t) : proc[p] = "alive" THEN "up"
    ELSE IF \A p \in Held(t) : Dead(p) THEN "ended"
    ELSE IF \A p \in Held(t) : chain[p] \in {"timer", "bareTimer"} THEN "pausing"
    ELSE "replacing"

Service == INSTANCE SupervisedWorker WITH
    serving <- server = "up" /\ ~closing,
    phase <- [t \in Types |-> Phase(t)],
    spent <- restarts

(* The supervisor implements the life cycle of SupervisedWorker.           *)
ServiceContract == Service!Spec

(* What a process of type t, and the chain it left, look like to those who  *)
(* call the supervisor: refinement mapping.                                 *)
Seen(t, p) ==
    IF kind[p] # t THEN "free"
    ELSE IF proc[p] = "alive" \/ Dead(p) THEN "alive"
    ELSE IF chain[p] \in {"timer", "bareTimer"} THEN "timer"
    ELSE IF chain[p] # "none" THEN "respawn"
    ELSE "free"

Worker(t) == INSTANCE WorkerLife WITH
    state <- state[t],
    child <- child[t] # NoChild,
    proc <- [p \in Slots |-> Seen(t, p)]

(* Each type lives the life that SecondarySpawn takes for granted.         *)
EachWorkerLives ==
    /\ \A t \in Types : Worker(t)!Init
    /\ [][\A t \in Types : [Worker(t)!Next]_(Worker(t)!workerVars)]_vars

(* A child that exits is replaced, unless its type is given up as crashed,  *)
(* or the server shuts down.                                                *)
ExitIsAnswered ==
    \A t \in Types :
        (\E p \in Slots : Dead(p) /\ kind[p] = t)
        ~> \/ \E p \in Slots : proc[p] = "alive" /\ kind[p] = t
           \/ state[t] \in {"crashed", "stopped"}
           \/ server = "down"

(* shutdown() resolves and the server exits: no child, and no respawn in    *)
(* progress, holds it up for ever.                                          *)
ShutdownCompletes == closing ~> server = "down"

(* Whatever was in flight when the server went down, the keys it left       *)
(* behind expire.                                                           *)
LeftLocksExpire ==
    \A t \in Types, b \in 1..MaxBoots :
        server = "down" /\ boot = b /\ owner[t] = b ~> owner[t] # b
=============================================================================
