--------------------------- MODULE SecondarySpawn ---------------------------
(***************************************************************************)
(* The deferred start of the secondary worker (embedding-backfill): tool   *)
(* calls that start the workers one after the other, the probe of the      *)
(* vision model each of them awaits, the retry timer they leave behind when*)
(* the model still occupies memory, and the timer's ticks.                 *)
(*                                                                         *)
(* Calls and ticks are asynchronous functions of one event loop.  They look*)
(* at the supervisor, await a probe or an update of the database, and go on*)
(* without looking again; a tick that takes longer than the interval       *)
(* overlaps the next.  The counters and the timer belong to nobody.        *)
(*                                                                         *)
(* Sources: worker-supervisor-lifecycle.service.ts (calls, ticks), services*)
(* /vision/vision-unload-handshake.ts (probe), worker-supervisor.service.ts*)
(* (ensure, shutdown), tools/page/_shared/worker-bootstrap.ts (caller).    *)
(* The life of the worker itself is that of WorkerLife, which              *)
(* WorkerSupervisor implements for each of its types.                      *)
(*                                                                         *)
(* A definition D_What is a mutant of D: the bug that What names.          *)
(***************************************************************************)
EXTENDS Naturals, FiniteSets

CONSTANTS
    Calls,        \* tool calls at a time
    Ticks,        \* bound: ticks under way at a time
    Slots,        \* bound: worker processes, and respawns, at a time
    MaxAttempts,  \* SECONDARY_SPAWN_RETRY_MAX_ATTEMPTS
    StrikeLimit   \* SECONDARY_SPAWN_RETRY_PROBE_FAILED_STRIKE_LIMIT

ASSUME SpawnAssumption ==
    /\ IsFiniteSet(Ticks)
    /\ MaxAttempts \in Nat \ {0} /\ StrikeLimit \in Nat \ {0}

VARIABLES
    closing,           \* isShuttingDown
    state, child,      \* perTypeState.state; children has the type
    proc,              \* processes, and the respawn that follows one
    call, tick,        \* what each call and each tick awaits
    timer,             \* secondarySpawnRetryTimer is set
    attempts, strikes  \* secondarySpawnRetryAttempts, -ProbeFailedStreak

supervisor == <<closing, state, child, proc>>
deferral   == <<timer, attempts, strikes>>
vars == <<supervisor, call, tick, deferral>>

Worker == INSTANCE WorkerLife

TypeOK ==
    /\ Worker!TypeOK
    /\ timer \in BOOLEAN
    /\ call \in [Calls -> {"none", "heartbeat", "probe"}]
    /\ tick \in [Ticks -> {"none", "probe", "queued", "in_progress"}]
    /\ attempts \in Nat
    /\ strikes \in 0..(StrikeLimit - 1)

Init ==
    /\ Worker!Init
    /\ call = [c \in Calls |-> "none"] /\ tick = [k \in Ticks |-> "none"]
    /\ timer = FALSE /\ attempts = 0 /\ strikes = 0

-----------------------------------------------------------------------------
ClearTimer_KeepsCounts == timer' = FALSE /\ UNCHANGED <<attempts, strikes>>

(* clearSecondarySpawnRetryTimer. *)
ClearTimer == timer' = FALSE /\ attempts' = 0 /\ strikes' = 0

(* shutdown also clears the retry timer. *)
Shutdown ==
    /\ Worker!Shutdown
    /\ ClearTimer
    /\ UNCHANGED <<call, tick>>

(* The worker's processes end and are replaced. *)
WorkerStep == Worker!Step /\ UNCHANGED <<call, tick, deferral>>

-----------------------------------------------------------------------------
(* ensureAllWorkersRunningStaggered *)

ScheduleRetry_Anew == timer' = TRUE /\ attempts' = 0 /\ strikes' = 0

(* scheduleSecondarySpawnRetry. *)
ScheduleRetry ==
    IF timer THEN UNCHANGED deferral
    ELSE timer' = TRUE /\ attempts' = 0 /\ strikes' = 0

(* bootstrapWorkersForPageAnalyze: the primary worker is started, and its   *)
(* first heartbeat awaited.                                                 *)
Bootstrap(c) ==
    /\ call[c] = "none"
    /\ call' = [call EXCEPT ![c] = "heartbeat"]
    /\ UNCHANGED <<supervisor, tick, deferral>>

(* waitForFirstHeartbeat is over, by its timeout or, with no child, at once: *)
(* no worker sends the supervisor a heartbeat.                              *)
PrimaryAwaited(c) ==
    /\ call[c] = "heartbeat"
    /\ call' = [call EXCEPT ![c] = "probe"]
    /\ UNCHANGED <<supervisor, tick, deferral>>

(* The probe has answered; one that throws ends the call.                   *)
CallProbed(c) ==
    /\ call[c] = "probe"
    /\ call' = [call EXCEPT ![c] = "none"]
    /\ \/ Worker!Ensure /\ UNCHANGED deferral
       \/ ScheduleRetry /\ UNCHANGED supervisor
       \/ UNCHANGED <<supervisor, deferral>>
    /\ UNCHANGED tick

-----------------------------------------------------------------------------
(* runSecondarySpawnRetryTick *)

(* The interval fires. *)
TickBegins(k) ==
    /\ timer
    /\ tick[k] = "none"
    /\ IF closing \/ state = "running"
       THEN ClearTimer /\ UNCHANGED tick
       ELSE /\ attempts' = attempts + 1
            /\ tick' = [tick EXCEPT ![k] = "probe"]
            /\ UNCHANGED <<timer, strikes>>
    /\ UNCHANGED <<supervisor, call>>

Ends(k) == tick' = [tick EXCEPT ![k] = "none"]

TickUnloaded(k) ==
    /\ Worker!Ensure
    /\ ClearTimer
    /\ Ends(k)

CapReached_Exactly == attempts = MaxAttempts

CapReached == attempts >= MaxAttempts

(* The end of a tick without success: at the cap, handleSecondarySpawnTimeout. *)
TickDeferred(k) ==
    /\ tick' = [tick EXCEPT ![k] = IF CapReached THEN "queued" ELSE "none"]
    /\ UNCHANGED <<supervisor, timer, attempts>>

TickResidual(k) == strikes' = 0 /\ TickDeferred(k)

LastStrike_OneMore == strikes >= StrikeLimit

LastStrike == strikes + 1 >= StrikeLimit

(* The probe failed or threw: at the last strike the retries are given up.  *)
TickFailed(k) ==
    IF LastStrike
    THEN ClearTimer /\ Ends(k) /\ UNCHANGED supervisor
    ELSE strikes' = strikes + 1 /\ TickDeferred(k)

(* The probe has answered. *)
TickProbed(k) ==
    /\ tick[k] = "probe"
    /\ TickUnloaded(k) \/ TickResidual(k) \/ TickFailed(k)
    /\ UNCHANGED call

(* handleSecondarySpawnTimeout: queued rows are closed, then those in       *)
(* progress (GiveUpSpawn of BackfillStatus); a failure skips what is left.  *)
ScanQueued(k) ==
    /\ tick[k] = "queued"
    /\ \/ tick' = [tick EXCEPT ![k] = "in_progress"] /\ UNCHANGED deferral
       \/ Ends(k) /\ ClearTimer
    /\ UNCHANGED <<supervisor, call>>

ScanInProgress(k) ==
    /\ tick[k] = "in_progress"
    /\ Ends(k)
    /\ ClearTimer
    /\ UNCHANGED <<supervisor, call>>

-----------------------------------------------------------------------------
CallStep(c) == Bootstrap(c) \/ PrimaryAwaited(c) \/ CallProbed(c)

TickStep(k) == TickProbed(k) \/ ScanQueued(k) \/ ScanInProgress(k)

Next ==
    \/ WorkerStep \/ Shutdown
    \/ \E c \in Calls : CallStep(c)
    \/ \E k \in Ticks : TickBegins(k) \/ TickStep(k)

Spec == Init /\ [][Next]_vars

(* The interval fires; probes and updates end: the probe's headers within   *)
(* 3 s, its body within the idle timeout of fetch.  Calls, and anything     *)
(* the worker does, may happen or not.                                      *)
FairSpec ==
    /\ Spec
    /\ WF_vars(\E k \in Ticks : TickBegins(k))
    /\ \A k \in Ticks : WF_vars(TickStep(k))

-----------------------------------------------------------------------------
(* Properties *)

UnderWay == {k \in Ticks : tick[k] # "none"}

(* The bound on the retries counts ticks when they begin and is looked at   *)
(* when they have been answered.  So it may be overrun, but each attempt    *)
(* from the last one on is a tick that is still under way, and will end the *)
(* deferral, whatever deferrals went before and left ticks behind.          *)
OverrunUnderWay ==
    attempts >= MaxAttempts => Cardinality(UnderWay) > attempts - MaxAttempts

GivesUp(k) == tick[k] = "probe" /\ tick'[k] = "queued"
Forks == \E p \in Slots : proc[p] # "alive" /\ proc'[p] = "alive"

(* After shutdown has begun no tick gives up on the rows, and nothing forks *)
(* a worker that shutdown would not wait for, although probes begun before  *)
(* are answered after it, and calls go on to schedule retries.  The         *)
(* exception: a respawn that meets a foreign lock marks the type crashed,   *)
(* and a crashed type is started by whoever asks.                           *)
QuietAfterShutdown ==
    [][closing => /\ \A k \in Ticks : ~GivesUp(k)
                  /\ Forks => state = "crashed"]_vars

(* Every deferral ends, by a start, strikes, the cap or shutdown: calls     *)
(* that keep coming do not renew it, and slow ticks do not keep it.         *)
DeferralEnds == timer ~> ~timer
=============================================================================
