---------------------------- MODULE BackfillFork ----------------------------
(***************************************************************************)
(* How one embedding-backfill job is run: the processes of the backfill    *)
(* worker that take it, the child process each of them forks for it, and   *)
(* the two locks in Redis that are meant to keep them apart.               *)
(*                                                                         *)
(*  - runForkOrFallback (queues/embedding-backfill-processors.ts) acquires *)
(*    a lock of the job, forks, and falls back to its own process          *)
(*  - runEmbeddingBackfillFork (workers/phases/embedding-backfill-fork-    *)
(*    orchestrator.ts) relays BullMQ's lock and hears the child            *)
(*  - runChildProcess (workers/phases/shared/fork-common.ts) times it out  *)
(*  - embedding-backfill-child.ts is the child                             *)
(*  - BullMQ, its job lock and its stall check are external.               *)
(*                                                                         *)
(* Time passes in intervals of 30 s, the period of the relay and of the    *)
(* child's heartbeats, which are not modelled: the child's silence is its  *)
(* own choice.  One action is one turn of an event loop or one command.    *)
(*                                                                         *)
(* A definition D_What is a mutant of D: the bug that What names.          *)
(***************************************************************************)
EXTENDS Integers, Sequences

CONSTANTS
    Workers,         \* processes of the backfill worker
    Nobody,          \* holder of a free lock
    LockTicks,       \* lockDuration (20)
    RenewTicks,      \* BullMQ renews within half of it (10)
    GrantTicks,      \* BACKFILL_EXTEND_LOCK_DURATION_MS (2)
    TtlTicks,        \* PER_JOB_LOCK_TTL_MS (2)
    HeartbeatTicks,  \* PHASE5_HEARTBEAT_TIMEOUT_MS (2)
    TimeoutTicks,    \* BACKFILL_CHILD_OVERALL_TIMEOUT_MS (20)
    Talkers,         \* bound: workers whose children report progress
    MaxTakes,        \* bound: times the job is taken
    MaxFaults,       \* bound: failing Redis commands
    MaxCrashes       \* bound: worker processes that die

ASSUME ForkAssumption ==
    /\ Nobody \notin Workers /\ Talkers \subseteq Workers
    /\ \A n \in {LockTicks, RenewTicks, GrantTicks, TtlTicks, HeartbeatTicks, TimeoutTicks} :
          n \in Nat \ {0}
    /\ GrantTicks > 1 /\ LockTicks > 1 /\ HeartbeatTicks <= TimeoutTicks
    /\ \A n \in {MaxTakes, MaxFaults, MaxCrashes} : n \in Nat

VARIABLES
    job, takes,      \* the job in its queue, and how often it was taken
    owner, lease,    \* BullMQ's lock of the job: the run that has it, intervals left
    holder, ttl,     \* the per-job lock of the fork, intervals left
    proc,            \* worker processes
    pc,              \* where runForkOrFallback stands
    handle,          \* its lock handle is still to be released
    relay,           \* the relay's interval is over
    renew,           \* intervals left until BullMQ's own renewal
    child, verdict,  \* the child process and how it ended
    pipe,            \* its messages not yet read
    saving,          \* an onProgress call has not yet returned
    count,           \* where resultProcessedCount comes from, or childError is set
    age,             \* intervals since the fork
    bare, mute,      \* history: the child runs without its lock; its last words were lost
    faults, crashes  \* left

queue  == <<job, takes>>
locks  == <<owner, lease, holder, ttl>>
run    == <<proc, pc, handle, relay, renew>>
kid    == <<child, verdict, age, bare>>
speech == <<pipe, saving, count, mute>>
vars == <<queue, locks, run, kid, speech, faults, crashes>>

TypeOK ==
    /\ job \in {"waiting", "active", "ended"} /\ takes \in 0..MaxTakes
    /\ owner \in Workers \cup {Nobody} /\ lease \in Nat
    /\ holder \in Workers \cup {Nobody} /\ ttl \in 0..TtlTicks
    /\ proc \in [Workers -> {"up", "down"}]
    /\ pc \in [Workers -> {"idle", "acquire", "fork", "child", "fallback", "release",
                           "answered", "failed"}]
    /\ handle \in [Workers -> BOOLEAN] /\ relay \in [Workers -> BOOLEAN]
    /\ renew \in [Workers -> 0..RenewTicks]
    /\ child \in [Workers -> {"none", "live", "doomed", "exited"}]
    /\ verdict \in [Workers -> {"clean", "error"}]
    /\ pipe \in [Workers -> Seq({"progress", "done", "error"})]
    /\ saving \in [Workers -> BOOLEAN]
    /\ count \in [Workers -> {"none", "partial", "final", "overwritten", "invalid"}]
    /\ age \in [Workers -> 0..TimeoutTicks]
    /\ bare \in [Workers -> BOOLEAN] /\ mute \in [Workers -> BOOLEAN]
    /\ faults \in 0..MaxFaults /\ crashes \in 0..MaxCrashes

All(x) == [w \in Workers |-> x]

Init ==
    /\ job = "waiting" /\ takes = 0
    /\ owner = Nobody /\ lease = 0 /\ holder = Nobody /\ ttl = 0
    /\ proc = All("down") /\ pc = All("idle")
    /\ handle = All(FALSE) /\ relay = All(FALSE) /\ renew = All(0)
    /\ child = All("none") /\ verdict = All("clean")
    /\ pipe = All(<<>>) /\ saving = All(FALSE) /\ count = All("none")
    /\ age = All(0)
    /\ bare = All(FALSE) /\ mute = All(FALSE)
    /\ faults = MaxFaults /\ crashes = MaxCrashes

Goto(w, p) == pc' = [pc EXCEPT ![w] = p]
Fault == faults > 0 /\ faults' = faults - 1

-----------------------------------------------------------------------------
(* Taking the job and its lock *)

TakeJob(w) ==
    /\ proc[w] = "up" /\ pc[w] = "idle"
    /\ job = "waiting" /\ takes < MaxTakes
    /\ job' = "active" /\ takes' = takes + 1
    /\ owner' = w /\ lease' = LockTicks
    /\ renew' = [renew EXCEPT ![w] = RenewTicks]
    /\ Goto(w, "acquire")
    /\ UNCHANGED <<holder, ttl, proc, handle, relay, kid, speech, faults, crashes>>

LockUnchanged == UNCHANGED <<queue, owner, lease, proc, relay, renew, speech, crashes>>

Acquire_NoNX(w) ==
    /\ pc[w] = "acquire"
    /\ holder' = w /\ ttl' = TtlTicks
    /\ handle' = [handle EXCEPT ![w] = TRUE]
    /\ bare' = [bare EXCEPT ![w] = FALSE]
    /\ Goto(w, "fork")
    /\ UNCHANGED <<child, verdict, age, faults>> /\ LockUnchanged

Acquire(w) ==
    /\ pc[w] = "acquire"
    /\ holder = Nobody
    /\ holder' = w /\ ttl' = TtlTicks
    /\ handle' = [handle EXCEPT ![w] = TRUE]
    /\ bare' = [bare EXCEPT ![w] = FALSE]
    /\ Goto(w, "fork")
    /\ UNCHANGED <<child, verdict, age, faults>> /\ LockUnchanged

(* race_lost, or another job's child was forked in the last 500 ms. *)
AcquireRefused(w) ==
    /\ pc[w] = "acquire"
    /\ Goto(w, "fallback")
    /\ UNCHANGED <<holder, ttl, handle, kid, faults>> /\ LockUnchanged

(* redis_unreachable: on without a lock, or with one whose reply was lost. *)
AcquireFailsOpen(w) ==
    /\ pc[w] = "acquire"
    /\ Fault
    /\ \/ UNCHANGED <<holder, ttl>>
       \/ holder = Nobody /\ holder' = w /\ ttl' = TtlTicks
    /\ bare' = [bare EXCEPT ![w] = TRUE]
    /\ Goto(w, "fork")
    /\ UNCHANGED <<handle, child, verdict, age>> /\ LockUnchanged

Fork(w) ==
    /\ pc[w] = "fork"
    /\ child' = [child EXCEPT ![w] = "live"]
    /\ Goto(w, "child")
    /\ UNCHANGED <<queue, locks, proc, handle, relay, renew, verdict, age, bare, speech,
                   faults, crashes>>

(* fork throws, or its child emits an error instead of an exit. *)
ForkFails(w) ==
    /\ pc[w] = "fork"
    /\ bare' = [bare EXCEPT ![w] = FALSE]
    /\ Goto(w, "fallback")
    /\ UNCHANGED <<queue, locks, proc, handle, relay, renew, child, verdict, age, speech,
                   faults, crashes>>

-----------------------------------------------------------------------------
(* The child *)

KidUnchanged == UNCHANGED <<queue, locks, run, age, bare, saving, count, faults, crashes>>

(* A message is written to the pipe, if somebody is there to read it. *)
Say(w, m) ==
    pipe' = IF proc[w] = "up" THEN [pipe EXCEPT ![w] = Append(@, m)] ELSE pipe

Exit(w, v) ==
    /\ child' = [child EXCEPT ![w] = IF proc[w] = "up" THEN "exited" ELSE "none"]
    /\ verdict' = [verdict EXCEPT ![w] = IF proc[w] = "up" THEN v ELSE "clean"]

(* It reports progress once. *)
ChildProgress(w) ==
    /\ child[w] = "live" /\ proc[w] = "up"
    /\ w \in Talkers /\ pipe[w] = <<>> /\ ~saving[w] /\ count[w] = "none"
    /\ Say(w, "progress")
    /\ UNCHANGED <<child, verdict, mute>> /\ KidUnchanged

(* It sends its last words and exits at once: what does not fit the pipe is *)
(* lost.                                                                    *)
ChildEnds(w, m, v) ==
    /\ child[w] = "live"
    /\ \/ Say(w, m) /\ UNCHANGED mute
       \/ UNCHANGED pipe /\ mute' = [mute EXCEPT ![w] = proc[w] = "up"]
    /\ Exit(w, v)
    /\ KidUnchanged

(* A crash, or the signal it was sent. *)
ChildDies(w) ==
    /\ child[w] \in {"live", "doomed"}
    /\ Exit(w, "error")
    /\ UNCHANGED <<pipe, mute>> /\ KidUnchanged

ChildStep(w) ==
    \/ ChildProgress(w) \/ ChildDies(w)
    \/ ChildEnds(w, "done", "clean") \/ ChildEnds(w, "error", "error")

-----------------------------------------------------------------------------
(* The parent while its child runs *)

ParentUnchanged == UNCHANGED <<queue, holder, ttl, proc, pc, handle, verdict, bare, mute, crashes>>

(* onChildMessage: a progress message is first written to the job.  One that *)
(* fails validation is an error of the child, however the child goes on.     *)
Hear(w) ==
    /\ pc[w] = "child" /\ pipe[w] # <<>>
    /\ pipe' = [pipe EXCEPT ![w] = Tail(@)]
    /\ \/ /\ saving' = [saving EXCEPT ![w] = @ \/ Head(pipe[w]) = "progress"]
          /\ count' = [count EXCEPT ![w] =
                          IF Head(pipe[w]) = "done" /\ @ # "invalid" THEN "final" ELSE @]
       \/ count' = [count EXCEPT ![w] = "invalid"] /\ UNCHANGED saving
    /\ UNCHANGED <<owner, lease, relay, renew, child, age, faults>> /\ ParentUnchanged

(* ... and then to the result, whatever has come in meanwhile. *)
ProgressSaved(w) ==
    /\ pc[w] = "child" /\ saving[w]
    /\ saving' = [saving EXCEPT ![w] = FALSE]
    /\ count' = [count EXCEPT ![w] = CASE @ = "invalid" -> @
                                       [] @ \in {"final", "overwritten"} -> "overwritten"
                                       [] OTHER -> "partial"]
    /\ UNCHANGED <<owner, lease, relay, renew, child, age, pipe, faults>>
    /\ ParentUnchanged

Relay_GrantsOneInterval(w) ==
    /\ pc[w] = "child" /\ relay[w]
    /\ relay' = [relay EXCEPT ![w] = FALSE]
    /\ \/ lease' = (IF owner = w THEN GrantTicks - 1 ELSE lease) /\ UNCHANGED faults
       \/ Fault /\ UNCHANGED lease
    /\ UNCHANGED <<owner, renew, child, age, pipe, saving, count>> /\ ParentUnchanged

(* The relay extends BullMQ's lock, by less than BullMQ would. *)
Relay(w) ==
    /\ pc[w] = "child" /\ relay[w]
    /\ relay' = [relay EXCEPT ![w] = FALSE]
    /\ \/ lease' = (IF owner = w THEN GrantTicks ELSE lease) /\ UNCHANGED faults
       \/ Fault /\ UNCHANGED lease
    /\ UNCHANGED <<owner, renew, child, age, pipe, saving, count>> /\ ParentUnchanged

TimeOut_FinishesAtOnce(w) ==
    /\ pc[w] = "child" /\ child[w] = "live"
    /\ age[w] >= HeartbeatTicks
    /\ child' = [child EXCEPT ![w] = "doomed"]
    /\ relay' = [relay EXCEPT ![w] = FALSE]
    /\ Goto(w, "fallback")
    /\ UNCHANGED <<owner, lease, renew, age, pipe, saving, count, faults>>
    /\ UNCHANGED <<queue, holder, ttl, proc, handle, verdict, bare, mute, crashes>>

TimeOut_HeartbeatOnly(w) ==
    /\ pc[w] = "child" /\ child[w] = "live"
    /\ age[w] >= HeartbeatTicks /\ age[w] < TimeoutTicks
    /\ child' = [child EXCEPT ![w] = "doomed"]
    /\ UNCHANGED <<owner, lease, relay, renew, age, pipe, saving, count, faults>>
    /\ ParentUnchanged

(* The child was silent for two heartbeats, or took too long: it is sent a *)
(* SIGKILL, and its exit awaited.                                          *)
TimeOut(w) ==
    /\ pc[w] = "child" /\ child[w] = "live"
    /\ age[w] >= HeartbeatTicks
    /\ child' = [child EXCEPT ![w] = "doomed"]
    /\ UNCHANGED <<owner, lease, relay, renew, age, pipe, saving, count, faults>>
    /\ ParentUnchanged

Succeeded(w) == verdict[w] = "clean" /\ count[w] # "invalid"

Settle_NoDrain(w) ==
    /\ pc[w] = "child" /\ child[w] = "exited"
    /\ child' = [child EXCEPT ![w] = "none"]
    /\ relay' = [relay EXCEPT ![w] = FALSE]
    /\ saving' = [saving EXCEPT ![w] = FALSE] /\ pipe' = [pipe EXCEPT ![w] = <<>>]
    /\ age' = [age EXCEPT ![w] = 0] /\ verdict' = [verdict EXCEPT ![w] = "clean"]
    /\ bare' = [bare EXCEPT ![w] = FALSE]
    /\ Goto(w, IF Succeeded(w) THEN "release" ELSE "fallback")
    /\ UNCHANGED <<queue, locks, proc, handle, renew, count, mute, faults, crashes>>

(* The exit is handled a turn of the event loop later: assumed enough to    *)
(* read the pipe.  The run succeeds or goes on in this process.             *)
Settle(w) ==
    /\ pc[w] = "child" /\ child[w] = "exited"
    /\ pipe[w] = <<>>
    /\ child' = [child EXCEPT ![w] = "none"]
    /\ relay' = [relay EXCEPT ![w] = FALSE]
    /\ saving' = [saving EXCEPT ![w] = FALSE]
    /\ age' = [age EXCEPT ![w] = 0] /\ verdict' = [verdict EXCEPT ![w] = "clean"]
    /\ bare' = [bare EXCEPT ![w] = FALSE]
    /\ Goto(w, IF Succeeded(w) THEN "release" ELSE "fallback")
    /\ UNCHANGED <<queue, locks, proc, handle, renew, pipe, count, mute, faults, crashes>>

-----------------------------------------------------------------------------
(* The end of the run *)

(* The finally block releases the lock; a fallback has begun by then. *)
Release(w) ==
    /\ pc[w] \in {"release", "fallback"} /\ handle[w]
    /\ handle' = [handle EXCEPT ![w] = FALSE]
    /\ \/ holder = w /\ holder' = Nobody /\ ttl' = 0 /\ UNCHANGED faults
       \/ holder # w /\ UNCHANGED <<holder, ttl, faults>>
       \/ Fault /\ UNCHANGED <<holder, ttl>>
    /\ UNCHANGED <<queue, owner, lease, proc, pc, relay, renew, kid, speech, crashes>>

Answer(w) ==
    /\ pc[w] \in {"release", "fallback"} /\ ~handle[w]
    /\ \/ Goto(w, "answered")
       \/ pc[w] = "fallback" /\ Goto(w, "failed")
    /\ count' = [count EXCEPT ![w] = "none"] /\ mute' = [mute EXCEPT ![w] = FALSE]
    /\ UNCHANGED <<queue, locks, proc, handle, relay, renew, kid, pipe, saving, faults, crashes>>

EndRun(w) ==
    /\ Goto(w, "idle")
    /\ renew' = [renew EXCEPT ![w] = 0]
    /\ UNCHANGED <<takes, holder, ttl, handle, relay, kid, speech, faults, crashes>>

(* BullMQ completes the job and the process exits, if the lock is still the *)
(* run's.                                                                   *)
CompleteJob(w) ==
    /\ pc[w] = "answered"
    /\ \/ /\ owner = w
          /\ job' = "ended" /\ owner' = Nobody /\ lease' = 0
          /\ proc' = [proc EXCEPT ![w] = "down"]
       \/ owner # w /\ UNCHANGED <<job, owner, lease, proc>>
    /\ EndRun(w)

(* It fails it for good or for another attempt. *)
FailJob(w) ==
    /\ pc[w] = "failed"
    /\ \/ /\ owner = w
          /\ job' \in {"waiting", "ended"} /\ owner' = Nobody /\ lease' = 0
       \/ owner # w /\ UNCHANGED <<job, owner, lease>>
    /\ UNCHANGED proc /\ EndRun(w)

RunStep(w) ==
    \/ Acquire(w) \/ AcquireRefused(w) \/ AcquireFailsOpen(w) \/ Fork(w) \/ ForkFails(w)
    \/ Hear(w) \/ ProgressSaved(w) \/ Settle(w)
    \/ Release(w) \/ Answer(w) \/ CompleteJob(w) \/ FailJob(w)

-----------------------------------------------------------------------------
(* Processes, locks and time *)

(* recoverOrphanedEmbeddingBackfillJobs: the active job is failed past its *)
(* lock and retried, whoever runs it; if that fails the job is as it was,  *)
(* or failed.                                                              *)
StartWorker(w) ==
    /\ proc[w] # "up"
    /\ child[w] = "none" /\ w \notin {owner, holder}
    /\ proc' = [proc EXCEPT ![w] = "up"]
    /\ \/ job = "active" /\ job' = "waiting" /\ owner' = Nobody /\ lease' = 0
          /\ UNCHANGED faults
       \/ job = "active" /\ job' = "ended" /\ owner' = Nobody /\ lease' = 0 /\ Fault
       \/ job = "active" /\ Fault /\ UNCHANGED <<job, owner, lease>>
       \/ job # "active" /\ UNCHANGED <<job, owner, lease, faults>>
    /\ UNCHANGED <<takes, holder, ttl, pc, handle, relay, renew, kid, speech, crashes>>

(* Its child, if it has one, goes on. *)
CrashWorker(w) ==
    /\ proc[w] = "up"
    /\ crashes > 0 /\ crashes' = crashes - 1
    /\ proc' = [proc EXCEPT ![w] = "down"]
    /\ Goto(w, "idle")
    /\ handle' = [handle EXCEPT ![w] = FALSE] /\ relay' = [relay EXCEPT ![w] = FALSE]
    /\ child' = [child EXCEPT ![w] = IF @ = "exited" THEN "none" ELSE @]
    /\ pipe' = [pipe EXCEPT ![w] = <<>>] /\ saving' = [saving EXCEPT ![w] = FALSE]
    /\ count' = [count EXCEPT ![w] = "none"] /\ mute' = [mute EXCEPT ![w] = FALSE]
    /\ renew' = [renew EXCEPT ![w] = 0] /\ age' = [age EXCEPT ![w] = 0]
    /\ UNCHANGED <<queue, locks, verdict, bare, faults>>

(* BullMQ's worker renews the lock of a job it still processes. *)
Renew(w) ==
    /\ pc[w] # "idle" /\ renew[w] <= RenewTicks \div 2
    /\ renew' = [renew EXCEPT ![w] = RenewTicks]
    /\ \/ lease' = (IF owner = w THEN LockTicks ELSE lease) /\ UNCHANGED faults
       \/ Fault /\ UNCHANGED lease
    /\ UNCHANGED <<queue, owner, holder, ttl, proc, pc, handle, relay, kid, speech, crashes>>

(* Keys expire, and a job without a lock is put back into the queue. *)
JobLockLapses ==
    /\ owner # Nobody /\ lease = 0
    /\ owner' = Nobody
    /\ UNCHANGED <<queue, lease, holder, ttl, run, kid, speech, faults, crashes>>

PerJobLockLapses ==
    /\ holder # Nobody /\ ttl = 0
    /\ bare' = [bare EXCEPT ![holder] = child[holder] # "none" \/ pc[holder] = "fork"]
    /\ holder' = Nobody
    /\ UNCHANGED <<queue, owner, lease, ttl, run, child, verdict, age, speech,
                   faults, crashes>>

Stall ==
    /\ job = "active" /\ owner = Nobody
    /\ \E w \in Workers : proc[w] = "up"
    /\ job' \in {"waiting", "ended"}
    /\ UNCHANGED <<takes, locks, run, kid, speech, faults, crashes>>

Quiet_NoOverallTimeout(w) ==
    /\ pc[w] \in {"idle", "child", "fallback"} /\ ~(pc[w] = "fallback" /\ handle[w])
    /\ ~relay[w] /\ ~saving[w] /\ pipe[w] = <<>>
    /\ child[w] \in {"none", "live"}
    /\ pc[w] # "idle" => renew[w] > 0

(* 30 s pass while nothing that takes less is under way. *)
Quiet(w) ==
    /\ pc[w] \in {"idle", "child", "fallback"} /\ ~(pc[w] = "fallback" /\ handle[w])
    /\ ~relay[w] /\ ~saving[w] /\ pipe[w] = <<>>
    /\ child[w] \in {"none", "live"}
    /\ pc[w] = "child" => age[w] < TimeoutTicks
    /\ pc[w] # "idle" => renew[w] > 0

Less(n) == IF n > 0 THEN n - 1 ELSE 0

Tick ==
    /\ \A w \in Workers : Quiet(w)
    /\ owner # Nobody => lease > 0
    /\ holder # Nobody => ttl > 0
    /\ \E w \in Workers : pc[w] # "idle" \/ w \in {owner, holder}
    /\ lease' = Less(lease) /\ ttl' = Less(ttl)
    /\ relay' = [w \in Workers |-> pc[w] = "child"]
    /\ renew' = [w \in Workers |-> Less(renew[w])]
    /\ age' = [w \in Workers |-> IF pc[w] = "child" THEN age[w] + 1 ELSE age[w]]
    /\ UNCHANGED <<queue, owner, holder, proc, pc, handle, child, verdict, bare, speech,
                   faults, crashes>>

WorkerStep(w) ==
    \/ TakeJob(w) \/ RunStep(w) \/ TimeOut(w) \/ Relay(w) \/ ChildStep(w) \/ Renew(w)
    \/ StartWorker(w) \/ CrashWorker(w)

Time == JobLockLapses \/ PerJobLockLapses \/ Stall \/ Tick

Next == Time \/ \E w \in Workers : WorkerStep(w)

Spec == Init /\ [][Next]_vars

(* What an event loop, a timer, the kernel or Redis does sooner or later. *)
Due(w) ==
    \/ RunStep(w) \/ Relay(w) \/ Renew(w)
    \/ age[w] = TimeoutTicks /\ TimeOut(w)
    \/ child[w] = "doomed" /\ ChildDies(w)

(* Nothing stands still while something is due, and the work of a fallback  *)
(* ends.  A child need not do anything.                                     *)
FairSpec ==
    /\ Spec
    /\ WF_vars(Time \/ \E w \in Workers : Due(w))
    /\ WF_vars(\E w \in Workers : Answer(w))

-----------------------------------------------------------------------------
(* Properties *)

Alive(w) == child[w] \in {"live", "doomed"}

(* A process never works on the job, in a fallback or on to its answer,     *)
(* while the child it forked for it lives: not even when that child was     *)
(* timed out.                                                               *)
FallbackAlone ==
    \A w \in Workers : proc[w] = "up" /\ Alive(w) => pc[w] = "child"

(* Two children of the job live at a time only if one of them runs without  *)
(* the lock: Redis failed when it was acquired, or it has expired.  This is *)
(* so across timeouts, crashed parents whose children go on, stalls, and    *)
(* restarts that take the job from a living process.                        *)
NoCoveredTwins ==
    \A v, w \in Workers : v # w /\ Alive(v) /\ Alive(w) => bare[v] \/ bare[w]

(* A run that succeeds has heard what its child said last, whenever the     *)
(* child could say it: the exit does not overtake the message.              *)
DoneHeard ==
    \A w \in Workers :
        pc[w] = "release" => count[w] \in {"final", "overwritten"} \/ mute[w]

(* Until a Redis command fails BullMQ's lock does not expire while a child  *)
(* runs: although the relay shortens the lock each time it extends it.      *)
JobLockOutlasts ==
    [][job = "active" /\ job' = "active" /\ owner # Nobody /\ owner' = Nobody
        => pc[owner] # "child" \/ faults < MaxFaults]_vars

(* The job is taken a bounded number of times, and every time the run ends, *)
(* and its per-job lock goes away: however long the child is silent or only *)
(* sends heartbeats, whoever dies, and whatever release fails.              *)
RunsEnd ==
    <>[](holder = Nobody /\ \A w \in Workers : pc[w] = "idle")
=============================================================================
