------------------------------ MODULE PageJob ------------------------------
(***************************************************************************)
(* The jobs of the page-analyze queue, the processes that run them, and    *)
(* everybody who ends a job that is not his own.                           *)
(*                                                                         *)
(*  - workers/page-analyze-worker.ts: a run of a job, and how it ends      *)
(*  - scripts/start-workers.ts: recovery of the active jobs at a start     *)
(*  - services/worker-stall-recovery.service.ts, orphaned-job-utils.ts:    *)
(*    recovery of stalled jobs, and of jobs that were taken long ago       *)
(*  - BullMQ, its lock of a job and its stall check are external.          *)
(*                                                                         *)
(* A process is a worker slot between its start and its end; its lock      *)
(* tokens end with it.  One action is one command on the queue with the    *)
(* code that follows its reply.  Time is not counted: that a lock expires, *)
(* or a job gets old, are events.                                          *)
(*                                                                         *)
(* A definition D_What is a mutant of D: the bug that What names.          *)
(***************************************************************************)
EXTENDS Integers, FiniteSets

CONSTANTS
    Jobs,        \* page-analyze jobs, each with its page
    Workers,     \* slots of worker processes
    Free,        \* no lock
    Stale,       \* a lock whose process is gone
    NoJob,
    MaxFaults,   \* bound: mishaps, and processes that die
    MaxCrowd     \* bound: processes, and jobs that are not over

ASSUME PageJobAssumption ==
    /\ {Free, Stale} \cap Workers = {} /\ Free # Stale
    /\ NoJob \notin Jobs
    /\ MaxFaults \in Nat /\ MaxCrowd \in Nat

VARIABLES
    state,     \* of the jobs in their queue
    progress,  \* none: 0; some: less than 90; saved: 90 and more
    lock,      \* the process whose token is in a job's lock
    old,       \* processedOn is more than lockDuration + STALL_MARGIN_MS ago
    reached,   \* history: how far the runs of a job have come
    pc, at,    \* where a process stands, and the job it runs
    verdict,   \* what a process is about to do to jobs it has judged
    calm,      \* history: no mishap so far
    faults     \* left

queue == <<state, progress, lock, old, reached>>
proc  == <<pc, at>>
vars  == <<queue, proc, verdict, calm, faults>>

Running  == {"begin", "ingest", "phases", "embed", "return", "rethrow"}
Ended    == {"completed", "failed"}
Verdicts == {"complete", "fail", "retry", "requeue", "judge"}

TypeOK ==
    /\ state \in [Jobs -> {"new", "waiting", "active"} \cup Ended]
    /\ progress \in [Jobs -> {"none", "some", "saved"}]
    /\ lock \in [Jobs -> Workers \cup {Free, Stale}]
    /\ old \in [Jobs -> BOOLEAN]
    /\ reached \in [Jobs -> {"nothing", "begun", "stored"}]
    /\ pc \in [Workers -> {"off", "recover", "idle"} \cup Running]
    /\ at \in [Workers -> Jobs \cup {NoJob}]
    /\ \A w \in Workers : pc[w] \in Running <=> at[w] # NoJob
    /\ verdict \in [Workers -> SUBSET (Jobs \X Verdicts)]
    /\ calm \in BOOLEAN /\ faults \in 0..MaxFaults

Init ==
    /\ state = [j \in Jobs |-> "new"] /\ progress = [j \in Jobs |-> "none"]
    /\ lock = [j \in Jobs |-> Free] /\ old = [j \in Jobs |-> FALSE]
    /\ reached = [j \in Jobs |-> "nothing"]
    /\ pc = [w \in Workers |-> "off"] /\ at = [w \in Workers |-> NoJob]
    /\ verdict = [w \in Workers |-> {}]
    /\ calm = TRUE /\ faults = MaxFaults

Goto(w, p) == pc' = [pc EXCEPT ![w] = p] /\ UNCHANGED at

(* A command fails, a lock is lost by a living process, a process is started *)
(* beside another, or dies before its recovery is over.                      *)
Mishap == faults > 0 /\ faults' = faults - 1 /\ calm' = FALSE

NoMishap == UNCHANGED <<calm, faults>>

-----------------------------------------------------------------------------
(* A run of a job: processPageAnalyzeJob *)

Open(j) ==
    \/ state[j] \in {"waiting", "active"}
    \/ \E w \in Workers : at[w] = j \/ \E v \in verdict[w] : v[1] = j

Crowd == Cardinality({w \in Workers : pc[w] # "off"}) + Cardinality({j \in Jobs : Open(j)})

(* page.analyze adds a job. *)
Add(j) ==
    /\ state[j] = "new" /\ Crowd < MaxCrowd
    /\ state' = [state EXCEPT ![j] = "waiting"]
    /\ UNCHANGED <<progress, lock, old, reached, proc, verdict>> /\ NoMishap

(* BullMQ hands over a job: its token, and processedOn. *)
Take(w, j) ==
    /\ pc[w] = "idle" /\ state[j] = "waiting"
    /\ state' = [state EXCEPT ![j] = "active"]
    /\ lock' = [lock EXCEPT ![j] = w]
    /\ old' = [old EXCEPT ![j] = FALSE]
    /\ pc' = [pc EXCEPT ![w] = "begin"] /\ at' = [at EXCEPT ![w] = j]
    /\ UNCHANGED <<progress, reached, verdict>> /\ NoMishap

RunUnchanged == UNCHANGED <<state, lock, old, verdict>> /\ NoMishap

(* A write of the progress needs no lock, only the job. *)
Report(w, p) == progress' = [progress EXCEPT ![at[w]] = p]

Begin(w) ==
    /\ pc[w] = "begin"
    /\ Report(w, "none") /\ Goto(w, "ingest")
    /\ reached' = [reached EXCEPT ![at[w]] = IF @ = "nothing" THEN "begun" ELSE @]
    /\ RunUnchanged

Ingest(w) ==
    /\ pc[w] = "ingest"
    /\ Report(w, "some") /\ Goto(w, "phases")
    /\ UNCHANGED reached /\ RunUnchanged

(* Phases 1 to 4 save what they found.  A phase that failed counts for      *)
(* nothing in the progress.                                                 *)
Phases(w) ==
    /\ pc[w] = "phases"
    /\ reached' = [reached EXCEPT ![at[w]] = "stored"]
    /\ \E p \in {"some", "saved"} : Report(w, p)
    /\ Goto(w, "embed") /\ RunUnchanged

(* EMBEDDING_START and EMBEDDING_COMPLETE, if there is anything to embed,   *)
(* and then the tracker, which knows nothing of embeddings, reports its own *)
(* sum.  What lies between leaves the same states as Phases.                *)
Embed(w) ==
    /\ pc[w] = "embed"
    /\ \E p \in {"some", "saved"} : Report(w, p)
    /\ Goto(w, "return")
    /\ UNCHANGED reached /\ RunUnchanged

Throw(w) ==
    /\ pc[w] \in Running \ {"begin", "rethrow"}
    /\ Goto(w, "rethrow")
    /\ UNCHANGED <<progress, reached>> /\ RunUnchanged

-----------------------------------------------------------------------------
(* The end of a run, and of a process *)

Holds(w) == lock[at[w]] = w /\ state[at[w]] = "active"

(* A process is gone: its tokens die, and what it was about to do is not done. *)
Leave(w, locks) ==
    /\ pc' = [pc EXCEPT ![w] = "off"] /\ at' = [at EXCEPT ![w] = NoJob]
    /\ lock' = [j \in Jobs |-> IF locks[j] = w THEN Stale ELSE locks[j]]
    /\ verdict' = [verdict EXCEPT ![w] = {}]

Unlocked(w) == [lock EXCEPT ![at[w]] = Free]

(* The job is completed with its token, and the next one taken by the same  *)
(* command; then the completed listener ends the process.                   *)
Return(w) ==
    /\ pc[w] = "return" /\ Holds(w)
    /\ \E next \in SUBSET {j \in Jobs : state[j] = "waiting"} :
         /\ next = {} <=> \A j \in Jobs : state[j] # "waiting"
         /\ \A i, j \in next : i = j
         /\ state' = [j \in Jobs |-> IF j = at[w] THEN "completed"
                                     ELSE IF j \in next THEN "active" ELSE state[j]]
         /\ old' = [j \in Jobs |-> old[j] /\ j \notin next]
         /\ Leave(w, [j \in Jobs |-> IF j = at[w] THEN Free
                                     ELSE IF j \in next THEN w ELSE lock[j]])
    /\ UNCHANGED <<progress, reached>> /\ NoMishap

GoesOn_KeepsJob(w) ==
    /\ pc' = [pc EXCEPT ![w] = "idle"] /\ UNCHANGED at
    /\ UNCHANGED <<progress, old, reached, verdict>> /\ NoMishap

GoesOn(w) ==
    /\ pc' = [pc EXCEPT ![w] = "idle"] /\ at' = [at EXCEPT ![w] = NoJob]
    /\ UNCHANGED <<progress, old, reached, verdict>> /\ NoMishap

(* The thrown error fails the job, and the process goes on. *)
Rethrow(w) ==
    /\ pc[w] = "rethrow" /\ Holds(w)
    /\ state' = [state EXCEPT ![at[w]] = "failed"] /\ lock' = Unlocked(w)
    /\ GoesOn(w)

Discard_AwaitsEvent(w) ==
    /\ pc[w] = "rethrow" /\ ~Holds(w)
    /\ lock' = IF lock[at[w]] = w THEN Unlocked(w) ELSE lock
    /\ UNCHANGED state /\ GoesOn(w)

(* The job was taken away: neither command is accepted, there is no event,  *)
(* and the process goes on.  A lock that was left is deleted.               *)
Discard(w) ==
    /\ pc[w] \in {"return", "rethrow"} /\ ~Holds(w)
    /\ lock' = IF lock[at[w]] = w THEN Unlocked(w) ELSE lock
    /\ UNCHANGED state /\ GoesOn(w)

Crash(w) ==
    /\ pc[w] # "off"
    /\ faults > 0 /\ faults' = faults - 1
    /\ calm' = (calm /\ pc[w] # "recover")
    /\ Leave(w, lock)
    /\ UNCHANGED <<state, progress, old, reached>>

-----------------------------------------------------------------------------
(* Those who end the jobs of others *)

Category_AnyProgress(j) ==
    CASE progress[j] \in {"saved", "some"} -> "complete"
      [] progress[j] = "none" -> "retry"

Category(j) ==
    CASE progress[j] = "saved" -> "complete"
      [] progress[j] = "some"  -> "fail"
      [] progress[j] = "none"  -> "retry"

Judged == {<<j, Category(j)>> : j \in {i \in Jobs : state[i] = "active"}}

(* recoverOrphanedPageAnalyzeJobs takes every active job for an orphan; what *)
(* fails is passed over.                                                     *)
Start(w) ==
    /\ \A v \in Workers : pc[v] = "off"
    /\ w = CHOOSE v \in Workers : TRUE   \* slots that are not used are alike
    /\ Goto(w, "recover")
    /\ \/ verdict' = [verdict EXCEPT ![w] = Judged] /\ NoMishap
       \/ UNCHANGED verdict /\ Mishap
    /\ UNCHANGED queue

(* Another server, a manual worker, or a process that outlived its server. *)
StartBeside(w) ==
    /\ pc[w] = "off" /\ \E v \in Workers : pc[v] # "off"
    /\ Crowd < MaxCrowd
    /\ Goto(w, "recover")
    /\ verdict' = [verdict EXCEPT ![w] = Judged]
    /\ Mishap /\ UNCHANGED queue

(* The worker is created and run when the recovery is over. *)
Run(w) ==
    /\ pc[w] = "recover" /\ verdict[w] = {}
    /\ Goto(w, "idle")
    /\ UNCHANGED <<queue, verdict>> /\ NoMishap

Replaced(w, v, by) == [verdict EXCEPT ![w] = (@ \ {v}) \cup by]

(* moveToCompleted and moveToFailed past any lock: refused when the job is  *)
(* not active, and passed over when they fail.                              *)
Move(w, v, to, next) ==
    \/ /\ state[v[1]] = "active"
       /\ state' = [state EXCEPT ![v[1]] = to]
       /\ verdict' = Replaced(w, v, next) /\ NoMishap
    \/ /\ state[v[1]] # "active"
       /\ UNCHANGED state
       /\ verdict' = Replaced(w, v, {}) /\ NoMishap
    \/ /\ UNCHANGED state
       /\ verdict' = Replaced(w, v, {}) /\ Mishap

Complete(w, v) == v[2] = "complete" /\ Move(w, v, "completed", {})
Fail(w, v)     == v[2] = "fail" /\ Move(w, v, "failed", {})

Retry_OnlyFails(w, v) ==
    v[2] = "retry" /\ Move(w, v, "failed", {})

Retry(w, v) ==
    \/ v[2] = "retry" /\ Move(w, v, "failed", {<<v[1], "requeue">>})
    \/ /\ v[2] = "requeue" /\ state[v[1]] = "failed"
       /\ verdict' = Replaced(w, v, {})
       /\ \/ state' = [state EXCEPT ![v[1]] = "waiting"] /\ NoMishap
          \/ UNCHANGED state /\ Mishap

CanJudge(w) == pc[w] \notin {"off", "recover"}

Orphaned_AtAnyAge(j) == state[j] = "active"

(* isOrphanedByLockExpiry. *)
Orphaned(j) == state[j] = "active" /\ old[j]

(* recoverOrphanedJobs, when the worker is created and then periodically:   *)
(* here a job that never started is failed.                                 *)
Check(w, j) ==
    /\ CanJudge(w) /\ Orphaned(j)
    /\ verdict' = [verdict EXCEPT ![w] =
                     @ \cup {<<j, IF Category(j) = "complete" THEN "complete" ELSE "fail">>}]
    /\ UNCHANGED <<queue, proc>> /\ NoMishap

(* BullMQ's stall check: the job waits again, and an event is emitted; or   *)
(* it has stalled too often, and fails.                                     *)
Stall(w, j) ==
    /\ CanJudge(w)
    /\ state[j] = "active" /\ lock[j] = Free
    /\ \/ /\ state' = [state EXCEPT ![j] = "waiting"]
          /\ verdict' = [verdict EXCEPT ![w] = @ \cup {<<j, "judge">>}]
       \/ /\ state' = [state EXCEPT ![j] = "failed"]
          /\ UNCHANGED verdict
    /\ UNCHANGED <<progress, lock, old, reached, proc>> /\ NoMishap

(* handleStalledJob reads the job, which may run again by then. *)
HandleStalled(w, v) ==
    /\ v[2] = "judge"
    /\ verdict' = Replaced(w, v,
         IF state[v[1]] = "completed" THEN {}
         ELSE IF Category(v[1]) = "complete" THEN {<<v[1], "complete">>}
         ELSE IF state[v[1]] \in {"active", "waiting"} THEN {<<v[1], "fail">>} ELSE {})
    /\ UNCHANGED state /\ NoMishap

Execute(w) ==
    /\ \E v \in verdict[w] :
         Complete(w, v) \/ Fail(w, v) \/ Retry(w, v) \/ HandleStalled(w, v)
    /\ UNCHANGED <<progress, lock, old, reached, proc>>

-----------------------------------------------------------------------------
(* Time *)

(* A lock expires that nobody extends any more, or whose process blocked    *)
(* its event loop for too long.                                             *)
Lapse(j) ==
    /\ \/ lock[j] = Stale /\ NoMishap
       \/ lock[j] \in Workers /\ Mishap
    /\ lock' = [lock EXCEPT ![j] = Free]
    /\ UNCHANGED <<state, progress, old, reached, proc, verdict>>

Age(j) ==
    /\ state[j] = "active" /\ ~old[j]
    /\ old' = [old EXCEPT ![j] = TRUE]
    /\ UNCHANGED <<state, progress, lock, reached, proc, verdict>> /\ NoMishap

RunStep(w) ==
    \/ Begin(w) \/ Ingest(w) \/ Phases(w) \/ Embed(w)
    \/ Return(w) \/ Rethrow(w) \/ Discard(w)

WorkerStep(w) ==
    \/ \E j \in Jobs : Take(w, j) \/ Check(w, j) \/ Stall(w, j)
    \/ RunStep(w) \/ Throw(w) \/ Crash(w) \/ Start(w) \/ StartBeside(w) \/ Run(w) \/ Execute(w)

Next ==
    \/ \E w \in Workers : WorkerStep(w)
    \/ \E j \in Jobs : Add(j) \/ Lapse(j) \/ Age(j)

Spec == Init /\ [][Next]_vars

(* A process is started when there is none, takes jobs and goes on with     *)
(* them; its timers fire, and time passes.  Jobs need not be added, nor     *)
(* anything fail.                                                           *)
FairSpec ==
    /\ Spec
    /\ WF_vars(\E w \in Workers : Start(w))
    /\ \A w \in Workers :
         /\ WF_vars(Run(w)) /\ WF_vars(Execute(w)) /\ WF_vars(RunStep(w))
         /\ WF_vars(\E j \in Jobs : Take(w, j))
    /\ \A j \in Jobs :
         /\ WF_vars(Lapse(j) /\ NoMishap) /\ WF_vars(Age(j))
         /\ WF_vars(\E w \in Workers : Stall(w, j)) /\ WF_vars(\E w \in Workers : Check(w, j))

-----------------------------------------------------------------------------
(* Properties *)

(* A job is only called completed, by its run or by whoever finds it stuck, *)
(* when a run of it has been through the phases that save: although its     *)
(* progress outlives runs, and is written by runs that have lost the job.   *)
CompletedMeansStored ==
    \A j \in Jobs : state[j] = "completed" => reached[j] = "stored"

(* Until the first mishap a run that is not too old has its job, and its    *)
(* own result is what the job ends with: no recovery, whatever it judged,   *)
(* hits a job that runs.                                                    *)
RunOwnsJob ==
    calm => \A w \in Workers : pc[w] \in Running /\ ~old[at[w]] => Holds(w)

Settled(j) == state[j] \in Ended /\ \A w \in Workers : <<j, "requeue">> \notin verdict[w]

(* Until the first mishap a job that a process took as it left, or died     *)
(* with before it reported anything, does not fail: it waits again.         *)
NeverFailedUnrun ==
    calm => \A j \in Jobs : Settled(j) /\ ~old[j] => reached[j] # "nothing"

(* Every job that is added ends for good: also when its process died, left  *)
(* with it, lost its lock, or when its recovery failed.                     *)
JobsEnd ==
    \A j \in Jobs : state[j] = "waiting" ~> [](state[j] \in Ended)
=============================================================================
