--------------------------- MODULE BackfillStatus ---------------------------
(***************************************************************************)
(* The embedding backfill of one page: the columns embeddingBackfillStatus,*)
(* -StartedAt and -RetryCount of its row, and everybody who writes them.   *)
(*                                                                         *)
(*  - the page-analyze worker, which analyses the page, enqueues a job per *)
(*    category and writes the first status (workers/page-analyze-worker.ts)*)
(*  - the processes of the embedding-backfill worker.  Each one runs a job *)
(*    (workers/embedding-backfill-worker.ts) and, in the same event loop,  *)
(*    two crons: reconciliation of stale rows and recovery of failed ones  *)
(*    (services/backfill-*reconciliation.service.ts).  It exits after a job*)
(*  - the supervisor's scan when it gives up starting that worker.         *)
(*                                                                         *)
(* Jobs write the status unconditionally; crons read the row, decide, and  *)
(* write if the status is still the one they read, whatever happened to    *)
(* the other columns.  One action is one database or queue command.  A     *)
(* loop that adds jobs one by one is one action for any subset of them.    *)
(*                                                                         *)
(* A definition D_What is a mutant of D: the bug that What names.          *)
(***************************************************************************)
EXTENDS Integers, FiniteSets

CONSTANTS
    Workers,      \* processes of the embedding-backfill worker
    Categories,   \* kinds of embeddings (7 in the code)
    RetryCap,     \* SKIP_RECOVERY_RETRY_CAP = BACKFILL_RECOVERY_MAX_AUTO_RETRIES
    RetryIds,     \* bound: jobs of a category under retry ids at a time
    MaxAnalyses,  \* bound: analyses of the page
    MaxFaults,    \* bound: failing database commands and recoveries of jobs
    MaxCrashes    \* bound: processes that die

ASSUME BackfillAssumption ==
    /\ IsFiniteSet(Workers) /\ IsFiniteSet(Categories)
    /\ {"none", "waiting"} \cap Workers = {}
    /\ RetryCap \in Nat \ {0}
    /\ 0 \notin RetryIds
    /\ MaxAnalyses \in Nat \ {0} /\ MaxFaults \in Nat /\ MaxCrashes \in Nat

VARIABLES
    status,     \* embeddingBackfillStatus
    started,    \* embeddingBackfillStartedAt, as an age
    skipOld,    \* embeddingBackfillSkippedAt of a skipped row is an hour ago
    retries,    \* embeddingBackfillRetryCount
    pending,    \* categories with embeddings still to compute
    analysing,  \* analysisStatus is pending or processing
    job,        \* the queue: jobs by id
    up,         \* worker processes alive
    jobPc, jobId,  \* what a worker's processor does next, and with which job
    cronPc,     \* the same of its reconciliation cron
    recoverPc,  \* and of its recovery cron
    pagePc,     \* and of the page worker
    skipSeen,   \* the page worker holds a skip reason worth a recovery
    analyses,   \* analyses so far
    faults, crashes  \* left

row      == <<status, started, skipOld, retries>>
page     == <<pagePc, skipSeen, analysing, analyses>>
jobVars  == <<jobPc, jobId>>
vars == <<row, pending, page, job, up, jobVars, cronPc, recoverPc, faults, crashes>>

(* A job is absent, waits, or is active in a worker that holds its lock.  A  *)
(* retained ended job is absent too: an add then takes a retry id.           *)
JobIds == Categories \X ({0} \cup RetryIds)
NoJob == <<>>
Canonical(c) == <<c, 0>>
Active(i) == job[i] \in Workers
Live(i)   == job[i] = "waiting" \/ Active(i)

(* Both skipped_* statuses are written, read and left alike. *)
Statuses == {"not_required", "queued", "in_progress", "completed", "failed",
             "failed_with_known_reason", "skipped"}

(* Ages of a timestamp: below 10 minutes, below 60, above; or NULL. *)
Null == -1
Ages == {Null, 0, 1, 2}
RescueAge == 1   \* DEFAULT_QUEUED_RESCUE_THRESHOLD_MS, VISION_UNLOAD_FINAL_TIMEOUT_MS
StaleAge == 2    \* DEFAULT_STALE_THRESHOLD_MS

JobPcs == {"idle", "guard", "requeue", "readd", "terminate", "begin", "process",
           "inspect", "complete", "partial", "finish", "failing", "fail"}
CronPcs == {"idle", "probe_in_progress", "inspect", "close", "orphan",
            "probe_skipped", "expire", "retire", "claim_skipped",
            "probe_queued", "claim_queued", "give_up", "enqueue"}
RecoverPcs == {"idle", "claim", "terminate", "enqueue"}
PagePcs == {"analyse", "mark", "dispatch", "queue", "read", "pin", "claim",
            "enqueue", "done", "dead"}

TypeOK ==
    /\ status \in Statuses /\ started \in Ages /\ skipOld \in BOOLEAN
    /\ retries \in Nat
    /\ pending \in SUBSET Categories
    /\ analysing \in BOOLEAN /\ skipSeen \in BOOLEAN
    /\ job \in [JobIds -> {"none", "waiting"} \cup Workers]
    /\ up \in SUBSET Workers
    /\ jobPc \in [Workers -> JobPcs]
    /\ jobId \in [Workers -> JobIds \cup {NoJob}]
    /\ \A w \in Workers : jobId[w] = NoJob <=> jobPc[w] = "idle"
    /\ cronPc \in [Workers -> CronPcs] /\ recoverPc \in [Workers -> RecoverPcs]
    /\ pagePc \in PagePcs
    /\ analyses \in 1..MaxAnalyses
    /\ faults \in 0..MaxFaults /\ crashes \in 0..MaxCrashes

Init ==
    /\ status = "not_required" /\ started = Null /\ skipOld = FALSE /\ retries = 0
    /\ pending = {}
    /\ analysing = TRUE /\ pagePc = "analyse" /\ skipSeen = FALSE /\ analyses = 1
    /\ job = [i \in JobIds |-> "none"]
    /\ up = {}
    /\ jobPc = [w \in Workers |-> "idle"] /\ jobId = [w \in Workers |-> NoJob]
    /\ cronPc = [w \in Workers |-> "idle"] /\ recoverPc = [w \in Workers |-> "idle"]
    /\ faults = MaxFaults /\ crashes = MaxCrashes

-----------------------------------------------------------------------------
(* Writes *)

(* An update that sets status s, and startedAt if it says so. *)
Write(s, age) ==
    /\ status' = s
    /\ started' = age
    /\ skipOld' = FALSE
    /\ UNCHANGED retries

WriteStatus(s) == Write(s, started)

(* A write to queued that also counts a retry. *)
Requeue(age) ==
    /\ status' = "queued"
    /\ started' = age
    /\ skipOld' = FALSE
    /\ retries' = retries + 1

(* A write whose failure is swallowed: the writer goes on as if it was done. *)
Try(write) ==
    \/ write /\ UNCHANGED faults
    \/ faults > 0 /\ faults' = faults - 1 /\ UNCHANGED row

(* addEmbeddingBackfillJobWithGuard for each category of S: nothing where the *)
(* canonical job lives, else a job under the canonical id or a retry id.      *)
AddJobs(S) ==
    LET open == {c \in S : ~Live(Canonical(c))} IN
    \E new \in SUBSET {i \in JobIds : job[i] = "none" /\ i[1] \in open} :
        /\ {i[1] : i \in new} = open
        /\ \A i, k \in new : i[1] = k[1] => i = k
        /\ job' = [i \in JobIds |-> IF i \in new THEN "waiting" ELSE job[i]]

(* hasActiveQueueJob looks at canonical jobs, and takes active, waiting and  *)
(* delayed for alive.  A waiting job has a priority: it is reported delayed, *)
(* or prioritized, which is none of the three.                               *)
SeesJob ==
    IF \E c \in Categories : Active(Canonical(c)) THEN {TRUE}
    ELSE {FALSE} \cup {s \in {TRUE} : \E c \in Categories : Live(Canonical(c))}

JobGoto(w, p) == jobPc' = [jobPc EXCEPT ![w] = p] /\ UNCHANGED jobId
CronGoto(w, p) == cronPc' = [cronPc EXCEPT ![w] = p]
RecoverGoto(w, p) == recoverPc' = [recoverPc EXCEPT ![w] = p]

-----------------------------------------------------------------------------
(* The page-analyze worker *)

PageUnchanged == UNCHANGED <<analysing, analyses, up, jobVars, cronPc, recoverPc, crashes>>
PageGoto(p) == pagePc' = p /\ UNCHANGED skipSeen

(* The phases before the embeddings are through store and embed rows. *)
Analyse ==
    /\ pagePc = "analyse"
    /\ \E S \in SUBSET Categories : pending' = S
    /\ PageGoto("mark")
    /\ UNCHANGED <<row, job, faults>> /\ PageUnchanged

(* Phase 5 was skipped, or had nothing to embed: the status says so. *)
AnalyseAndSkip ==
    /\ pagePc = "analyse"
    /\ \E S \in SUBSET Categories : pending' = S
    /\ \E s \in {"skipped", "not_required"} :
         /\ Try(Write(s, Null))
         /\ skipSeen' = (s = "skipped")
    /\ pagePc' = "mark"
    /\ UNCHANGED job /\ PageUnchanged

(* markAnalysisCompleted, whose failure leaves the page in analysis. *)
Mark ==
    /\ pagePc = "mark"
    /\ \/ analysing' = FALSE /\ UNCHANGED faults
       \/ faults > 0 /\ faults' = faults - 1 /\ UNCHANGED analysing
    /\ PageGoto("dispatch")
    /\ UNCHANGED <<row, pending, job, analyses, up, jobVars, cronPc, recoverPc, crashes>>

AfterSync == IF skipSeen THEN "read" ELSE "done"

(* dispatchBackfillJobsForPage: the gated categories and those that could *)
(* be added.                                                              *)
Dispatch ==
    /\ pagePc = "dispatch"
    /\ \E S \in SUBSET Categories :
         AddJobs(S) /\ PageGoto(IF S = {} THEN AfterSync ELSE "queue")
    /\ UNCHANGED <<row, pending, faults>> /\ PageUnchanged

(* ... and then the status. *)
WriteQueued ==
    /\ pagePc = "queue"
    /\ Try(Write("queued", 0))
    /\ PageGoto(AfterSync)
    /\ UNCHANGED <<pending, job>> /\ PageUnchanged

(* dispatchSkipRecoveryBackfill reads the retry count; under back-pressure, *)
(* or when the read fails, it leaves the row to the cron.                   *)
ReadRetries ==
    /\ pagePc = "read"
    /\ \/ PageGoto(IF retries >= RetryCap THEN "pin" ELSE "claim")
       \/ PageGoto("done")
    /\ UNCHANGED <<row, pending, job, faults>> /\ PageUnchanged

PinFailed ==
    /\ pagePc = "pin"
    /\ IF status = "skipped" THEN Write("failed", Null) ELSE UNCHANGED row
    /\ PageGoto("done")
    /\ UNCHANGED <<pending, job, faults>> /\ PageUnchanged

ClaimSkipped ==
    /\ pagePc = "claim"
    /\ \/ /\ status \in {"skipped", "in_progress"}
          /\ Requeue(0)
          /\ PageGoto("enqueue")
       \/ /\ status \notin {"skipped", "in_progress"}
          /\ PageGoto("done")
          /\ UNCHANGED row
    /\ UNCHANGED <<pending, job, faults>> /\ PageUnchanged

EnqueueAll ==
    /\ pagePc = "enqueue"
    /\ \E S \in SUBSET Categories : AddJobs(S)
    /\ PageGoto("done")
    /\ UNCHANGED <<row, pending, faults>> /\ PageUnchanged

(* The analysis throws and is marked failed. *)
AnalysisFails ==
    /\ pagePc = "analyse"
    /\ \E S \in SUBSET Categories : pending' = S
    /\ analysing' = FALSE
    /\ PageGoto("done")
    /\ UNCHANGED <<row, job, analyses, up, jobVars, cronPc, recoverPc, faults, crashes>>

PageStep ==
    \/ Analyse \/ AnalyseAndSkip \/ AnalysisFails \/ Mark \/ Dispatch
    \/ WriteQueued \/ ReadRetries \/ PinFailed \/ ClaimSkipped \/ EnqueueAll

(* The page worker dies; its job is closed by those who find it. *)
PageWorkerDies ==
    /\ pagePc \notin {"done", "dead"}
    /\ crashes > 0
    /\ crashes' = crashes - 1
    /\ PageGoto("dead")
    /\ UNCHANGED <<row, pending, analysing, analyses, job, up, jobVars, cronPc, recoverPc, faults>>

CloseAnalysis ==
    /\ pagePc = "dead"
    /\ analysing' = FALSE
    /\ PageGoto("done")
    /\ UNCHANGED <<row, pending, analyses, job, up, jobVars, cronPc, recoverPc, faults, crashes>>

(* The page is analysed anew: its row is found by its URL. *)
AnalyseAgain ==
    /\ pagePc \in {"done", "dead"}
    /\ analyses < MaxAnalyses
    /\ analyses' = analyses + 1
    /\ analysing' = TRUE
    /\ pagePc' = "analyse" /\ skipSeen' = FALSE
    /\ UNCHANGED <<row, pending, job, up, jobVars, cronPc, recoverPc, faults, crashes>>

-----------------------------------------------------------------------------
(* A job in an embedding-backfill worker *)

JobUnchanged == UNCHANGED <<page, cronPc, recoverPc, crashes>>

TakeJob(w, i) ==
    /\ w \in up /\ jobPc[w] = "idle"
    /\ job[i] = "waiting"
    /\ job' = [job EXCEPT ![i] = w]
    /\ jobPc' = [jobPc EXCEPT ![w] = "guard"]
    /\ jobId' = [jobId EXCEPT ![w] = i]
    /\ UNCHANGED <<row, pending, up, faults>> /\ JobUnchanged

(* evaluateAnalysisGuard: a page still in analysis is put off, or given up   *)
(* at the cap; if the row cannot be read the job proceeds.                   *)
Guard(w) ==
    /\ jobPc[w] = "guard"
    /\ \/ /\ ~analysing
          /\ JobGoto(w, "begin") /\ UNCHANGED faults
       \/ /\ analysing
          /\ JobGoto(w, IF retries >= RetryCap THEN "terminate" ELSE "requeue")
          /\ UNCHANGED faults
       \/ faults > 0 /\ faults' = faults - 1 /\ JobGoto(w, "begin")
    /\ UNCHANGED <<row, pending, job, up>> /\ JobUnchanged

(* Only the guard's read is caught: the exception of a later call of the *)
(* guard ends the job.                                                   *)
GuardThrows(w) ==
    /\ jobPc[w] \in {"requeue", "readd", "terminate"}
    /\ faults > 0 /\ faults' = faults - 1
    /\ JobGoto(w, "failing")
    /\ UNCHANGED <<row, pending, job, up>> /\ JobUnchanged

(* transitionAnalysisGuardReEnqueue: the write, and if it hit the row ... *)
GuardRequeue(w) ==
    /\ jobPc[w] = "requeue"
    /\ \/ /\ status \in {"in_progress", "queued"}
          /\ Requeue(started)
          /\ JobGoto(w, "readd")
       \/ /\ status \notin {"in_progress", "queued"}
          /\ UNCHANGED row
          /\ JobGoto(w, "finish")
    /\ UNCHANGED <<pending, job, up, faults>> /\ JobUnchanged

(* ... an add of the category, whose canonical id may be this very job's. *)
GuardReadd(w) ==
    /\ jobPc[w] = "readd"
    /\ AddJobs({jobId[w][1]})
    /\ JobGoto(w, "finish")
    /\ UNCHANGED <<row, pending, up, faults>> /\ JobUnchanged

(* transitionAnalysisGuardTerminalFailed. *)
GuardTerminate(w) ==
    /\ jobPc[w] = "terminate"
    /\ IF status \in {"in_progress", "queued"} THEN WriteStatus("failed") ELSE UNCHANGED row
    /\ JobGoto(w, "finish")
    /\ UNCHANGED <<pending, job, up, faults>> /\ JobUnchanged

BeginJob(w) ==
    /\ jobPc[w] = "begin"
    /\ Try(WriteStatus("in_progress"))
    /\ JobGoto(w, "process")
    /\ UNCHANGED <<pending, job, up>> /\ JobUnchanged

(* The processor embeds the category, or leaves some of it, or throws. *)
Process(w) ==
    /\ jobPc[w] = "process"
    /\ \/ pending' = pending \ {jobId[w][1]} /\ JobGoto(w, "inspect")
       \/ UNCHANGED pending /\ JobGoto(w, "inspect")
       \/ UNCHANGED pending /\ JobGoto(w, "failing")
    /\ UNCHANGED <<row, job, up, faults>> /\ JobUnchanged

Inspect_OwnCategoryOnly(w) ==
    /\ jobPc[w] = "inspect"
    /\ JobGoto(w, IF jobId[w][1] \notin pending THEN "complete" ELSE "partial")
    /\ UNCHANGED <<row, pending, job, up, faults>> /\ JobUnchanged

(* computeRemainingStatus over all categories; the parity gate looks at the *)
(* same numbers again.                                                      *)
Inspect(w) ==
    /\ jobPc[w] = "inspect"
    /\ JobGoto(w, IF pending = {} THEN "complete" ELSE "partial")
    /\ UNCHANGED <<row, pending, job, up, faults>> /\ JobUnchanged

(* The final status. *)
Conclude(w) ==
    /\ jobPc[w] \in {"complete", "partial"}
    /\ Try(WriteStatus(IF jobPc[w] = "complete" THEN "completed" ELSE "in_progress"))
    /\ JobGoto(w, "finish")
    /\ UNCHANGED <<pending, job, up>> /\ JobUnchanged

(* finalizeBackfillJob after an exception.  attemptsMade reaches attempts = 1 *)
(* in the first attempt if BullMQ counts it when it starts, else in a second. *)
Fail(w) ==
    /\ jobPc[w] = "failing"
    /\ Try(WriteStatus("failed_with_known_reason")) \/ UNCHANGED <<row, faults>>
    /\ JobGoto(w, "fail")
    /\ UNCHANGED <<pending, job, up>> /\ JobUnchanged

EndJob_KeepsId(w) ==
    /\ job' = IF job[jobId[w]] = w THEN [job EXCEPT ![jobId[w]] = "none"] ELSE job
    /\ jobPc' = [jobPc EXCEPT ![w] = "idle"]
    /\ UNCHANGED jobId

EndJob(w) ==
    /\ job' = IF job[jobId[w]] = w THEN [job EXCEPT ![jobId[w]] = "none"] ELSE job
    /\ jobPc' = [jobPc EXCEPT ![w] = "idle"]
    /\ jobId' = [jobId EXCEPT ![w] = NoJob]

(* What a process loses when it ends. *)
Ends(w) ==
    /\ up' = up \ {w}
    /\ CronGoto(w, "idle") /\ RecoverGoto(w, "idle")

(* BullMQ completes the job and the completed listener exits the process,  *)
(* unless the job's lock is not the worker's any more.                     *)
CompleteJob(w) ==
    /\ jobPc[w] = "finish"
    /\ IF job[jobId[w]] = w THEN Ends(w) ELSE UNCHANGED <<up, cronPc, recoverPc>>
    /\ EndJob(w)
    /\ UNCHANGED <<row, pending, page, faults, crashes>>

FailJob(w) ==
    /\ jobPc[w] = "fail"
    /\ EndJob(w)
    /\ UNCHANGED <<row, pending, up, faults>> /\ JobUnchanged

JobStep(w) ==
    \/ Guard(w) \/ GuardRequeue(w) \/ GuardReadd(w) \/ GuardTerminate(w) \/ GuardThrows(w)
    \/ BeginJob(w) \/ Process(w) \/ Inspect(w) \/ Conclude(w) \/ Fail(w) \/ CompleteJob(w) \/ FailJob(w)

-----------------------------------------------------------------------------
(* Reconciliation *)

CronUnchanged == UNCHANGED <<pending, page, up, jobVars, recoverPc, faults, crashes>>

Fetch_NoRescue(w) ==
    /\ w \in up /\ cronPc[w] = "idle"
    /\ \/ status = "in_progress" /\ started >= StaleAge /\ CronGoto(w, "probe_in_progress")
       \/ /\ status = "skipped" /\ skipOld
          /\ \/ CronGoto(w, "expire")
             \/ retries >= RetryCap /\ CronGoto(w, "retire")
             \/ retries < RetryCap /\ CronGoto(w, "probe_skipped")
    /\ UNCHANGED <<row, job>> /\ CronUnchanged

(* One tick finds the row under the status it has, if that is old enough.   *)
(* A skipped row over the cap may carry truncated screenshots, and a skipped *)
(* row of any count may be 7 days old.                                       *)
Fetch(w) ==
    /\ w \in up /\ cronPc[w] = "idle"
    /\ \/ status = "in_progress" /\ started >= StaleAge /\ CronGoto(w, "probe_in_progress")
       \/ /\ status = "skipped" /\ skipOld
          /\ \/ CronGoto(w, "expire")
             \/ retries >= RetryCap /\ CronGoto(w, "retire")
             \/ retries < RetryCap /\ CronGoto(w, "probe_skipped")
       \/ /\ status = "queued" /\ started >= RescueAge
          /\ CronGoto(w, IF retries >= RetryCap THEN "give_up" ELSE "probe_queued")
    /\ UNCHANGED <<row, job>> /\ CronUnchanged

AfterProbe == [probe_in_progress |-> "inspect",
               probe_skipped     |-> "claim_skipped",
               probe_queued      |-> "claim_queued"]

(* hasActiveQueueJob finds a job, or the queue has too many waiting. *)
LeaveRow(w) ==
    /\ cronPc[w] \in DOMAIN AfterProbe
    /\ TRUE \in SeesJob \/ cronPc[w] # "probe_in_progress"
    /\ CronGoto(w, "idle")
    /\ UNCHANGED <<row, job>> /\ CronUnchanged

Probe(w) ==
    /\ cronPc[w] \in DOMAIN AfterProbe
    /\ FALSE \in SeesJob
    /\ CronGoto(w, AfterProbe[cronPc[w]])
    /\ UNCHANGED <<row, job>> /\ CronUnchanged

(* computeRemainingStatusWithPrisma. *)
CronInspect(w) ==
    /\ cronPc[w] = "inspect"
    /\ CronGoto(w, IF pending = {} THEN "close" ELSE "orphan")
    /\ UNCHANGED <<row, job>> /\ CronUnchanged

(* A write that the row's status must allow, and what follows if it does. *)
WriteIf_NoStatusCheck(w, was, write, next) ==
    /\ write /\ CronGoto(w, next)
    /\ UNCHANGED job /\ CronUnchanged

WriteIf(w, was, write, next) ==
    /\ \/ status \in was /\ write /\ CronGoto(w, next)
       \/ status \notin was /\ UNCHANGED row /\ CronGoto(w, "idle")
    /\ UNCHANGED job /\ CronUnchanged

(* Stale in progress: everything was done, or the job is lost. *)
CloseOrOrphan(w) ==
    \/ /\ cronPc[w] = "close"
       /\ WriteIf(w, {"in_progress"}, WriteStatus("completed"), "idle")
    \/ /\ cronPc[w] = "orphan"
       /\ WriteIf(w, {"in_progress"}, WriteStatus("failed_with_known_reason"), "idle")

(* Skipped too long or too often. *)
ExpireOrRetire(w) ==
    \/ /\ cronPc[w] = "retire"
       /\ WriteIf(w, {"skipped"}, Write("not_required", Null), "idle")
    \/ /\ cronPc[w] \in {"expire", "retire"}
       /\ WriteIf(w, {"skipped"}, Write("failed", Null), "idle")

RecoverSkipped(w) ==
    /\ cronPc[w] = "claim_skipped"
    /\ WriteIf(w, {"skipped"}, Requeue(0), "enqueue")

(* rescueQueuedRow and giveUpQueuedRow. *)
RescueQueued(w) ==
    /\ cronPc[w] = "claim_queued"
    /\ WriteIf(w, {"queued"}, Requeue(0), "enqueue")

GiveUpQueued(w) ==
    /\ cronPc[w] = "give_up"
    /\ WriteIf(w, {"queued"}, WriteStatus("failed_with_known_reason"), "idle")

(* enqueueAllCategoriesForSkipRecovery. *)
CronEnqueue(w) ==
    /\ cronPc[w] = "enqueue"
    /\ \E S \in SUBSET Categories : AddJobs(S)
    /\ CronGoto(w, "idle")
    /\ UNCHANGED row /\ CronUnchanged

ReconcileStep(w) ==
    \/ Fetch(w) \/ LeaveRow(w) \/ Probe(w) \/ CronInspect(w) \/ CloseOrOrphan(w)
    \/ ExpireOrRetire(w) \/ RecoverSkipped(w) \/ RescueQueued(w) \/ GiveUpQueued(w) \/ CronEnqueue(w)

-----------------------------------------------------------------------------
(* Recovery of rows that failed with a known reason *)

RecoverUnchanged == UNCHANGED <<pending, page, up, jobVars, cronPc, faults, crashes>>

RecoverFetch_IgnoresCap(w) ==
    /\ w \in up /\ recoverPc[w] = "idle"
    /\ status = "failed_with_known_reason"
    /\ RecoverGoto(w, "claim")
    /\ UNCHANGED <<row, job>> /\ RecoverUnchanged

(* runRecoveryCycle: every reason that is written may be recovered from. *)
RecoverFetch(w) ==
    /\ w \in up /\ recoverPc[w] = "idle"
    /\ status = "failed_with_known_reason"
    /\ RecoverGoto(w, IF retries >= RetryCap THEN "terminate" ELSE "claim")
    /\ UNCHANGED <<row, job>> /\ RecoverUnchanged

(* transitionToReEnqueued and transitionToTerminalFailed. *)
RecoverClaim(w) ==
    /\ recoverPc[w] = "claim"
    /\ \/ status = "failed_with_known_reason" /\ Requeue(0) /\ RecoverGoto(w, "enqueue")
       \/ status # "failed_with_known_reason" /\ UNCHANGED row /\ RecoverGoto(w, "idle")
    /\ UNCHANGED job /\ RecoverUnchanged

RecoverTerminate(w) ==
    /\ recoverPc[w] = "terminate"
    /\ IF status = "failed_with_known_reason" THEN WriteStatus("failed") ELSE UNCHANGED row
    /\ RecoverGoto(w, "idle")
    /\ UNCHANGED job /\ RecoverUnchanged

RecoverEnqueue(w) ==
    /\ recoverPc[w] = "enqueue"
    /\ \E S \in SUBSET Categories : AddJobs(S)
    /\ RecoverGoto(w, "idle")
    /\ UNCHANGED row /\ RecoverUnchanged

RecoverStep(w) ==
    RecoverFetch(w) \/ RecoverClaim(w) \/ RecoverTerminate(w) \/ RecoverEnqueue(w)

-----------------------------------------------------------------------------
(* Processes, the queue and time *)

(* recoverOrphanedEmbeddingBackfillJobs: every active job is failed past its *)
(* lock and retried, before the worker runs; what fails is passed over, and  *)
(* leaves jobs active, or failed.                                            *)
StartWorker(w) ==
    /\ w \notin up
    /\ up' = up \cup {w}
    /\ \E left \in SUBSET {i \in JobIds : Active(i)} :
       \E lost \in SUBSET {i \in JobIds : Active(i) /\ i \notin left} :
         /\ job' = [i \in JobIds |-> IF i \in lost THEN "none"
                                    ELSE IF Active(i) /\ i \notin left THEN "waiting" ELSE job[i]]
         /\ \/ left \cup lost = {} /\ UNCHANGED faults
            \/ left \cup lost # {} /\ faults > 0 /\ faults' = faults - 1
    /\ UNCHANGED <<row, pending, page, jobVars, cronPc, recoverPc, crashes>>

CrashWorker(w) ==
    /\ w \in up
    /\ crashes > 0
    /\ crashes' = crashes - 1
    /\ Ends(w)
    /\ jobPc' = [jobPc EXCEPT ![w] = "idle"]
    /\ jobId' = [jobId EXCEPT ![w] = NoJob]
    /\ UNCHANGED <<row, pending, page, job, faults>>

(* The job of a dead worker stalls: it waits again, or fails in the queue.  *)
Stall(i) ==
    /\ Active(i) /\ jobId[job[i]] # i
    /\ up # {}
    /\ \E s \in {"waiting", "none"} : job' = [job EXCEPT ![i] = s]
    /\ UNCHANGED <<row, pending, page, up, jobVars, cronPc, recoverPc, faults, crashes>>

(* handleSecondarySpawnTimeout: the worker could not be started for long.   *)
(* It was absent before the last probe and may be there by now, since the   *)
(* tick does not look again (SecondarySpawn).                               *)
GiveUpSpawn ==
    /\ started >= RescueAge
    /\ \/ status = "queued" /\ WriteStatus("failed_with_known_reason")
       \/ status = "in_progress" /\ WriteStatus("failed")
    /\ UNCHANGED <<pending, page, job, up, jobVars, cronPc, recoverPc, faults, crashes>>

Age ==
    /\ \/ /\ started \in {0, 1}
          /\ started' = started + 1
          /\ UNCHANGED skipOld
       \/ /\ status = "skipped" /\ ~skipOld
          /\ skipOld' = TRUE
          /\ UNCHANGED started
    /\ UNCHANGED <<status, retries, pending, page, job, up, jobVars, cronPc, recoverPc,
                   faults, crashes>>

WorkerStep(w) ==
    \/ \E i \in JobIds : TakeJob(w, i)
    \/ JobStep(w) \/ ReconcileStep(w) \/ RecoverStep(w)
    \/ StartWorker(w) \/ CrashWorker(w)

Environment ==
    PageWorkerDies \/ CloseAnalysis \/ AnalyseAgain \/ GiveUpSpawn \/ Age
    \/ \E i \in JobIds : Stall(i)

Next == PageStep \/ Environment \/ \E w \in Workers : WorkerStep(w)

Spec == Init /\ [][Next]_vars

(* Workers are started again, take jobs and go on with them; crons and the  *)
(* stall check tick; time passes; the queue is not always full.  Deaths,    *)
(* faults and further analyses need not happen.                             *)
FairSpec ==
    /\ Spec
    /\ WF_vars(PageStep) /\ WF_vars(CloseAnalysis) /\ WF_vars(Age)
    /\ WF_vars(\E i \in JobIds : Stall(i))
    /\ \A w \in Workers :
         /\ WF_vars(StartWorker(w))
         /\ WF_vars(\E i \in JobIds : TakeJob(w, i)) /\ WF_vars(JobStep(w))
         /\ WF_vars(ReconcileStep(w)) /\ SF_vars(Probe(w)) /\ WF_vars(RecoverStep(w))

-----------------------------------------------------------------------------
(* Properties *)

(* While the page is analysed once, completed is never written, by a job or *)
(* by reconciliation, over embeddings still to compute: although jobs of    *)
(* other categories run before, between and after, each of them seeing the  *)
(* row of its own moment.                                                   *)
CompletedMeansDone ==
    status = "completed" /\ analyses = 1 => pending = {}

(* The retry budget is shared by all jobs, both crons and the page worker,  *)
(* which read it, and count up later without looking again.  It is overrun  *)
(* by at most one for each of them but one.                                 *)
RetriesBounded == retries <= RetryCap - 1 + 3 * Cardinality(Workers) + 1

(* What a cron decided from an old read changes nothing once the row has    *)
(* been completed or failed by another: only a job or the page worker may   *)
(* open a closed row again.                                                 *)
CronsKeepClosed ==
    [][(status \in {"completed", "failed"} /\ status' # status)
          => (jobPc' # jobPc \/ pagePc' # pagePc)]_vars

Closed == {"completed", "failed", "not_required"}

(* A row that lost its startedAt: no scan looks at it. *)
Trapped == status \in {"queued", "in_progress"} /\ started = Null

(* Whatever jobs get lost, and wherever processes die between a status and  *)
(* the jobs it announces, the row comes to rest: closed, or trapped.        *)
Settles == <>[](status \in Closed \/ Trapped)
=============================================================================
