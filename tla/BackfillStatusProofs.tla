------------------------ MODULE BackfillStatusProofs ------------------------
(***************************************************************************)
(* What holds of the backfill of a page for any set of workers and         *)
(* categories, and any number of faults, deaths and retry ids.             *)
(***************************************************************************)
EXTENDS BackfillStatus, FiniteSetTheorems, TLAPS

(* The typed parts of the state, in the groups that actions write. *)
RowTyped ==
    /\ status \in Statuses /\ started \in Ages /\ skipOld \in BOOLEAN
    /\ retries \in Nat
JobsTyped == job \in [JobIds -> {"none", "waiting"} \cup Workers]
WorkTyped ==
    /\ jobPc \in [Workers -> JobPcs]
    /\ jobId \in [Workers -> JobIds \cup {NoJob}]
    /\ \A w \in Workers : jobId[w] = NoJob <=> jobPc[w] = "idle"

(* Until its first analysis stores embeddings nobody works on the page. *)
Untouched ==
    /\ status = "not_required"
    /\ \A i \in JobIds : job[i] = "none"
    /\ \A w \in Workers : jobPc[w] = "idle" /\ cronPc[w] = "idle" /\ recoverPc[w] = "idle"

(* Who found everything done is still right when it writes. *)
JudgedDone ==
    \A w \in Workers : jobPc[w] = "complete" \/ cronPc[w] = "close" => pending = {}

DoneOnce ==
    analyses = 1 =>
        /\ pagePc = "analyse" => Untouched
        /\ JudgedDone
        /\ status = "completed" => pending = {}

-----------------------------------------------------------------------------
(* What writes and adds can change. *)

LEMMA NoJobIsNone == NoJob \notin JobIds
  BY DEF NoJob, JobIds

LEMMA WriteTyped ==
  ASSUME TypeOK, NEW s \in Statuses, NEW age \in Ages, Write(s, age)
  PROVE  RowTyped' /\ retries' = retries /\ status' = s
  BY DEF TypeOK, RowTyped, Write

LEMMA RequeueTyped ==
  ASSUME TypeOK, NEW age \in Ages, Requeue(age)
  PROVE  RowTyped' /\ retries' = retries + 1 /\ status' = "queued"
  <1>1. retries' = retries + 1 /\ retries' \in Nat
    BY DEF TypeOK, Requeue
  <1>2. status' = "queued" /\ started' = age /\ skipOld' \in BOOLEAN
    BY Zenon DEF Requeue
  <1> QED  BY <1>1, <1>2 DEF RowTyped, Statuses

LEMMA TryTyped ==
  ASSUME TypeOK, NEW s \in Statuses, NEW age \in Ages, Try(Write(s, age))
  PROVE  /\ RowTyped' /\ retries' = retries
         /\ faults' \in 0..MaxFaults
         /\ status' = s \/ status' = status
  <1>1. CASE Write(s, age) /\ UNCHANGED faults
    BY <1>1, WriteTyped DEF TypeOK
  <1>2. CASE faults > 0 /\ faults' = faults - 1 /\ UNCHANGED row
    <2>1. faults' \in 0..MaxFaults
      BY <1>2, BackfillAssumption DEF TypeOK
    <2> QED  BY <1>2, <2>1 DEF TypeOK, RowTyped, row
  <1> QED  BY <1>1, <1>2 DEF Try

LEMMA AddTyped ==
  ASSUME TypeOK, NEW S, AddJobs(S)
  PROVE  JobsTyped'
  BY DEF TypeOK, JobsTyped, AddJobs

LEMMA GotoTyped ==
  ASSUME TypeOK, NEW w \in Workers, jobPc[w] # "idle",
         NEW p \in JobPcs \ {"idle"}, JobGoto(w, p)
  PROVE  WorkTyped'
  BY DEF TypeOK, WorkTyped, JobGoto

LEMMA EndTyped ==
  ASSUME TypeOK, NEW w \in Workers, EndJob(w)
  PROVE  JobsTyped' /\ WorkTyped'
  <1>1. JobsTyped'
    BY DEF TypeOK, JobsTyped, EndJob
  <1>2. WorkTyped'
    BY DEF TypeOK, WorkTyped, EndJob, JobPcs
  <1> QED  BY <1>1, <1>2

LEMMA CronTyped ==
  ASSUME TypeOK, NEW w \in Workers, NEW p \in CronPcs, CronGoto(w, p)
  PROVE  cronPc' \in [Workers -> CronPcs]
  BY DEF TypeOK, CronGoto

LEMMA RecoverTyped ==
  ASSUME TypeOK, NEW w \in Workers, NEW p \in RecoverPcs, RecoverGoto(w, p)
  PROVE  recoverPc' \in [Workers -> RecoverPcs]
  BY DEF TypeOK, RecoverGoto

-----------------------------------------------------------------------------
(* Types *)

LEMMA PageTyped ==
  ASSUME TypeOK, PageStep
  PROVE  TypeOK'
  <1>1. CASE Analyse
    BY <1>1 DEF Analyse, TypeOK, row, PageGoto, PageUnchanged, jobVars, PagePcs
  <1>2. CASE AnalyseAndSkip
    <2>1. PICK s \in {"skipped", "not_required"} :
            Try(Write(s, Null)) /\ skipSeen' = (s = "skipped")
      BY <1>2 DEF AnalyseAndSkip
    <2>2. RowTyped' /\ faults' \in 0..MaxFaults
      BY <2>1, TryTyped DEF Statuses, Ages
    <2>3. skipSeen' \in BOOLEAN
      BY <2>1, Zenon
    <2> QED  BY <1>2, <2>2, <2>3 DEF AnalyseAndSkip, TypeOK, RowTyped, PageUnchanged, jobVars, PagePcs
  <1>3. CASE AnalysisFails
    BY <1>3 DEF AnalysisFails, TypeOK, row, PageGoto, jobVars, PagePcs
  <1>4. CASE Mark
    <2>1. faults' \in 0..MaxFaults
      BY <1>4, BackfillAssumption DEF Mark, TypeOK
    <2>2. analysing' \in BOOLEAN
      BY <1>4, Zenon DEF Mark, TypeOK
    <2> QED  BY <1>4, <2>1, <2>2 DEF Mark, TypeOK, row, PageGoto, jobVars, PagePcs
  <1>5. CASE Dispatch
    <2>1. JobsTyped'
      BY <1>5, AddTyped DEF Dispatch
    <2>2. pagePc' \in PagePcs
      BY <1>5 DEF Dispatch, PageGoto, AfterSync, PagePcs
    <2> QED  BY <1>5, <2>1, <2>2 DEF Dispatch, TypeOK, JobsTyped, row, PageGoto, PageUnchanged, jobVars
  <1>6. CASE WriteQueued
    <2>1. RowTyped' /\ faults' \in 0..MaxFaults
      BY <1>6, TryTyped DEF WriteQueued, Statuses, Ages
    <2>2. pagePc' \in PagePcs
      BY <1>6 DEF WriteQueued, PageGoto, AfterSync, PagePcs
    <2> QED  BY <1>6, <2>1, <2>2 DEF WriteQueued, TypeOK, RowTyped, PageGoto, PageUnchanged, jobVars
  <1>7. CASE ReadRetries
    BY <1>7 DEF ReadRetries, TypeOK, row, PageGoto, PageUnchanged, jobVars, PagePcs
  <1>8. CASE PinFailed
    <2>1. RowTyped'
      BY <1>8, WriteTyped DEF PinFailed, TypeOK, RowTyped, row, Statuses, Ages
    <2> QED  BY <1>8, <2>1 DEF PinFailed, TypeOK, RowTyped, PageGoto, PageUnchanged, jobVars, PagePcs
  <1>9. CASE ClaimSkipped
    <2>1. RowTyped'
      BY <1>9, RequeueTyped DEF ClaimSkipped, TypeOK, RowTyped, row, Ages
    <2> QED  BY <1>9, <2>1 DEF ClaimSkipped, TypeOK, RowTyped, PageGoto, PageUnchanged, jobVars, PagePcs
  <1>10. CASE EnqueueAll
    <2>1. JobsTyped'
      BY <1>10, AddTyped DEF EnqueueAll
    <2> QED  BY <1>10, <2>1 DEF EnqueueAll, TypeOK, JobsTyped, row, PageGoto, PageUnchanged, jobVars, PagePcs
  <1> QED  BY <1>1, <1>2, <1>3, <1>4, <1>5, <1>6, <1>7, <1>8, <1>9, <1>10 DEF PageStep
LEMMA JobTyped ==
  ASSUME TypeOK, NEW w \in Workers, JobStep(w)
  PROVE  TypeOK'
  <1>1. CASE Guard(w)
    <2>1. PICK p \in {"begin", "terminate", "requeue"} : JobGoto(w, p)
      BY <1>1, Zenon DEF Guard
    <2>2. WorkTyped'
      BY <1>1, <2>1, GotoTyped DEF Guard, JobPcs
    <2>3. faults' \in 0..MaxFaults
      BY <1>1, BackfillAssumption DEF Guard, TypeOK
    <2> QED  BY <1>1, <2>2, <2>3 DEF Guard, TypeOK, WorkTyped, row, page, JobUnchanged
  <1>2. CASE GuardRequeue(w)
    <2>1. PICK p \in {"readd", "finish"} : JobGoto(w, p)
      BY <1>2, Zenon DEF GuardRequeue
    <2>2. WorkTyped'
      BY <1>2, <2>1, GotoTyped DEF GuardRequeue, JobPcs
    <2>3. RowTyped'
      BY <1>2, RequeueTyped DEF GuardRequeue, TypeOK, RowTyped, row
    <2> QED  BY <1>2, <2>2, <2>3 DEF GuardRequeue, TypeOK, RowTyped, WorkTyped, page, JobUnchanged
  <1>3. CASE GuardReadd(w)
    <2>1. WorkTyped' /\ JobsTyped'
      BY <1>3, GotoTyped, AddTyped DEF GuardReadd, JobPcs
    <2> QED  BY <1>3, <2>1 DEF GuardReadd, TypeOK, JobsTyped, WorkTyped, row, page, JobUnchanged
  <1>4. CASE GuardTerminate(w)
    <2>1. WorkTyped'
      BY <1>4, GotoTyped DEF GuardTerminate, JobPcs
    <2>2. RowTyped'
      BY <1>4, WriteTyped DEF GuardTerminate, WriteStatus, TypeOK, RowTyped, row, Statuses
    <2> QED  BY <1>4, <2>1, <2>2 DEF GuardTerminate, TypeOK, RowTyped, WorkTyped, page, JobUnchanged
  <1>5. CASE BeginJob(w)
    <2>1. WorkTyped'
      BY <1>5, GotoTyped DEF BeginJob, JobPcs
    <2>2. RowTyped' /\ faults' \in 0..MaxFaults
      BY <1>5, TryTyped DEF BeginJob, WriteStatus, TypeOK, Statuses
    <2> QED  BY <1>5, <2>1, <2>2 DEF BeginJob, TypeOK, RowTyped, WorkTyped, page, JobUnchanged
  <1>6. CASE Process(w)
    <2>1. PICK p \in {"inspect", "failing"} : JobGoto(w, p)
      BY <1>6, Zenon DEF Process
    <2>2. WorkTyped'
      BY <1>6, <2>1, GotoTyped DEF Process, JobPcs
    <2>3. pending' \in SUBSET Categories
      BY <1>6 DEF Process, TypeOK
    <2> QED  BY <1>6, <2>2, <2>3 DEF Process, TypeOK, WorkTyped, row, page, JobUnchanged
  <1>7. CASE Inspect(w)
    <2>1. WorkTyped'
      BY <1>7, GotoTyped DEF Inspect, JobPcs
    <2> QED  BY <1>7, <2>1 DEF Inspect, TypeOK, WorkTyped, row, page, JobUnchanged
  <1>8. CASE Conclude(w)
    <2>1. WorkTyped'
      BY <1>8, GotoTyped DEF Conclude, JobPcs
    <2>2. RowTyped' /\ faults' \in 0..MaxFaults
      BY <1>8, TryTyped DEF Conclude, WriteStatus, TypeOK, Statuses
    <2> QED  BY <1>8, <2>1, <2>2 DEF Conclude, TypeOK, RowTyped, WorkTyped, page, JobUnchanged
  <1>9. CASE Fail(w)
    <2>1. WorkTyped'
      BY <1>9, GotoTyped DEF Fail, JobPcs
    <2>2. RowTyped' /\ faults' \in 0..MaxFaults
      <3>1. CASE UNCHANGED <<row, faults>>
        BY <3>1 DEF TypeOK, RowTyped, row
      <3>2. CASE Try(WriteStatus("failed_with_known_reason"))
        BY <3>2, TryTyped DEF WriteStatus, TypeOK, Statuses
      <3> QED  BY <1>9, <3>1, <3>2 DEF Fail
    <2> QED  BY <1>9, <2>1, <2>2 DEF Fail, TypeOK, RowTyped, WorkTyped, page, JobUnchanged
  <1>10. CASE CompleteJob(w)
    <2>1. JobsTyped' /\ WorkTyped'
      BY <1>10, EndTyped DEF CompleteJob
    <2>2. /\ up' \in SUBSET Workers /\ cronPc' \in [Workers -> CronPcs]
          /\ recoverPc' \in [Workers -> RecoverPcs]
      BY <1>10, CronTyped, RecoverTyped DEF CompleteJob, Ends, TypeOK, CronPcs, RecoverPcs
    <2> QED  BY <1>10, <2>1, <2>2 DEF CompleteJob, TypeOK, JobsTyped, WorkTyped, row, page
  <1>11. CASE FailJob(w)
    <2>1. JobsTyped' /\ WorkTyped'
      BY <1>11, EndTyped DEF FailJob
    <2> QED  BY <1>11, <2>1 DEF FailJob, TypeOK, JobsTyped, WorkTyped, row, page, JobUnchanged
  <1>12. CASE GuardThrows(w)
    <2>1. WorkTyped'
      BY <1>12, GotoTyped DEF GuardThrows, JobPcs
    <2>2. faults' \in 0..MaxFaults
      BY <1>12, BackfillAssumption DEF GuardThrows, TypeOK
    <2> QED  BY <1>12, <2>1, <2>2 DEF GuardThrows, TypeOK, WorkTyped, row, page, JobUnchanged
  <1> QED
    BY <1>1, <1>2, <1>3, <1>4, <1>5, <1>6, <1>7, <1>8, <1>9, <1>10, <1>11, <1>12 DEF JobStep

LEMMA WriteIfTyped ==
  ASSUME TypeOK, NEW w \in Workers, NEW s \in Statuses, NEW age \in Ages,
         NEW was, NEW next \in CronPcs,
         \/ WriteIf(w, was, Write(s, age), next)
         \/ WriteIf(w, was, Requeue(age), next)
  PROVE  TypeOK'
  <1>1. RowTyped'
    BY WriteTyped, RequeueTyped DEF WriteIf, TypeOK, RowTyped, row
  <1>2. cronPc' \in [Workers -> CronPcs]
    BY CronTyped DEF WriteIf, CronPcs
  <1> QED  BY <1>1, <1>2 DEF WriteIf, TypeOK, RowTyped, page, jobVars, CronUnchanged

LEMMA ReconcileTyped ==
  ASSUME TypeOK, NEW w \in Workers, ReconcileStep(w)
  PROVE  TypeOK'
  <1> USE DEF CronPcs, Statuses, Ages
  <1>1. CASE Fetch(w) \/ LeaveRow(w) \/ Probe(w) \/ CronInspect(w)
    <2>1. PICK p \in CronPcs : CronGoto(w, p)
      <3>1. CASE Fetch(w)
        BY <3>1, Zenon DEF Fetch
      <3>2. CASE LeaveRow(w)
        BY <3>2, Zenon DEF LeaveRow
      <3>3. CASE Probe(w)
        BY <3>3 DEF Probe, AfterProbe
      <3>4. CASE CronInspect(w)
        BY <3>4, Zenon DEF CronInspect
      <3> QED  BY <1>1, <3>1, <3>2, <3>3, <3>4
    <2>2. UNCHANGED <<row, job>> /\ CronUnchanged
      BY <1>1 DEF Fetch, LeaveRow, Probe, CronInspect
    <2> QED  BY <2>1, <2>2, CronTyped DEF TypeOK, row, page, jobVars, CronUnchanged
  <1>2. CASE CloseOrOrphan(w)
    BY <1>2, WriteIfTyped DEF CloseOrOrphan, WriteStatus, TypeOK
  <1>3. CASE ExpireOrRetire(w)
    BY <1>3, WriteIfTyped DEF ExpireOrRetire, WriteStatus, TypeOK
  <1>4. CASE RecoverSkipped(w)
    BY <1>4, WriteIfTyped DEF RecoverSkipped
  <1>5. CASE RescueQueued(w)
    BY <1>5, WriteIfTyped DEF RescueQueued
  <1>6. CASE GiveUpQueued(w)
    BY <1>6, WriteIfTyped DEF GiveUpQueued, WriteStatus, TypeOK
  <1>7. CASE CronEnqueue(w)
    <2>1. JobsTyped' /\ cronPc' \in [Workers -> CronPcs]
      BY <1>7, AddTyped, CronTyped DEF CronEnqueue
    <2> QED  BY <1>7, <2>1 DEF CronEnqueue, TypeOK, JobsTyped, row, page, jobVars, CronUnchanged
  <1> QED  BY <1>1, <1>2, <1>3, <1>4, <1>5, <1>6, <1>7 DEF ReconcileStep

LEMMA RecoverStepTyped ==
  ASSUME TypeOK, NEW w \in Workers, RecoverStep(w)
  PROVE  TypeOK'
  <1> USE DEF RecoverPcs, Statuses, Ages
  <1>1. recoverPc' \in [Workers -> RecoverPcs]
    <2>1. PICK p \in RecoverPcs : RecoverGoto(w, p)
      BY Zenon DEF RecoverStep, RecoverFetch, RecoverClaim, RecoverTerminate, RecoverEnqueue
    <2> QED  BY <2>1, RecoverTyped
  <1>2. RowTyped'
    <2>1. CASE RecoverClaim(w)
      BY <2>1, RequeueTyped DEF RecoverClaim, TypeOK, RowTyped, row
    <2>2. CASE RecoverTerminate(w)
      BY <2>2, WriteTyped DEF RecoverTerminate, WriteStatus, TypeOK, RowTyped, row
    <2>3. CASE UNCHANGED row
      BY <2>3 DEF TypeOK, RowTyped, row
    <2> QED  BY <2>1, <2>2, <2>3 DEF RecoverStep, RecoverFetch, RecoverEnqueue
  <1>3. JobsTyped'
    <2>1. CASE RecoverEnqueue(w)
      BY <2>1, AddTyped DEF RecoverEnqueue
    <2>2. CASE UNCHANGED job
      BY <2>2 DEF TypeOK, JobsTyped
    <2> QED  BY <2>1, <2>2 DEF RecoverStep, RecoverFetch, RecoverClaim, RecoverTerminate
  <1>4. RecoverUnchanged
    BY DEF RecoverStep, RecoverFetch, RecoverClaim, RecoverTerminate, RecoverEnqueue
  <1> QED  BY <1>1, <1>2, <1>3, <1>4 DEF TypeOK, RowTyped, JobsTyped, page, jobVars, RecoverUnchanged
LEMMA EnvironmentTyped ==
  ASSUME TypeOK, Environment
  PROVE  TypeOK'
  <1>1. CASE PageWorkerDies
    <2>1. crashes' \in 0..MaxCrashes
      BY <1>1, BackfillAssumption DEF PageWorkerDies, TypeOK
    <2> QED  BY <1>1, <2>1 DEF PageWorkerDies, TypeOK, row, jobVars, PageGoto, PagePcs
  <1>2. CASE CloseAnalysis
    BY <1>2 DEF CloseAnalysis, TypeOK, row, jobVars, PageGoto, PagePcs
  <1>3. CASE AnalyseAgain
    <2>1. analyses' \in 1..MaxAnalyses
      BY <1>3, BackfillAssumption DEF AnalyseAgain, TypeOK
    <2>2. analysing' \in BOOLEAN /\ skipSeen' \in BOOLEAN
      BY <1>3, Zenon DEF AnalyseAgain
    <2> QED  BY <1>3, <2>1, <2>2 DEF AnalyseAgain, TypeOK, row, jobVars, PagePcs
  <1>4. CASE GiveUpSpawn
    <2>1. RowTyped'
      BY <1>4, WriteTyped DEF GiveUpSpawn, WriteStatus, TypeOK, Statuses
    <2> QED  BY <1>4, <2>1 DEF GiveUpSpawn, TypeOK, RowTyped, page, jobVars
  <1>5. CASE Age
    <2>1. started' \in Ages
      BY <1>5 DEF Age, TypeOK, Ages
    <2>2. skipOld' \in BOOLEAN
      BY <1>5, Zenon DEF Age, TypeOK
    <2> QED  BY <1>5, <2>1, <2>2 DEF Age, TypeOK, page, jobVars
  <1>6. ASSUME NEW i \in JobIds, Stall(i)
        PROVE  TypeOK'
    <2>1. JobsTyped'
      BY <1>6 DEF Stall, TypeOK, JobsTyped
    <2> QED  BY <1>6, <2>1 DEF Stall, TypeOK, JobsTyped, row, page, jobVars
  <1> QED  BY <1>1, <1>2, <1>3, <1>4, <1>5, <1>6 DEF Environment

LEMMA ProcessTyped ==
  ASSUME TypeOK, NEW w \in Workers,
         (\E i \in JobIds : TakeJob(w, i)) \/ StartWorker(w) \/ CrashWorker(w)
  PROVE  TypeOK'
  <1>1. ASSUME NEW i \in JobIds, TakeJob(w, i)
        PROVE  TypeOK'
    <2>1. JobsTyped'
      BY <1>1 DEF TakeJob, TypeOK, JobsTyped
    <2>2. WorkTyped'
      BY <1>1, NoJobIsNone DEF TakeJob, TypeOK, WorkTyped, JobPcs
    <2> QED  BY <1>1, <2>1, <2>2 DEF TakeJob, TypeOK, JobsTyped, WorkTyped, row, page, JobUnchanged
  <1>2. CASE StartWorker(w)
    <2>1. JobsTyped'
      BY <1>2 DEF StartWorker, TypeOK, JobsTyped
    <2>2. faults' \in 0..MaxFaults
      BY <1>2, BackfillAssumption DEF StartWorker, TypeOK
    <2> QED  BY <1>2, <2>1, <2>2 DEF StartWorker, TypeOK, JobsTyped, row, page, jobVars
  <1>3. CASE CrashWorker(w)
    <2>1. WorkTyped'
      BY <1>3 DEF CrashWorker, TypeOK, WorkTyped, JobPcs
    <2>2. /\ up' \in SUBSET Workers /\ cronPc' \in [Workers -> CronPcs]
          /\ recoverPc' \in [Workers -> RecoverPcs]
      BY <1>3, CronTyped, RecoverTyped DEF CrashWorker, Ends, TypeOK, CronPcs, RecoverPcs
    <2>3. crashes' \in 0..MaxCrashes
      BY <1>3, BackfillAssumption DEF CrashWorker, TypeOK
    <2> QED  BY <1>3, <2>1, <2>2, <2>3 DEF CrashWorker, TypeOK, WorkTyped, row, page
  <1> QED  BY <1>1, <1>2, <1>3

(* The columns of the row, the queue and everybody's progress stay within    *)
(* their values, and a worker holds a job exactly while its processor runs.  *)
THEOREM TypeCorrect == Spec => []TypeOK
  <1>1. Init => TypeOK
    <2> SUFFICES ASSUME Init
                 PROVE  TypeOK
      OBVIOUS
    <2>1. skipOld \in BOOLEAN /\ analysing \in BOOLEAN /\ skipSeen \in BOOLEAN
      BY Zenon DEF Init
    <2>2. analyses \in 1..MaxAnalyses /\ faults \in 0..MaxFaults /\ crashes \in 0..MaxCrashes
      BY BackfillAssumption DEF Init
    <2> QED  BY <2>1, <2>2
             DEF Init, TypeOK, Statuses, Ages, Null, JobPcs, CronPcs, RecoverPcs, PagePcs
  <1>2. TypeOK /\ [Next]_vars => TypeOK'
    <2> SUFFICES ASSUME TypeOK, [Next]_vars
                 PROVE  TypeOK'
      OBVIOUS
    <2>1. CASE UNCHANGED vars
      BY <2>1 DEF vars, row, page, jobVars, TypeOK
    <2>2. ASSUME NEW w \in Workers, WorkerStep(w)
          PROVE  TypeOK'
      BY <2>2, JobTyped, ReconcileTyped, RecoverStepTyped, ProcessTyped DEF WorkerStep
    <2> QED  BY <2>1, <2>2, PageTyped, EnvironmentTyped DEF Next
  <1> QED  BY <1>1, <1>2, PTL DEF Spec
-----------------------------------------------------------------------------
(* Completed means done *)

(* What the step of a job can do to what others rely on. *)
LEMMA JobEffect ==
  ASSUME TypeOK, NEW w \in Workers, JobStep(w)
  PROVE  /\ jobPc[w] # "idle" /\ UNCHANGED <<page, crashes>>
         /\ pending' \subseteq pending
         /\ \A v \in Workers :
              /\ jobPc'[v] = "complete" => jobPc[v] = "complete" \/ pending' = {}
              /\ cronPc'[v] = "close" => cronPc[v] = "close"
         /\ status' = "completed" => status = "completed" \/ jobPc[w] = "complete"
  <1>1. CASE Guard(w) \/ GuardRequeue(w) \/ GuardReadd(w) \/ GuardTerminate(w) \/ GuardThrows(w)
    BY <1>1 DEF Guard, GuardRequeue, GuardReadd, GuardTerminate, GuardThrows, TypeOK, JobGoto, Requeue,
                WriteStatus, Write, row, page, JobUnchanged
  <1>2. CASE BeginJob(w) \/ Process(w) \/ Inspect(w) \/ Conclude(w) \/ Fail(w)
    BY <1>2 DEF BeginJob, Process, Inspect, Conclude, Fail, Try, TypeOK, JobGoto,
                WriteStatus, Write, row, page, JobUnchanged
  <1>3. CASE CompleteJob(w) \/ FailJob(w)
    BY <1>3 DEF CompleteJob, FailJob, EndJob, Ends, CronGoto, TypeOK, row, page, JobUnchanged
  <1> QED  BY <1>1, <1>2, <1>3 DEF JobStep

LEMMA ReconcileEffect ==
  ASSUME TypeOK, NEW w \in Workers, ReconcileStep(w)
  PROVE  /\ UNCHANGED <<pending, page, jobVars>>
         /\ cronPc[w] # "idle" \/ status # "not_required"
         /\ \A v \in Workers : cronPc'[v] = "close" => cronPc[v] = "close" \/ pending = {}
         /\ status' = "completed" => status = "completed" \/ cronPc[w] = "close"
  <1>1. CASE Fetch(w) \/ LeaveRow(w) \/ CronInspect(w)
    BY <1>1 DEF Fetch, LeaveRow, CronInspect, AfterProbe, CronGoto, TypeOK, row, page,
                jobVars, CronUnchanged
  <1>2. CASE Probe(w)
    <2>1. PICK p \in {"inspect", "claim_skipped", "claim_queued"} : CronGoto(w, p)
      BY <1>2 DEF Probe, AfterProbe
    <2> QED  BY <1>2, <2>1 DEF Probe, AfterProbe, CronGoto, TypeOK, row, page, jobVars, CronUnchanged
  <1>3. CASE CloseOrOrphan(w) \/ ExpireOrRetire(w)
    BY <1>3 DEF CloseOrOrphan, ExpireOrRetire, WriteIf, CronGoto, WriteStatus, Write, TypeOK,
                row, page, jobVars, CronUnchanged
  <1>4. CASE RecoverSkipped(w) \/ RescueQueued(w) \/ GiveUpQueued(w) \/ CronEnqueue(w)
    BY <1>4 DEF RecoverSkipped, RescueQueued, GiveUpQueued, CronEnqueue, WriteIf, CronGoto,
                Requeue, WriteStatus, Write, TypeOK, row, page, jobVars, CronUnchanged
  <1> QED  BY <1>1, <1>2, <1>3, <1>4 DEF ReconcileStep

LEMMA RecoverEffect ==
  ASSUME TypeOK, NEW w \in Workers, RecoverStep(w)
  PROVE  /\ UNCHANGED <<pending, page, jobVars, cronPc>>
         /\ recoverPc[w] # "idle" \/ status # "not_required"
         /\ status' = "completed" => status = "completed"
  BY DEF RecoverStep, RecoverFetch, RecoverClaim, RecoverTerminate, RecoverEnqueue, Requeue,
         WriteStatus, Write, row, page, jobVars, RecoverUnchanged

LEMMA PageEffect ==
  ASSUME TypeOK, PageStep
  PROVE  /\ UNCHANGED <<analyses, jobVars, cronPc, recoverPc>>
         /\ pagePc' # "analyse"
         /\ pagePc = "analyse" \/ pending' = pending
         /\ status' = "completed" => status = "completed"
  <1>1. CASE Analyse \/ AnalyseAndSkip \/ AnalysisFails \/ Mark
    BY <1>1 DEF Analyse, AnalyseAndSkip, AnalysisFails, Mark, Try, Write, PageGoto,
                PageUnchanged, row, jobVars
  <1>2. CASE Dispatch \/ WriteQueued \/ EnqueueAll
    BY <1>2 DEF Dispatch, WriteQueued, EnqueueAll, Try, Write, PageGoto, AfterSync,
                PageUnchanged, row, jobVars
  <1>3. CASE ReadRetries \/ PinFailed \/ ClaimSkipped
    BY <1>3 DEF ReadRetries, PinFailed, ClaimSkipped, Requeue, Write, PageGoto,
                PageUnchanged, row, jobVars
  <1> QED  BY <1>1, <1>2, <1>3 DEF PageStep

LEMMA DoneOnceStep ==
  ASSUME TypeOK, DoneOnce, [Next]_vars
  PROVE  DoneOnce'
  <1> SUFFICES ASSUME analyses' = 1
               PROVE  DoneOnce'
    BY DEF DoneOnce
  <1>1. CASE UNCHANGED vars
    BY <1>1 DEF vars, row, page, jobVars, DoneOnce, Untouched, JudgedDone
  <1>2. CASE PageStep
    BY <1>2, PageEffect DEF DoneOnce, Untouched, JudgedDone, jobVars
  <1>3. ASSUME NEW w \in Workers, JobStep(w)
        PROVE  DoneOnce'
    BY <1>3, JobEffect DEF DoneOnce, Untouched, JudgedDone, page
  <1>4. ASSUME NEW w \in Workers, ReconcileStep(w)
        PROVE  DoneOnce'
    BY <1>4, ReconcileEffect DEF DoneOnce, Untouched, JudgedDone, page, jobVars
  <1>5. ASSUME NEW w \in Workers, RecoverStep(w)
        PROVE  DoneOnce'
    BY <1>5, RecoverEffect DEF DoneOnce, Untouched, JudgedDone, page, jobVars
  <1>6. ASSUME NEW w \in Workers, NEW i \in JobIds, TakeJob(w, i)
        PROVE  DoneOnce'
    BY <1>6 DEF TakeJob, DoneOnce, Untouched, JudgedDone, TypeOK, row, page, JobUnchanged
  <1>7. ASSUME NEW w \in Workers, StartWorker(w) \/ CrashWorker(w)
        PROVE  DoneOnce'
    <2>1. CASE StartWorker(w)
      BY <2>1, BackfillAssumption
         DEF StartWorker, DoneOnce, Untouched, JudgedDone, Active, row, page, jobVars
    <2>2. CASE CrashWorker(w)
      BY <2>2 DEF CrashWorker, Ends, CronGoto, RecoverGoto, DoneOnce, Untouched, JudgedDone,
                  TypeOK, row, page
    <2> QED  BY <1>7, <2>1, <2>2
  <1>8. CASE Environment
    <2>1. CASE PageWorkerDies \/ CloseAnalysis \/ AnalyseAgain
      BY <2>1 DEF PageWorkerDies, CloseAnalysis, AnalyseAgain, PageGoto, DoneOnce, Untouched,
                  JudgedDone, TypeOK, row, jobVars
    <2>2. CASE GiveUpSpawn
      BY <2>2 DEF GiveUpSpawn, WriteStatus, Write, DoneOnce, Untouched, JudgedDone, page, jobVars
    <2>3. CASE Age
      BY <2>3 DEF Age, DoneOnce, Untouched, JudgedDone, page, jobVars
    <2>4. ASSUME NEW i \in JobIds, Stall(i)
          PROVE  DoneOnce'
      BY <2>4, BackfillAssumption
         DEF Stall, Active, DoneOnce, Untouched, JudgedDone, row, page, jobVars
    <2> QED  BY <1>8, <2>1, <2>2, <2>3, <2>4 DEF Environment
  <1> QED  BY <1>1, <1>2, <1>3, <1>4, <1>5, <1>6, <1>7, <1>8 DEF Next, WorkerStep

(* No job and no cron writes completed over work left by the one analysis:   *)
(* what was found done stays done, since work only shrinks once its jobs can *)
(* run.  With a second analysis this is false: its texts are new.  *)
THEOREM CompletedCorrect == Spec => []CompletedMeansDone
  <1>1. Init => DoneOnce
    BY DEF Init, DoneOnce, Untouched, JudgedDone
  <1>2. TypeOK /\ DoneOnce /\ [Next]_vars => DoneOnce'
    BY DoneOnceStep
  <1>3. DoneOnce => CompletedMeansDone
    BY DEF DoneOnce, CompletedMeansDone
  <1> QED  BY <1>1, <1>2, <1>3, TypeCorrect, PTL DEF Spec
-----------------------------------------------------------------------------
(* Closed rows *)

(* A step that changes a completed or failed status is one of a job or of    *)
(* the page worker: what a cron, a supervisor or a second process decided    *)
(* before the row was closed is dropped.                                     *)
THEOREM ClosedKept == Spec => CronsKeepClosed
  <1> DEFINE Kept == status \in {"completed", "failed"} /\ status' # status
                       => jobPc' # jobPc \/ pagePc' # pagePc
  <1>1. TypeOK /\ [Next]_vars => Kept
    <2> SUFFICES ASSUME TypeOK, [Next]_vars, status \in {"completed", "failed"}, status' # status
                 PROVE  jobPc' # jobPc \/ pagePc' # pagePc
      OBVIOUS
    <2>1. CASE UNCHANGED vars
      BY <2>1 DEF vars, row
    <2>2. CASE PageStep
      BY <2>2 DEF PageStep, Analyse, AnalyseAndSkip, AnalysisFails, Mark, Dispatch, WriteQueued,
                  ReadRetries, PinFailed, ClaimSkipped, EnqueueAll, AfterSync, PageGoto, row
    <2>3. ASSUME NEW w \in Workers, JobStep(w)
          PROVE  jobPc' # jobPc
      BY <2>3 DEF JobStep, Guard, GuardRequeue, GuardReadd, GuardTerminate, GuardThrows,
                  BeginJob, Process, Inspect, Conclude, Fail, CompleteJob, FailJob, EndJob, JobGoto, TypeOK
    <2>4. ASSUME NEW w \in Workers, ReconcileStep(w)
          PROVE  status' = status
      BY <2>4 DEF ReconcileStep, Fetch, LeaveRow, Probe, CronInspect, CloseOrOrphan,
                  ExpireOrRetire, RecoverSkipped, RescueQueued, GiveUpQueued, CronEnqueue,
                  WriteIf, row
    <2>5. ASSUME NEW w \in Workers, RecoverStep(w)
          PROVE  status' = status
      BY <2>5 DEF RecoverStep, RecoverFetch, RecoverClaim, RecoverTerminate, RecoverEnqueue, row
    <2>6. ASSUME NEW w \in Workers,
                 (\E i \in JobIds : TakeJob(w, i)) \/ StartWorker(w) \/ CrashWorker(w)
          PROVE  status' = status
      BY <2>6 DEF TakeJob, StartWorker, CrashWorker, row
    <2>7. ASSUME Environment
          PROVE  status' = status
      BY <2>7 DEF Environment, PageWorkerDies, CloseAnalysis, AnalyseAgain, GiveUpSpawn, Age,
                  Stall, row
    <2> QED  BY <2>1, <2>2, <2>3, <2>4, <2>5, <2>6, <2>7 DEF Next, WorkerStep
  <1>2. Kept <=> (status \in {"completed", "failed"} /\ status' # status
                   => (jobPc' # jobPc \/ pagePc' # pagePc))
    OBVIOUS
  <1> QED  BY <1>1, TypeCorrect, PTL DEF Spec, CronsKeepClosed

-----------------------------------------------------------------------------
(* The retry budget *)

Rescuing == {"probe_skipped", "claim_skipped", "probe_queued", "claim_queued"}

(* Those who have seen the count below the cap and may still raise it. *)
Spender(x) ==
    \/ x = <<"page", 0>> /\ pagePc = "claim"
    \/ \E w \in Workers :
         \/ x = <<"job", w>> /\ jobPc[w] = "requeue"
         \/ x = <<"cron", w>> /\ cronPc[w] \in Rescuing
         \/ x = <<"recover", w>> /\ recoverPc[w] = "claim"

Seats == {<<"page", 0>>} \cup ({"job", "cron", "recover"} \X Workers)
Spenders == {x \in Seats : Spender(x)}

(* Each of them has a retry in hand.                                         *)
InBudget == retries + Cardinality(Spenders) <= RetryCap - 1 + Cardinality(Seats)

LEMMA SeatsCounted == IsFiniteSet(Seats) /\ Cardinality(Seats) = 3 * Cardinality(Workers) + 1
  <1>1. IsFiniteSet({"job", "cron", "recover"}) /\ Cardinality({"job", "cron", "recover"}) = 3
    <2>1. IsFiniteSet({}) /\ Cardinality({}) = 0
      BY FS_EmptySet
    <2>2. IsFiniteSet({"job"}) /\ Cardinality({"job"}) = 1
      BY FS_Singleton
    <2>3. IsFiniteSet({"job", "cron"}) /\ Cardinality({"job", "cron"}) = 2
      <3>1. {"job", "cron"} = {"job"} \cup {"cron"} /\ "cron" \notin {"job"}
        OBVIOUS
      <3>2. /\ IsFiniteSet({"job"} \cup {"cron"})
            /\ Cardinality({"job"} \cup {"cron"}) = Cardinality({"job"}) + 1
        BY ONLY <2>2, <3>1, FS_AddElement, Zenon
      <3> QED  BY ONLY <2>2, <3>1, <3>2
    <2>4. {"job", "cron", "recover"} = {"job", "cron"} \cup {"recover"}
          /\ "recover" \notin {"job", "cron"}
      OBVIOUS
    <2>5. /\ IsFiniteSet({"job", "cron"} \cup {"recover"})
          /\ Cardinality({"job", "cron"} \cup {"recover"}) = Cardinality({"job", "cron"}) + 1
      BY ONLY <2>3, <2>4, FS_AddElement, Zenon
    <2> QED  BY ONLY <2>3, <2>4, <2>5
  <1>2. IsFiniteSet({"job", "cron", "recover"} \X Workers)
        /\ Cardinality({"job", "cron", "recover"} \X Workers) = 3 * Cardinality(Workers)
    BY <1>1, BackfillAssumption, FS_Product
  <1>3. <<"page", 0>> \notin {"job", "cron", "recover"} \X Workers
    OBVIOUS
  <1>4. Cardinality({"job", "cron", "recover"} \X Workers) \in Nat
    BY <1>2, FS_CardinalityType
  <1>5. Seats = ({"job", "cron", "recover"} \X Workers) \cup {<<"page", 0>>}
    BY DEF Seats
  <1> QED  BY <1>2, <1>3, <1>4, <1>5, FS_AddElement

(* The three ways a step can change the budget. *)
Idles == retries' = retries /\ Spenders' \subseteq Spenders
Reads == retries' = retries /\ retries < RetryCap
Spends == retries' = retries + 1 /\ \E x \in Spenders : Spenders' \subseteq Spenders \ {x}

NoneGained ==
    /\ pagePc' = "claim" => pagePc = "claim"
    /\ \A v \in Workers :
         /\ jobPc'[v] = "requeue" => jobPc[v] = "requeue"
         /\ cronPc'[v] \in Rescuing => cronPc[v] \in Rescuing
         /\ recoverPc'[v] = "claim" => recoverPc[v] = "claim"

LEMMA FewerSpend ==
  ASSUME NoneGained
  PROVE  Spenders' \subseteq Spenders
  BY DEF NoneGained, Spenders, Spender, Seats, Rescuing

LEMMA SpentOne ==
  ASSUME NoneGained, retries' = retries + 1, NEW x \in Seats, Spender(x), ~Spender(x)'
  PROVE  Spends
  <1>1. x \in Spenders /\ x \notin Spenders'
    BY DEF Spenders
  <1> QED  BY <1>1, FewerSpend DEF Spends

LEMMA BudgetKept ==
  ASSUME retries \in Nat, InBudget, Idles \/ Reads \/ Spends
  PROVE  InBudget'
  <1>1. /\ IsFiniteSet(Spenders) /\ IsFiniteSet(Spenders')
        /\ Cardinality(Spenders) \in Nat /\ Cardinality(Spenders') \in Nat
        /\ Cardinality(Spenders') <= Cardinality(Seats) /\ Cardinality(Seats) \in Nat
    BY SeatsCounted, FS_Subset, FS_CardinalityType DEF Spenders, Seats
  <1>2. RetryCap \in Nat
    BY BackfillAssumption
  <1>3. Cardinality(Seats') = Cardinality(Seats)
    BY DEF Seats
  <1>4. CASE Idles
    <2>1. Cardinality(Spenders') <= Cardinality(Spenders)
      BY <1>1, <1>4, FS_Subset DEF Idles
    <2> QED  BY <1>1, <1>2, <1>3, <1>4, <2>1 DEF InBudget, Idles
  <1>5. CASE Reads
    BY <1>1, <1>2, <1>3, <1>5 DEF InBudget, Reads
  <1>6. CASE Spends
    <2>1. PICK x \in Spenders : Spenders' \subseteq Spenders \ {x}
      BY <1>6 DEF Spends
    <2>2. IsFiniteSet(Spenders \ {x})
          /\ Cardinality(Spenders \ {x}) = Cardinality(Spenders) - 1
      BY <1>1, FS_RemoveElement
    <2>3. Cardinality(Spenders') <= Cardinality(Spenders) - 1
      BY <2>1, <2>2, FS_Subset
    <2> QED  BY <1>1, <1>2, <1>3, <1>6, <2>3 DEF InBudget, Spends
  <1> QED  BY <1>4, <1>5, <1>6
LEMMA PageBudget ==
  ASSUME TypeOK, PageStep
  PROVE  Idles \/ Reads \/ Spends
  <1>1. UNCHANGED <<jobPc, cronPc, recoverPc>>
    BY PageEffect DEF jobVars
  <1>2. CASE ReadRetries
    <2>1. retries' = retries
      BY <1>2 DEF ReadRetries, row
    <2>2. CASE retries < RetryCap
      BY <2>1, <2>2 DEF Reads
    <2>3. CASE ~(retries < RetryCap)
      <3>1. NoneGained
        BY <1>1, <1>2, <2>3, BackfillAssumption DEF ReadRetries, PageGoto, NoneGained, TypeOK
      <3> QED  BY <2>1, <3>1, FewerSpend DEF Idles
    <2> QED  BY <2>2, <2>3
  <1>3. CASE ClaimSkipped /\ retries' = retries + 1
    <2>1. NoneGained
      BY <1>1, <1>3 DEF ClaimSkipped, PageGoto, NoneGained
    <2>2. Spender(<<"page", 0>>) /\ ~Spender(<<"page", 0>>)'
      BY <1>3, <2>1 DEF ClaimSkipped, PageGoto, Spender, Requeue, row, TypeOK
    <2> QED  BY <1>3, <2>1, <2>2, SpentOne DEF Seats
  <1>4. CASE ~ReadRetries /\ ~(ClaimSkipped /\ retries' = retries + 1)
    <2>1. retries' = retries
      BY <1>4 DEF PageStep, Analyse, AnalyseAndSkip, AnalysisFails, Mark, Dispatch,
                  WriteQueued, PinFailed, ClaimSkipped, EnqueueAll, Try, Write, Requeue, row
    <2>2. pagePc' # "claim"
      BY <1>4 DEF PageStep, Analyse, AnalyseAndSkip, AnalysisFails, Mark, Dispatch, AfterSync,
                  WriteQueued, PinFailed, ClaimSkipped, EnqueueAll, PageGoto
    <2> QED  BY <1>1, <2>1, <2>2, FewerSpend DEF Idles, NoneGained
  <1> QED  BY <1>2, <1>3, <1>4

LEMMA JobBudget ==
  ASSUME TypeOK, NEW w \in Workers, JobStep(w)
  PROVE  Idles \/ Reads \/ Spends
  <1>1. UNCHANGED pagePc
    BY JobEffect DEF page
  <1>2. \A v \in Workers :
          /\ cronPc'[v] \in Rescuing => cronPc[v] \in Rescuing
          /\ recoverPc'[v] = "claim" => recoverPc[v] = "claim"
    BY DEF JobStep, Guard, GuardRequeue, GuardReadd, GuardTerminate, GuardThrows, BeginJob,
           Process, Inspect, Conclude, Fail, CompleteJob, FailJob, Ends, CronGoto, RecoverGoto, JobUnchanged,
           TypeOK, Rescuing
  <1>3. CASE Guard(w)
    <2>1. retries' = retries
      BY <1>3 DEF Guard, row
    <2>2. CASE retries < RetryCap
      BY <2>1, <2>2 DEF Reads
    <2>3. CASE ~(retries < RetryCap)
      <3>1. PICK p \in {"begin", "terminate"} : JobGoto(w, p)
        BY <1>3, <2>3, BackfillAssumption DEF Guard, TypeOK
      <3>2. \A v \in Workers : jobPc'[v] = "requeue" => jobPc[v] = "requeue"
        BY <3>1 DEF JobGoto, TypeOK
      <3>3. NoneGained
        BY <1>1, <1>2, <3>2 DEF NoneGained
      <3> QED  BY <2>1, <3>3, FewerSpend DEF Idles
    <2> QED  BY <2>2, <2>3
  <1>4. CASE GuardRequeue(w)
    <2>1. PICK p \in {"readd", "finish"} : JobGoto(w, p)
      BY <1>4, Zenon DEF GuardRequeue
    <2>2. /\ \A v \in Workers : jobPc'[v] = "requeue" => jobPc[v] = "requeue"
          /\ jobPc'[w] # "requeue" /\ jobPc[w] = "requeue"
      BY <1>4, <2>1 DEF GuardRequeue, JobGoto, TypeOK
    <2>3. NoneGained /\ jobPc'[w] # "requeue" /\ jobPc[w] = "requeue"
      BY <1>1, <1>2, <2>2 DEF NoneGained
    <2>4. CASE retries' = retries + 1
      <3>1. Spender(<<"job", w>>) /\ ~Spender(<<"job", w>>)'
        BY <2>3 DEF Spender
      <3> QED  BY <2>3, <2>4, <3>1, SpentOne DEF Seats
    <2>5. CASE retries' = retries
      BY <2>3, <2>5, FewerSpend DEF Idles
    <2> QED  BY <1>4, <2>4, <2>5 DEF GuardRequeue, Requeue, row
  <1>5. CASE ~Guard(w) /\ ~GuardRequeue(w)
    <2>1. retries' = retries
      BY <1>5 DEF JobStep, GuardReadd, GuardTerminate, GuardThrows, BeginJob, Process, Inspect, Conclude,
                  Fail, CompleteJob, FailJob, Try, WriteStatus, Write, row
    <2>2. \A v \in Workers : jobPc'[v] = "requeue" => jobPc[v] = "requeue"
      <3>1. CASE GuardReadd(w) \/ GuardTerminate(w) \/ GuardThrows(w) \/ BeginJob(w) \/ Process(w)
        BY <3>1 DEF GuardReadd, GuardTerminate, GuardThrows, BeginJob, Process, JobGoto, TypeOK
      <3>2. CASE Inspect(w) \/ Conclude(w) \/ Fail(w)
        BY <3>2 DEF Inspect, Conclude, Fail, JobGoto, TypeOK
      <3>3. CASE CompleteJob(w) \/ FailJob(w)
        BY <3>3 DEF CompleteJob, FailJob, EndJob, TypeOK
      <3> QED  BY <1>5, <3>1, <3>2, <3>3 DEF JobStep
    <2> QED  BY <1>1, <1>2, <2>1, <2>2, FewerSpend DEF Idles, NoneGained
  <1> QED  BY <1>3, <1>4, <1>5

LEMMA CronBudget ==
  ASSUME TypeOK, NEW w \in Workers, ReconcileStep(w)
  PROVE  Idles \/ Reads \/ Spends
  <1>1. UNCHANGED <<pagePc, jobPc, recoverPc>>
    BY DEF ReconcileStep, Fetch, LeaveRow, Probe, CronInspect, CloseOrOrphan, ExpireOrRetire,
           RecoverSkipped, RescueQueued, GiveUpQueued, CronEnqueue, WriteIf, CronUnchanged,
           page, jobVars
  <1>2. CASE Fetch(w)
    <2>1. retries' = retries
      BY <1>2 DEF Fetch, row
    <2>2. CASE retries < RetryCap
      BY <2>1, <2>2 DEF Reads
    <2>3. CASE ~(retries < RetryCap)
      <3>1. PICK p \in {"probe_in_progress", "expire", "retire", "give_up"} : CronGoto(w, p)
        BY <1>2, <2>3, BackfillAssumption DEF Fetch, TypeOK
      <3>2. NoneGained
        BY <1>1, <3>1 DEF CronGoto, NoneGained, Rescuing, TypeOK
      <3> QED  BY <2>1, <3>2, FewerSpend DEF Idles
    <2> QED  BY <2>2, <2>3
  <1>3. CASE RecoverSkipped(w) \/ RescueQueued(w)
    <2>1. PICK p \in {"enqueue", "idle"} : CronGoto(w, p)
      BY <1>3, Zenon DEF RecoverSkipped, RescueQueued, WriteIf
    <2>2. NoneGained /\ cronPc'[w] \notin Rescuing /\ cronPc[w] \in Rescuing
      BY <1>1, <1>3, <2>1 DEF RecoverSkipped, RescueQueued, CronGoto, NoneGained, Rescuing, TypeOK
    <2>3. CASE retries' = retries + 1
      <3>1. Spender(<<"cron", w>>) /\ ~Spender(<<"cron", w>>)'
        BY <2>2 DEF Spender
      <3> QED  BY <2>2, <2>3, <3>1, SpentOne DEF Seats
    <2>4. CASE retries' = retries
      BY <2>2, <2>4, FewerSpend DEF Idles
    <2> QED  BY <1>3, <2>3, <2>4 DEF RecoverSkipped, RescueQueued, WriteIf, Requeue, row
  <1>4. CASE Probe(w)
    <2>1. PICK p \in {"inspect", "claim_skipped", "claim_queued"} :
            CronGoto(w, p) /\ (p # "inspect" => cronPc[w] \in Rescuing)
      BY <1>4 DEF Probe, AfterProbe, Rescuing
    <2>2. NoneGained /\ retries' = retries
      BY <1>1, <1>4, <2>1 DEF Probe, CronGoto, NoneGained, Rescuing, TypeOK, row
    <2> QED  BY <2>2, FewerSpend DEF Idles
  <1>5. CASE \/ LeaveRow(w) \/ CronInspect(w) \/ CloseOrOrphan(w) \/ ExpireOrRetire(w)
             \/ GiveUpQueued(w) \/ CronEnqueue(w)
    <2>1. retries' = retries
      BY <1>5 DEF LeaveRow, CronInspect, CloseOrOrphan, ExpireOrRetire, GiveUpQueued,
                  CronEnqueue, WriteIf, WriteStatus, Write, row
    <2>2. PICK p \in {"idle", "close", "orphan"} : CronGoto(w, p)
      BY <1>5, Zenon DEF LeaveRow, CronInspect, CloseOrOrphan, ExpireOrRetire, GiveUpQueued,
                  CronEnqueue, WriteIf
    <2>3. NoneGained
      BY <1>1, <2>2 DEF CronGoto, NoneGained, Rescuing, TypeOK
    <2> QED  BY <2>1, <2>3, FewerSpend DEF Idles
  <1> QED  BY <1>2, <1>3, <1>4, <1>5 DEF ReconcileStep

LEMMA RecoverBudget ==
  ASSUME TypeOK, NEW w \in Workers, RecoverStep(w)
  PROVE  Idles \/ Reads \/ Spends
  <1>1. UNCHANGED <<pagePc, jobPc, cronPc>>
    BY RecoverEffect DEF page, jobVars
  <1>2. CASE RecoverFetch(w)
    <2>1. retries' = retries
      BY <1>2 DEF RecoverFetch, row
    <2>2. CASE retries < RetryCap
      BY <2>1, <2>2 DEF Reads
    <2>3. CASE ~(retries < RetryCap)
      <3>1. NoneGained
        BY <1>1, <1>2, <2>3, BackfillAssumption DEF RecoverFetch, RecoverGoto, NoneGained, TypeOK
      <3> QED  BY <2>1, <3>1, FewerSpend DEF Idles
    <2> QED  BY <2>2, <2>3
  <1>3. CASE RecoverClaim(w)
    <2>1. NoneGained /\ recoverPc'[w] # "claim" /\ recoverPc[w] = "claim"
      BY <1>1, <1>3 DEF RecoverClaim, RecoverGoto, NoneGained, TypeOK
    <2>2. CASE retries' = retries + 1
      <3>1. Spender(<<"recover", w>>) /\ ~Spender(<<"recover", w>>)'
        BY <2>1 DEF Spender
      <3> QED  BY <2>1, <2>2, <3>1, SpentOne DEF Seats
    <2>3. CASE retries' = retries
      BY <2>1, <2>3, FewerSpend DEF Idles
    <2> QED  BY <1>3, <2>2, <2>3 DEF RecoverClaim, Requeue, row
  <1>4. CASE RecoverTerminate(w) \/ RecoverEnqueue(w)
    <2>1. NoneGained
      BY <1>1, <1>4 DEF RecoverTerminate, RecoverEnqueue, RecoverGoto, NoneGained, TypeOK
    <2>2. retries' = retries
      BY <1>4 DEF RecoverTerminate, RecoverEnqueue, WriteStatus, Write, row
    <2> QED  BY <2>1, <2>2, FewerSpend DEF Idles
  <1> QED  BY <1>2, <1>3, <1>4 DEF RecoverStep

LEMMA OtherBudget ==
  ASSUME TypeOK,
         \/ Environment
         \/ \E w \in Workers :
              (\E i \in JobIds : TakeJob(w, i)) \/ StartWorker(w) \/ CrashWorker(w)
  PROVE  Idles
  <1>1. retries' = retries
    BY DEF Environment, PageWorkerDies, CloseAnalysis, AnalyseAgain, GiveUpSpawn, Age, Stall,
           TakeJob, StartWorker, CrashWorker, WriteStatus, Write, row
  <1>2. NoneGained
    <2>1. CASE Environment
      BY <2>1 DEF Environment, PageWorkerDies, CloseAnalysis, AnalyseAgain, GiveUpSpawn, Age,
                  Stall, PageGoto, NoneGained, page, jobVars
    <2>2. ASSUME NEW w \in Workers, NEW i \in JobIds, TakeJob(w, i)
          PROVE  NoneGained
      BY <2>2 DEF TakeJob, JobUnchanged, NoneGained, TypeOK, page
    <2>3. ASSUME NEW w \in Workers, StartWorker(w)
          PROVE  NoneGained
      BY <2>3 DEF StartWorker, NoneGained, page, jobVars
    <2>4. ASSUME NEW w \in Workers, CrashWorker(w)
          PROVE  NoneGained
      BY <2>4 DEF CrashWorker, Ends, CronGoto, RecoverGoto, NoneGained, Rescuing, TypeOK, page
    <2> QED  BY <2>1, <2>2, <2>3, <2>4
  <1> QED  BY <1>1, <1>2, FewerSpend DEF Idles

(* However the jobs, the crons of all workers and the page worker interleave *)
(* between reading the shared count and raising it, the overrun is bounded   *)
(* by their number.                                                          *)
THEOREM BudgetCorrect == Spec => []RetriesBounded
  <1>1. Init => InBudget
    <2> SUFFICES ASSUME Init
                 PROVE  InBudget
      OBVIOUS
    <2>1. Spenders = {}
      BY DEF Init, Spenders, Spender, Rescuing
    <2> QED  BY <2>1, FS_EmptySet, FS_CardinalityType, SeatsCounted, BackfillAssumption
             DEF Init, InBudget
  <1>2. TypeOK /\ InBudget /\ [Next]_vars => InBudget'
    <2> SUFFICES ASSUME TypeOK, InBudget, [Next]_vars
                 PROVE  InBudget'
      OBVIOUS
    <2>1. CASE UNCHANGED vars
      <3>1. Idles
        BY <2>1, FewerSpend DEF vars, row, page, jobVars, Idles, NoneGained
      <3> QED  BY <3>1, BudgetKept DEF TypeOK
    <2>2. ASSUME Next
          PROVE  Idles \/ Reads \/ Spends
      BY <2>2, PageBudget, JobBudget, CronBudget, RecoverBudget, OtherBudget DEF Next, WorkerStep
    <2> QED  BY <2>1, <2>2, BudgetKept DEF TypeOK
  <1>3. InBudget /\ TypeOK => RetriesBounded
    <2> SUFFICES ASSUME InBudget, TypeOK
                 PROVE  RetriesBounded
      OBVIOUS
    <2>1. Cardinality(Spenders) \in Nat
      BY SeatsCounted, FS_Subset, FS_CardinalityType DEF Spenders
    <2>2. Cardinality(Workers) \in Nat
      BY BackfillAssumption, FS_CardinalityType
    <2> QED  BY <2>1, <2>2, SeatsCounted, BackfillAssumption DEF InBudget, RetriesBounded, TypeOK
  <1> QED  BY <1>1, <1>2, <1>3, TypeCorrect, PTL DEF Spec
=============================================================================
