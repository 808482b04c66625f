--------------------------- MODULE PageJobProofs ---------------------------
(***************************************************************************)
(* What holds of the page-analyze jobs for any number of jobs, processes   *)
(* and faults, and any crowd.                                              *)
(***************************************************************************)
EXTENDS PageJob, TLAPS

Pcs    == {"off", "recover", "idle"} \cup Running
States == {"new", "waiting", "active"} \cup Ended

ProcTyped ==
  /\ pc \in [Workers -> Pcs]
  /\ at \in [Workers -> Jobs \cup {NoJob}]
  /\ \A w \in Workers : pc[w] \in Running <=> at[w] # NoJob

VerdictTyped == verdict \in [Workers -> SUBSET (Jobs \X Verdicts)]
FaultsTyped  == calm \in BOOLEAN /\ faults \in 0..MaxFaults
LockTyped    == lock \in [Jobs -> Workers \cup {Free, Stale}]

QueueTyped ==
  /\ state \in [Jobs -> States]
  /\ progress \in [Jobs -> {"none", "some", "saved"}]
  /\ LockTyped
  /\ old \in [Jobs -> BOOLEAN]
  /\ reached \in [Jobs -> {"nothing", "begun", "stored"}]

-----------------------------------------------------------------------------
(* Types *)

LEMMA Typed == TypeOK <=> QueueTyped /\ ProcTyped /\ VerdictTyped /\ FaultsTyped
  BY DEF TypeOK, QueueTyped, ProcTyped, VerdictTyped, FaultsTyped, LockTyped, States, Pcs

LEMMA TypedNext ==
  QueueTyped' /\ ProcTyped' /\ VerdictTyped' /\ FaultsTyped' => TypeOK'
  BY DEF TypeOK, QueueTyped, ProcTyped, VerdictTyped, FaultsTyped, LockTyped, States, Pcs

LEMMA Bounds == MaxFaults \in Nat /\ NoJob \notin Jobs
  BY PageJobAssumption

LEMMA FaultsStayTyped ==
  ASSUME FaultsTyped, NoMishap \/ Mishap
  PROVE  FaultsTyped'
  <1>1. calm' \in BOOLEAN
    BY Zenon DEF FaultsTyped, NoMishap, Mishap
  <1>2. faults' \in 0..MaxFaults
    BY Bounds DEF FaultsTyped, NoMishap, Mishap
  <1> QED  BY <1>1, <1>2 DEF FaultsTyped

LEMMA GotoTyped ==
  ASSUME ProcTyped, NEW w \in Workers, NEW p \in Pcs, Goto(w, p),
         p \in Running <=> pc[w] \in Running
  PROVE  ProcTyped'
  BY DEF ProcTyped, Goto, Pcs

LEMMA RunJob ==
  ASSUME ProcTyped, NEW w \in Workers, pc[w] \in Running
  PROVE  at[w] \in Jobs
  BY DEF ProcTyped

LEMMA RunTyped ==
  ASSUME TypeOK, NEW w \in Workers,
         Begin(w) \/ Ingest(w) \/ Phases(w) \/ Embed(w) \/ Throw(w)
  PROVE  TypeOK'
  <1> USE Typed, TypedNext, Bounds
  <1>1. at[w] \in Jobs
    BY RunJob DEF Begin, Ingest, Phases, Embed, Throw, Running
  <1>2. ProcTyped'
    BY GotoTyped DEF Begin, Ingest, Phases, Embed, Throw, Pcs, Running
  <1>3. progress' \in [Jobs -> {"none", "some", "saved"}]
    BY DEF Begin, Ingest, Phases, Embed, Throw, Report, QueueTyped
  <1>4. reached' \in [Jobs -> {"nothing", "begun", "stored"}]
    BY DEF Begin, Ingest, Phases, Embed, Throw, QueueTyped
  <1>5. RunUnchanged
    BY DEF Begin, Ingest, Phases, Embed, Throw
  <1> QED
    BY <1>2, <1>3, <1>4, <1>5, FaultsStayTyped
    DEF RunUnchanged, QueueTyped, LockTyped, VerdictTyped

LEMMA TakeTyped ==
  ASSUME TypeOK, NEW w \in Workers, NEW j \in Jobs, Take(w, j)
  PROVE  TypeOK'
  <1> USE Typed, TypedNext, Bounds
  <1>1. ProcTyped'
    BY DEF Take, ProcTyped, Pcs, Running
  <1>2. old' \in [Jobs -> BOOLEAN]
    BY Zenon DEF Take, QueueTyped
  <1>3. QueueTyped'
    BY <1>2 DEF Take, QueueTyped, LockTyped, States
  <1> QED  BY <1>1, <1>3, FaultsStayTyped DEF Take, VerdictTyped

LEMMA LeaveTyped ==
  ASSUME ProcTyped, VerdictTyped, NEW w \in Workers,
         NEW locks \in [Jobs -> Workers \cup {Free, Stale}], Leave(w, locks)
  PROVE  ProcTyped' /\ VerdictTyped' /\ LockTyped'
  <1>1. ProcTyped'
    BY Bounds DEF ProcTyped, Leave, Pcs, Running
  <1> QED  BY <1>1 DEF Leave, VerdictTyped, LockTyped

LEMMA UnlockedTyped ==
  ASSUME LockTyped, NEW w \in Workers
  PROVE  Unlocked(w) \in [Jobs -> Workers \cup {Free, Stale}]
  BY DEF LockTyped, Unlocked

LEMMA GoesOnTyped ==
  ASSUME TypeOK, NEW w \in Workers, GoesOn(w),
         state' \in [Jobs -> States], LockTyped'
  PROVE  TypeOK'
  <1> USE Typed, TypedNext, Bounds
  <1>1. ProcTyped'
    BY DEF GoesOn, ProcTyped, Pcs, Running
  <1> QED  BY <1>1, FaultsStayTyped DEF GoesOn, QueueTyped, VerdictTyped

LEMMA ReturnTyped ==
  ASSUME TypeOK, NEW w \in Workers, Return(w)
  PROVE  TypeOK'
  <1> USE Typed, TypedNext, Bounds
  <1>1. PICK next \in SUBSET {j \in Jobs : state[j] = "waiting"} :
          /\ state' = [j \in Jobs |-> IF j = at[w] THEN "completed"
                                      ELSE IF j \in next THEN "active" ELSE state[j]]
          /\ old' = [j \in Jobs |-> old[j] /\ j \notin next]
          /\ Leave(w, [j \in Jobs |-> IF j = at[w] THEN Free
                                      ELSE IF j \in next THEN w ELSE lock[j]])
    BY DEF Return
  <1>2. [j \in Jobs |-> IF j = at[w] THEN Free ELSE IF j \in next THEN w ELSE lock[j]]
          \in [Jobs -> Workers \cup {Free, Stale}]
    BY DEF QueueTyped, LockTyped
  <1>3. ProcTyped' /\ VerdictTyped' /\ LockTyped'
    BY <1>1, <1>2, LeaveTyped
  <1>4. old' \in [Jobs -> BOOLEAN]
    BY <1>1, Zenon
  <1>5. state' \in [Jobs -> States]
    BY <1>1 DEF QueueTyped, States, Ended
  <1> QED  BY <1>3, <1>4, <1>5, FaultsStayTyped DEF Return, QueueTyped

LEMMA EndTyped ==
  ASSUME TypeOK, NEW w \in Workers, Rethrow(w) \/ Discard(w) \/ Crash(w)
  PROVE  TypeOK'
  <1> USE Typed, TypedNext, Bounds
  <1>1. CASE Rethrow(w)
    <2>1. state' \in [Jobs -> States]
      BY <1>1 DEF Rethrow, QueueTyped, States, Ended
    <2> QED  BY <1>1, <2>1, GoesOnTyped, UnlockedTyped DEF Rethrow, LockTyped, QueueTyped
  <1>2. CASE Discard(w)
    BY <1>2, GoesOnTyped, UnlockedTyped DEF Discard, LockTyped, QueueTyped
  <1>3. CASE Crash(w)
    <2>1. ProcTyped' /\ VerdictTyped' /\ LockTyped'
      BY <1>3, LeaveTyped DEF Crash, QueueTyped, LockTyped
    <2>2. calm' \in BOOLEAN
      BY <1>3, Zenon DEF Crash, FaultsTyped
    <2>3. faults' \in 0..MaxFaults
      BY <1>3 DEF Crash, FaultsTyped
    <2> QED  BY <1>3, <2>1, <2>2, <2>3 DEF Crash, QueueTyped, FaultsTyped
  <1> QED  BY <1>1, <1>2, <1>3

-----------------------------------------------------------------------------
LEMMA CategoryTyped ==
  ASSUME NEW j \in Jobs, QueueTyped
  PROVE  Category(j) \in {"complete", "fail", "retry"}
  BY DEF QueueTyped, Category

LEMMA JudgedTyped ==
  ASSUME QueueTyped
  PROVE  Judged \in SUBSET (Jobs \X Verdicts)
  BY CategoryTyped DEF Judged, Verdicts

LEMMA ReplacedTyped ==
  ASSUME VerdictTyped, NEW w \in Workers, NEW v,
         NEW by \in SUBSET (Jobs \X Verdicts), verdict' = Replaced(w, v, by)
  PROVE  VerdictTyped'
  BY DEF VerdictTyped, Replaced

LEMMA ExecuteTyped ==
  ASSUME TypeOK, NEW w \in Workers, Execute(w)
  PROVE  TypeOK'
  <1> USE Typed, TypedNext, Bounds
  <1>1. PICK v \in verdict[w] :
          Complete(w, v) \/ Fail(w, v) \/ Retry(w, v) \/ HandleStalled(w, v)
    BY DEF Execute
  <1>2. v \in Jobs \X Verdicts /\ v[1] \in Jobs
    BY DEF VerdictTyped
  <1>3. /\ state' \in [Jobs -> States]
        /\ \E by \in SUBSET (Jobs \X Verdicts) : verdict' = Replaced(w, v, by)
        /\ NoMishap \/ Mishap
    <2>1. CASE Complete(w, v)
      BY <2>1, <1>2 DEF Complete, Move, QueueTyped, States, Ended
    <2>2. CASE Fail(w, v)
      BY <2>2, <1>2 DEF Fail, Move, QueueTyped, States, Ended
    <2>3. CASE Retry(w, v)
      <3>1. {<<v[1], "requeue">>} \in SUBSET (Jobs \X Verdicts)
        BY <1>2 DEF Verdicts
      <3> QED  BY <2>3, <3>1, <1>2 DEF Retry, Move, QueueTyped, States, Ended
    <2>4. CASE HandleStalled(w, v)
      <3>1. /\ {<<v[1], "complete">>} \in SUBSET (Jobs \X Verdicts)
            /\ {<<v[1], "fail">>} \in SUBSET (Jobs \X Verdicts)
        BY <1>2 DEF Verdicts
      <3> QED  BY <2>4, <3>1 DEF HandleStalled, QueueTyped
    <2> QED  BY <1>1, <2>1, <2>2, <2>3, <2>4
  <1>4. VerdictTyped'
    BY <1>3, ReplacedTyped
  <1> QED
    BY <1>3, <1>4, FaultsStayTyped DEF Execute, QueueTyped, ProcTyped, LockTyped, proc

LEMMA JudgeTyped ==
  ASSUME TypeOK, NEW w \in Workers,
         \/ Start(w) \/ StartBeside(w) \/ Run(w)
         \/ \E j \in Jobs : Check(w, j) \/ Stall(w, j)
  PROVE  TypeOK'
  <1> USE Typed, TypedNext, Bounds
  <1> USE DEF queue, proc, QueueTyped, LockTyped
  <1>1. CASE Start(w) \/ StartBeside(w)
    <2>1. ProcTyped'
      BY <1>1, GotoTyped DEF Start, StartBeside, Pcs, Running
    <2>2. VerdictTyped'
      BY <1>1, JudgedTyped DEF Start, StartBeside, VerdictTyped
    <2> QED  BY <1>1, <2>1, <2>2, FaultsStayTyped DEF Start, StartBeside
  <1>2. CASE Run(w)
    <2>1. ProcTyped'
      BY <1>2, GotoTyped DEF Run, Pcs, Running
    <2> QED  BY <1>2, <2>1, FaultsStayTyped DEF Run, VerdictTyped
  <1>3. ASSUME NEW j \in Jobs, Check(w, j)
        PROVE  TypeOK'
    <2>1. VerdictTyped'
      BY <1>3 DEF Check, VerdictTyped, Verdicts
    <2> QED  BY <1>3, <2>1, FaultsStayTyped DEF Check, ProcTyped
  <1>4. ASSUME NEW j \in Jobs, Stall(w, j)
        PROVE  TypeOK'
    <2>1. VerdictTyped'
      BY <1>4 DEF Stall, VerdictTyped, Verdicts
    <2>2. state' \in [Jobs -> States]
      BY <1>4 DEF Stall, States, Ended
    <2> QED  BY <1>4, <2>1, <2>2, FaultsStayTyped DEF Stall, ProcTyped
  <1> QED  BY <1>1, <1>2, <1>3, <1>4

LEMMA TimeTyped ==
  ASSUME TypeOK, NEW j \in Jobs, Add(j) \/ Lapse(j) \/ Age(j)
  PROVE  TypeOK'
  <1> USE Typed, TypedNext, Bounds
  <1>1. old' \in [Jobs -> BOOLEAN]
    BY Zenon DEF Add, Lapse, Age, QueueTyped
  <1>2. state' \in [Jobs -> States] /\ LockTyped'
    BY DEF Add, Lapse, Age, QueueTyped, LockTyped, States
  <1> QED
    BY <1>1, <1>2, FaultsStayTyped
    DEF Add, Lapse, Age, QueueTyped, ProcTyped, VerdictTyped, proc

LEMMA TypingStep == TypeOK /\ [Next]_vars => TypeOK'
  <1> SUFFICES ASSUME TypeOK, [Next]_vars PROVE TypeOK'
    OBVIOUS
  <1>1. ASSUME NEW w \in Workers, WorkerStep(w) PROVE TypeOK'
    BY <1>1, RunTyped, TakeTyped, ReturnTyped, EndTyped, ExecuteTyped, JudgeTyped
    DEF WorkerStep, RunStep
  <1>2. CASE UNCHANGED vars
    BY <1>2 DEF TypeOK, vars, queue, proc, Running, Ended, Verdicts
  <1> QED  BY <1>1, <1>2, TimeTyped DEF Next

(* The variables keep their types, whatever becomes of jobs and processes.  *)
THEOREM Typing == Spec => []TypeOK
  <1>1. Init => TypeOK
    BY Bounds DEF Init, TypeOK, Running, Verdicts
  <1> QED  BY <1>1, TypingStep, PTL DEF Spec

-----------------------------------------------------------------------------
(* A completed job was stored *)

(* Whoever completes a job, or is about to, has it stored: a run that is    *)
(* past the phases that save, a judge that has read their progress.         *)
IStored ==
  /\ CompletedMeansStored
  /\ \A j \in Jobs : progress[j] = "saved" => reached[j] = "stored"
  /\ \A w \in Workers : pc[w] \in {"embed", "return"} => reached[at[w]] = "stored"
  /\ \A w \in Workers : \A v \in verdict[w] : v[2] = "complete" => reached[v[1]] = "stored"

LEMMA StoredByRun ==
  ASSUME TypeOK, IStored, NEW w \in Workers,
         Begin(w) \/ Ingest(w) \/ Phases(w) \/ Embed(w) \/ Throw(w)
  PROVE  IStored'
  <1> USE Typed
  <1>1. at[w] \in Jobs
    BY RunJob DEF Begin, Ingest, Phases, Embed, Throw, Running
  <1>2. \A j \in Jobs : reached[j] = "stored" => reached'[j] = "stored"
    BY <1>1 DEF Begin, Ingest, Phases, Embed, Throw, QueueTyped
  <1>3. \A j \in Jobs : progress'[j] = "saved" => reached'[j] = "stored"
    BY <1>1, <1>2 DEF IStored, Begin, Ingest, Phases, Embed, Throw, Report, QueueTyped
  <1>4. \A v \in Workers : pc'[v] \in {"embed", "return"} => reached'[at'[v]] = "stored"
    <2> SUFFICES ASSUME NEW v \in Workers, pc'[v] \in {"embed", "return"}
                 PROVE  reached'[at'[v]] = "stored"
      OBVIOUS
    <2>1. CASE v = w
      BY <2>1, <1>1, <1>2 DEF IStored, Begin, Ingest, Phases, Embed, Throw, Goto, ProcTyped,
         QueueTyped
    <2>2. CASE v # w
      <3>1. pc[v] \in {"embed", "return"} /\ at'[v] = at[v]
        BY <2>2 DEF Begin, Ingest, Phases, Embed, Throw, Goto, ProcTyped
      <3> QED  BY <3>1, <1>2, RunJob DEF IStored, Running
    <2> QED  BY <2>1, <2>2
  <1>5. RunUnchanged
    BY DEF Begin, Ingest, Phases, Embed, Throw
  <1> QED
    BY <1>2, <1>3, <1>4, <1>5 DEF IStored, CompletedMeansStored, RunUnchanged, VerdictTyped

LEMMA StoredByTakeAndEnd ==
  ASSUME TypeOK, IStored, NEW w \in Workers,
         \/ \E j \in Jobs : Take(w, j)
         \/ Return(w) \/ Rethrow(w) \/ Discard(w) \/ Crash(w)
  PROVE  IStored'
  <1> USE Typed
  <1>1. UNCHANGED <<progress, reached>>
    BY DEF Take, Return, Rethrow, Discard, Crash, GoesOn
  <1>2. CompletedMeansStored'
    <2>1. CASE Return(w)
      BY <2>1 DEF Return, IStored, CompletedMeansStored, QueueTyped
    <2> QED
      BY <2>1, <1>1 DEF Take, Rethrow, Discard, Crash, IStored, CompletedMeansStored, QueueTyped
  <1>3. \A v \in Workers : pc'[v] \in {"embed", "return"} => pc'[v] = pc[v] /\ at'[v] = at[v]
    BY DEF Take, Return, Rethrow, Discard, Crash, GoesOn, Leave, ProcTyped
  <1>4. \A v \in Workers : verdict'[v] \in SUBSET verdict[v]
    BY DEF Take, Return, Rethrow, Discard, Crash, GoesOn, Leave, VerdictTyped
  <1> QED  BY <1>1, <1>2, <1>3, <1>4 DEF IStored

LEMMA StoredByJudge ==
  ASSUME TypeOK, IStored, NEW w \in Workers,
         \/ Start(w) \/ StartBeside(w) \/ Run(w)
         \/ \E j \in Jobs : Check(w, j) \/ Stall(w, j)
  PROVE  IStored'
  <1> USE Typed
  <1>1. UNCHANGED <<progress, reached>>
    BY DEF Start, StartBeside, Run, Check, Stall, queue
  <1>2. CompletedMeansStored'
    BY <1>1 DEF Start, StartBeside, Run, Check, Stall, queue, IStored, CompletedMeansStored,
       QueueTyped
  <1>3. \A v \in Workers : pc'[v] \in {"embed", "return"} => pc'[v] = pc[v] /\ at'[v] = at[v]
    BY DEF Start, StartBeside, Run, Check, Stall, Goto, ProcTyped, proc
  <1>4. \A j \in Jobs : Category(j) = "complete" => reached[j] = "stored"
    BY DEF Category, IStored, QueueTyped
  <1>5. \A v \in Workers : \A x \in verdict'[v] :
          x \in verdict[v] \/ (x[2] = "complete" => reached[x[1]] = "stored")
    <2>1. CASE Start(w) \/ StartBeside(w) \/ Run(w)
      BY <2>1, <1>4 DEF Start, StartBeside, Run, Judged, VerdictTyped
    <2>2. ASSUME NEW j \in Jobs, Check(w, j) \/ Stall(w, j)
          PROVE  \A v \in Workers : \A x \in verdict'[v] :
                   x \in verdict[v] \/ (x[2] = "complete" => reached[x[1]] = "stored")
      BY <2>2, <1>4 DEF Check, Stall, VerdictTyped
    <2> QED  BY <2>1, <2>2
  <1> QED  BY <1>1, <1>2, <1>3, <1>5 DEF IStored

LEMMA StoredByExecute ==
  ASSUME TypeOK, IStored, NEW w \in Workers, Execute(w)
  PROVE  IStored'
  <1> USE Typed
  <1>1. PICK v \in verdict[w] :
          Complete(w, v) \/ Fail(w, v) \/ Retry(w, v) \/ HandleStalled(w, v)
    BY DEF Execute
  <1>2. v[1] \in Jobs
    BY DEF VerdictTyped
  <1>3. UNCHANGED <<progress, reached, pc, at>>
    BY DEF Execute, proc
  <1>4. CompletedMeansStored'
    BY <1>1, <1>2, <1>3
    DEF Complete, Fail, Retry, HandleStalled, Move, IStored, CompletedMeansStored, QueueTyped
  <1>5. \E by : /\ verdict' = Replaced(w, v, by)
                /\ \A x \in by : x[2] = "complete" => reached[x[1]] = "stored"
    <2>1. Category(v[1]) = "complete" => reached[v[1]] = "stored"
      BY <1>2 DEF Category, IStored, QueueTyped
    <2> QED  BY <1>1, <2>1 DEF Complete, Fail, Retry, HandleStalled, Move
  <1>6. \A u \in Workers : \A x \in verdict'[u] : x[2] = "complete" => reached[x[1]] = "stored"
    BY <1>5 DEF Replaced, IStored, VerdictTyped
  <1> QED  BY <1>3, <1>4, <1>6 DEF IStored

LEMMA StoredByTime ==
  ASSUME TypeOK, IStored, NEW j \in Jobs, Add(j) \/ Lapse(j) \/ Age(j)
  PROVE  IStored'
  BY Typed DEF Add, Lapse, Age, IStored, CompletedMeansStored, QueueTyped, proc

LEMMA StoredStep == TypeOK /\ IStored /\ [Next]_vars => IStored'
  <1> SUFFICES ASSUME TypeOK, IStored, [Next]_vars PROVE IStored'
    OBVIOUS
  <1>1. ASSUME NEW w \in Workers, WorkerStep(w) PROVE IStored'
    BY <1>1, StoredByRun, StoredByTakeAndEnd, StoredByJudge, StoredByExecute
    DEF WorkerStep, RunStep
  <1>2. CASE UNCHANGED vars
    BY <1>2 DEF IStored, CompletedMeansStored, vars, queue, proc
  <1> QED  BY <1>1, <1>2, StoredByTime DEF Next

(* No job is called completed that was not stored: not by a run whose job   *)
(* was taken away, nor by a recovery that reads the progress of a run that  *)
(* is gone.                                                                 *)
THEOREM Completion == Spec => []CompletedMeansStored
  <1>1. Init => IStored
    BY DEF Init, IStored, CompletedMeansStored
  <1>2. IStored => CompletedMeansStored
    BY DEF IStored
  <1> QED  BY <1>1, <1>2, Typing, StoredStep, PTL DEF Spec

-----------------------------------------------------------------------------
(* Until the first mishap *)

IReached ==
  /\ \A j \in Jobs : progress[j] # "none" => reached[j] # "nothing"
  /\ \A w \in Workers : pc[w] \in Running \ {"begin"} => reached[at[w]] # "nothing"

Alone == \A v, w \in Workers : pc[v] # "off" /\ pc[w] # "off" => v = w

(* A recovery has every active job on its list, and fails only those that   *)
(* had begun.                                                               *)
Recovering(w) ==
  pc[w] = "recover" =>
    /\ \A j \in Jobs : state[j] = "active" =>
         \E v \in verdict[w] : v[1] = j /\ v[2] \in {"complete", "fail", "retry"}
    /\ \A v \in verdict[w] : /\ v[2] \in {"complete", "fail", "retry", "requeue"}
                             /\ v[2] = "fail" => reached[v[1]] # "nothing"

(* After it the only active job is the one that runs, with its lock, and    *)
(* who is still to be judged is over or has run for too long.               *)
Serving(w) ==
  pc[w] \notin {"off", "recover"} =>
    /\ \A j \in Jobs : state[j] = "active" => at[w] = j /\ lock[j] = w
    /\ \A v \in verdict[w] :
         /\ v[2] \in {"complete", "fail"}
         /\ state[v[1]] \in Ended \/ (at[w] = v[1] /\ old[v[1]])
    /\ pc[w] \in Running =>
         state[at[w]] = "active" \/ (state[at[w]] \in Ended /\ old[at[w]])

ICalm ==
  calm => /\ Alone
          /\ \A w \in Workers : /\ pc[w] = "off" => verdict[w] = {}
                                /\ Recovering(w) /\ Serving(w)
          /\ NeverFailedUnrun

LEMMA ReachedStays ==
  ASSUME TypeOK, IReached, [Next]_vars
  PROVE  IReached'
  <1> USE Typed
  <1>1. ASSUME NEW w \in Workers,
               Begin(w) \/ Ingest(w) \/ Phases(w) \/ Embed(w) \/ Throw(w)
        PROVE  IReached'
    <2>1. at[w] \in Jobs
      BY <1>1, RunJob DEF Begin, Ingest, Phases, Embed, Throw, Running
    <2>2. \A j \in Jobs : reached[j] # "nothing" => reached'[j] # "nothing"
      BY <1>1, <2>1 DEF Begin, Ingest, Phases, Embed, Throw, QueueTyped
    <2>3. reached'[at[w]] # "nothing"
      BY <1>1, <2>1, <2>2
      DEF Begin, Ingest, Phases, Embed, Throw, QueueTyped, IReached, Running
    <2>4. \A j \in Jobs : progress'[j] # "none" => reached'[j] # "nothing"
      BY <1>1, <2>1, <2>2, <2>3
      DEF IReached, Begin, Ingest, Phases, Embed, Throw, Report, QueueTyped
    <2>5. UNCHANGED at /\ \A v \in Workers : v # w => pc'[v] = pc[v]
      BY <1>1 DEF Begin, Ingest, Phases, Embed, Throw, Goto, ProcTyped
    <2>6. \A v \in Workers : pc[v] \in Running => at[v] \in Jobs
      BY RunJob
    <2> QED  BY <2>2, <2>3, <2>4, <2>5, <2>6 DEF IReached
  <1>2. ASSUME UNCHANGED <<progress, reached>>,
               \A v \in Workers : pc'[v] \in Running \ {"begin"} =>
                                   pc[v] \in Running \ {"begin"} /\ at'[v] = at[v]
        PROVE  IReached'
    BY <1>2 DEF IReached
  <1>3. ASSUME NEW w \in Workers, NEW j \in Jobs, Take(w, j)
        PROVE  IReached'
    BY <1>2, <1>3 DEF Take, ProcTyped
  <1>4. ASSUME NEW w \in Workers, Return(w) \/ Rethrow(w) \/ Discard(w) \/ Crash(w)
        PROVE  IReached'
    BY <1>2, <1>4 DEF Return, Rethrow, Discard, Crash, GoesOn, Leave, ProcTyped, Running
  <1>5. ASSUME NEW w \in Workers, Start(w) \/ StartBeside(w) \/ Run(w) \/ Execute(w)
        PROVE  IReached'
    BY <1>2, <1>5 DEF Start, StartBeside, Run, Execute, Goto, ProcTyped, Running, queue, proc
  <1>6. ASSUME NEW w \in Workers, NEW j \in Jobs, Check(w, j) \/ Stall(w, j)
        PROVE  IReached'
    BY <1>2, <1>6 DEF Check, Stall, queue, proc
  <1>7. ASSUME NEW j \in Jobs, Add(j) \/ Lapse(j) \/ Age(j)
        PROVE  IReached'
    BY <1>2, <1>7 DEF Add, Lapse, Age, proc
  <1>8. CASE UNCHANGED vars
    BY <1>2, <1>8 DEF vars, queue, proc
  <1> QED
    BY <1>1, <1>3, <1>4, <1>5, <1>6, <1>7, <1>8 DEF Next, WorkerStep, RunStep

LEMMA CalmBefore ==
  ASSUME FaultsTyped, [Next]_vars, calm'
  PROVE  calm
  <1>1. ASSUME NEW w \in Workers, Crash(w) PROVE calm
    BY <1>1, Zenon DEF Crash
  <1>2. NoMishap \/ Mishap \/ UNCHANGED vars \/ \E w \in Workers : Crash(w)
    BY DEF Next, WorkerStep, RunStep, Begin, Ingest, Phases, Embed, Throw, RunUnchanged, Take,
       Return, Rethrow, Discard, GoesOn, Start, StartBeside, Run, Check, Stall, Execute, Complete,
       Fail, Retry, HandleStalled, Move, Add, Lapse, Age
  <1>3. ~Mishap
    BY Zenon DEF Mishap
  <1> QED  BY <1>1, <1>2, <1>3, Zenon DEF NoMishap, vars

(* A step of the only process. *)
LEMMA CalmByOne ==
  ASSUME TypeOK, ICalm, calm, NEW w \in Workers, pc[w] # "off",
         \A v \in Workers : v # w => pc'[v] = pc[v] /\ verdict'[v] = verdict[v],
         pc'[w] = "off" => verdict'[w] = {},
         Recovering(w)', Serving(w)', NeverFailedUnrun'
  PROVE  ICalm'
  <1>1. \A v \in Workers : v # w => pc'[v] = "off" /\ verdict'[v] = {}
    BY DEF ICalm, Alone
  <1> QED  BY <1>1 DEF ICalm, Alone, Recovering, Serving

LEMMA CalmByRun ==
  ASSUME TypeOK, ICalm, calm, NEW w \in Workers,
         Begin(w) \/ Ingest(w) \/ Phases(w) \/ Embed(w) \/ Throw(w)
  PROVE  ICalm'
  <1> USE Typed
  <1>1. /\ UNCHANGED <<state, lock, old, verdict, at>>
        /\ pc[w] \in Running /\ pc'[w] \in Running
        /\ \A v \in Workers : v # w => pc'[v] = pc[v]
    BY DEF Begin, Ingest, Phases, Embed, Throw, Goto, RunUnchanged, ProcTyped, Running
  <1>2. \A j \in Jobs : reached[j] # "nothing" => reached'[j] # "nothing"
    BY RunJob DEF Begin, Ingest, Phases, Embed, Throw, QueueTyped, Running
  <1>3. NeverFailedUnrun'
    BY <1>1, <1>2 DEF NeverFailedUnrun, Settled, ICalm
  <1>4. Recovering(w)' /\ Serving(w)'
    BY <1>1 DEF ICalm, Recovering, Serving, Running
  <1> QED  BY <1>1, <1>3, <1>4, CalmByOne DEF Running

LEMMA CalmByTake ==
  ASSUME TypeOK, ICalm, calm, NEW w \in Workers, NEW j \in Jobs, Take(w, j)
  PROVE  ICalm'
  <1> USE Typed, Bounds
  <1>1. /\ pc[w] = "idle" /\ at[w] = NoJob /\ Serving(w)
        /\ \A i \in Jobs : state[i] # "active"
    BY DEF Take, ProcTyped, Running, ICalm, Serving
  <1>2. /\ UNCHANGED <<reached, verdict>>
        /\ pc'[w] = "begin" /\ at'[w] = j
        /\ \A v \in Workers : v # w => pc'[v] = pc[v]
        /\ \A i \in Jobs : i # j => state'[i] = state[i] /\ old'[i] = old[i]
        /\ state[j] = "waiting" /\ state'[j] = "active" /\ lock'[j] = w
    BY DEF Take, QueueTyped, LockTyped, ProcTyped
  <1>3. NeverFailedUnrun'
    BY <1>2 DEF NeverFailedUnrun, Settled, ICalm, Ended
  <1>4. \A v \in verdict[w] : v[1] \in Jobs
    BY DEF VerdictTyped
  <1>5. Recovering(w)' /\ Serving(w)'
    BY <1>1, <1>2, <1>4 DEF Recovering, Serving, Ended, Running
  <1> QED  BY <1>1, <1>2, <1>3, <1>5, CalmByOne

LEMMA CalmByLeave ==
  ASSUME TypeOK, IStored, ICalm, calm, NEW w \in Workers, Return(w) \/ Crash(w), calm'
  PROVE  ICalm'
  <1> USE Typed
  <1>1. /\ pc[w] \notin {"off", "recover"}
        /\ pc'[w] = "off" /\ verdict'[w] = {} /\ UNCHANGED reached
        /\ \A v \in Workers : v # w => pc'[v] = pc[v] /\ verdict'[v] = verdict[v]
    <2>1. CASE Return(w)
      BY <2>1 DEF Return, Leave, ProcTyped, VerdictTyped
    <2>2. CASE Crash(w)
      <3>1. pc[w] # "recover"
        BY <2>2, Zenon DEF Crash
      <3> QED  BY <2>2, <3>1 DEF Crash, Leave, ProcTyped, VerdictTyped
    <2> QED  BY <2>1, <2>2
  <1>2. \A v \in Workers : \A x \in verdict[v] : x[2] # "requeue"
    BY <1>1 DEF ICalm, Alone, Serving
  <1>3. NeverFailedUnrun'
    <2>1. CASE Crash(w)
      BY <1>1, <1>2, <2>1 DEF Crash, NeverFailedUnrun, Settled, ICalm
    <2>2. CASE Return(w)
      <3>1. at[w] \in Jobs /\ reached[at[w]] = "stored"
        BY <2>2, RunJob DEF Return, IStored, Running
      <3>2. \A j \in Jobs : state'[j] \in Ended =>
              j = at[w] \/ (state[j] \in Ended /\ (old[j] => old'[j]))
        BY <2>2 DEF Return, QueueTyped, Ended
      <3> QED  BY <1>1, <1>2, <3>1, <3>2 DEF NeverFailedUnrun, Settled, ICalm
    <2> QED  BY <2>1, <2>2
  <1>4. Recovering(w)' /\ Serving(w)'
    BY <1>1 DEF Recovering, Serving
  <1> QED  BY <1>1, <1>3, <1>4, CalmByOne

LEMMA CalmByEnd ==
  ASSUME TypeOK, IReached, ICalm, calm, NEW w \in Workers, Rethrow(w) \/ Discard(w)
  PROVE  ICalm'
  <1> USE Typed, Bounds
  <1>1. /\ pc[w] \in {"return", "rethrow"} /\ at[w] \in Jobs /\ Serving(w)
        /\ pc'[w] = "idle" /\ at'[w] = NoJob /\ UNCHANGED <<reached, verdict, old>>
        /\ \A v \in Workers : v # w => pc'[v] = pc[v]
    BY RunJob DEF Rethrow, Discard, GoesOn, ProcTyped, Running, ICalm
  <1>2. /\ state'[at[w]] \in Ended
        /\ \A j \in Jobs : j # at[w] => state'[j] = state[j]
        /\ \A j \in Jobs : state'[j] # "active"
    BY <1>1 DEF Rethrow, Discard, Holds, Serving, QueueTyped, Ended, Running
  <1>3. reached[at[w]] # "nothing"
    BY <1>1 DEF IReached, Running
  <1>4. NeverFailedUnrun'
    BY <1>1, <1>2, <1>3 DEF NeverFailedUnrun, Settled, ICalm
  <1>5. \A v \in verdict[w] : v[1] \in Jobs
    BY DEF VerdictTyped
  <1>6. Recovering(w)' /\ Serving(w)'
    BY <1>1, <1>2, <1>5 DEF Recovering, Serving, Running
  <1> QED  BY <1>1, <1>4, <1>6, CalmByOne

LEMMA CalmByStart ==
  ASSUME TypeOK, IReached, ICalm, calm, calm', NEW w \in Workers, Start(w)
  PROVE  ICalm'
  <1> USE Typed
  <1>1. verdict' = [verdict EXCEPT ![w] = Judged]
    BY Zenon DEF Start, Mishap
  <1>2. /\ UNCHANGED <<state, reached, old>>
        /\ pc'[w] = "recover" /\ verdict'[w] = Judged
        /\ \A v \in Workers : v # w => pc'[v] = "off" /\ verdict'[v] = {}
        /\ \A v \in Workers : verdict[v] = {}
    BY <1>1 DEF Start, Goto, ProcTyped, VerdictTyped, queue, ICalm
  <1>3. \A j \in Jobs : /\ Category(j) \in {"complete", "fail", "retry"}
                        /\ Category(j) = "fail" => reached[j] # "nothing"
    BY DEF Category, QueueTyped, IReached
  <1>4. Recovering(w)'
    <2>1. \A j \in Jobs : state[j] = "active" => <<j, Category(j)>> \in Judged
      BY DEF Judged
    <2>2. \A v \in Judged : v[1] \in Jobs /\ v[2] = Category(v[1])
      BY DEF Judged
    <2> QED  BY <1>2, <1>3, <2>1, <2>2 DEF Recovering
  <1>5. NeverFailedUnrun'
    BY <1>2 DEF NeverFailedUnrun, Settled, ICalm
  <1> QED  BY <1>2, <1>4, <1>5 DEF ICalm, Alone, Recovering, Serving

LEMMA CalmByJudge ==
  ASSUME TypeOK, ICalm, calm, NEW w \in Workers,
         Run(w) \/ \E j \in Jobs : Check(w, j) \/ Stall(w, j)
  PROVE  ICalm'
  <1> USE Typed, Bounds
  <1>1. CASE Run(w)
    <2>1. /\ Recovering(w) /\ pc[w] = "recover" /\ verdict[w] = {}
          /\ \A v \in Workers : v # w => pc'[v] = pc[v]
          /\ pc'[w] = "idle" /\ UNCHANGED <<state, lock, old, reached, verdict>>
      BY <1>1 DEF Run, Goto, ProcTyped, queue, ICalm
    <2>2. NeverFailedUnrun'
      BY <2>1 DEF NeverFailedUnrun, Settled, ICalm
    <2>3. Recovering(w)' /\ Serving(w)'
      BY <2>1 DEF Recovering, Serving, Running
    <2> QED  BY <2>1, <2>2, <2>3, CalmByOne
  <1>2. ASSUME NEW j \in Jobs, Check(w, j)
        PROVE  ICalm'
    <2>1. /\ pc[w] \notin {"off", "recover"} /\ Serving(w)
          /\ at[w] = j /\ old[j]
          /\ UNCHANGED <<state, lock, old, reached, pc, at>>
          /\ \A v \in Workers : v # w => verdict'[v] = verdict[v]
          /\ \A v \in verdict'[w] :
               v \in verdict[w] \/ (v[1] = j /\ v[2] \in {"complete", "fail"})
      BY <1>2 DEF Check, CanJudge, Orphaned, queue, proc, ICalm, Serving, VerdictTyped
    <2>2. NeverFailedUnrun'
      <3>1. \A v \in Workers : verdict[v] \subseteq verdict'[v]
        BY <1>2 DEF Check, VerdictTyped
      <3> QED  BY <2>1, <3>1 DEF NeverFailedUnrun, Settled, ICalm
    <2>3. Recovering(w)' /\ Serving(w)'
      BY <2>1 DEF Recovering, Serving, Running
    <2> QED  BY <2>1, <2>2, <2>3, CalmByOne
  <1>3. ASSUME NEW j \in Jobs, Stall(w, j)
        PROVE  FALSE
    BY <1>3, PageJobAssumption DEF Stall, CanJudge, ICalm, Serving
  <1> QED  BY <1>1, <1>2, <1>3

LEMMA CalmByExecute ==
  ASSUME TypeOK, IStored, ICalm, calm, calm', NEW w \in Workers, Execute(w)
  PROVE  ICalm'
  <1> USE Typed
  <1>1. PICK v \in verdict[w] :
          Complete(w, v) \/ Fail(w, v) \/ Retry(w, v) \/ HandleStalled(w, v)
    BY DEF Execute
  <1>2. /\ v[1] \in Jobs /\ pc[w] # "off"
        /\ UNCHANGED <<lock, old, reached, pc, at>>
        /\ Recovering(w) /\ Serving(w)
    BY <1>1 DEF Execute, proc, VerdictTyped, ICalm
  <1>3. ~Mishap
    BY Zenon DEF Mishap
  <1>4. /\ \A j \in Jobs : j # v[1] => state'[j] = state[j]
        /\ \A x \in verdict[w] : x \in verdict'[w] \/ x = v
        /\ \A u \in Workers : u # w => verdict'[u] = verdict[u]
    BY <1>1, <1>2, <1>3
    DEF Complete, Fail, Retry, HandleStalled, Move, Replaced, QueueTyped, VerdictTyped
  <1>5. CASE v[2] \in {"complete", "fail"}
    <2>1. /\ state'[v[1]] # "active" /\ verdict'[w] = verdict[w] \ {v}
          /\ state'[v[1]] = state[v[1]]
               \/ (state[v[1]] = "active" /\ state'[v[1]] \in Ended)
      BY <1>1, <1>2, <1>3, <1>5
      DEF Complete, Fail, Retry, HandleStalled, Move, Replaced, QueueTyped, VerdictTyped, Ended
    <2>2. state[v[1]] = "active" => reached[v[1]] # "nothing" \/ old[v[1]]
      BY <1>1, <1>2, <1>5 DEF Recovering, Serving, IStored, Ended
    <2>3. NeverFailedUnrun'
      BY <1>2, <1>4, <1>5, <2>1, <2>2 DEF NeverFailedUnrun, Settled, ICalm, Ended
    <2>4. Recovering(w)'
      BY <1>2, <1>4, <2>1 DEF Recovering
    <2>5. \A x \in verdict[w] : x[1] \in Jobs
      BY DEF VerdictTyped
    <2>6. Serving(w)'
      <3> SUFFICES ASSUME pc[w] \notin {"off", "recover"}
                   PROVE  Serving(w)'
        BY <1>2 DEF Serving
      <3>1. \A j \in Jobs : state'[j] = "active" => at'[w] = j /\ lock'[j] = w
        BY <1>2, <1>4, <2>1 DEF Serving
      <3>2. \A x \in verdict'[w] :
             /\ x[2] \in {"complete", "fail"}
             /\ state'[x[1]] \in Ended \/ (at[w] = x[1] /\ old[x[1]])
        BY <1>2, <1>4, <2>1, <2>5 DEF Serving
      <3>3. pc[w] \in Running =>
              state'[at[w]] = "active" \/ (state'[at[w]] \in Ended /\ old[at[w]])
        BY <1>1, <1>2, <1>4, <2>1, RunJob DEF Serving, Ended
      <3> QED  BY <1>2, <3>1, <3>2, <3>3 DEF Serving
    <2> QED  BY <1>2, <1>4, <2>3, <2>4, <2>6, CalmByOne
  <1>6. CASE v[2] \notin {"complete", "fail"}
    <2>1. pc[w] = "recover" /\ v[2] \in {"retry", "requeue"} /\ v = <<v[1], v[2]>>
      BY <1>1, <1>2, <1>6 DEF Recovering, Serving, VerdictTyped
    <2>2. /\ state'[v[1]] # "active"
          /\ \A x \in verdict'[w] : x \in verdict[w] \/ x = <<v[1], "requeue">>
          /\ \/ state'[v[1]] = "failed" /\ <<v[1], "requeue">> \in verdict'[w]
             \/ state'[v[1]] = "waiting"
             \/ state'[v[1]] = state[v[1]] /\ v[2] = "retry"
      BY <1>1, <1>2, <1>3, <2>1
      DEF Complete, Fail, Retry, HandleStalled, Move, Replaced, QueueTyped, VerdictTyped
    <2>3. NeverFailedUnrun'
      BY <1>2, <1>4, <2>1, <2>2 DEF NeverFailedUnrun, Settled, ICalm, Ended
    <2>4. Recovering(w)' /\ Serving(w)'
      BY <1>2, <1>4, <2>1, <2>2 DEF Recovering, Serving
    <2> QED  BY <1>2, <1>4, <2>3, <2>4, CalmByOne
  <1> QED  BY <1>5, <1>6

LEMMA CalmByTime ==
  ASSUME TypeOK, ICalm, calm, NEW j \in Jobs, Add(j) \/ Lapse(j) \/ Age(j), calm'
  PROVE  ICalm'
  <1> USE Typed
  <1>1. ~Mishap
    BY Zenon DEF Mishap
  <1>2. /\ UNCHANGED <<reached, pc, at, verdict>>
        /\ \A i \in Jobs : state'[i] = state[i] \/ (state[i] = "new" /\ state'[i] = "waiting")
        /\ \A i \in Jobs : lock'[i] = lock[i] \/ lock[i] = Stale
        /\ \A i \in Jobs : old[i] => old'[i]
    BY <1>1 DEF Add, Lapse, Age, proc, QueueTyped, LockTyped
  <1>3. \A v \in Workers : /\ \A x \in verdict[v] : x[1] \in Jobs
                           /\ pc[v] \in Running => at[v] \in Jobs
    BY RunJob DEF VerdictTyped
  <1>4. NeverFailedUnrun'
    BY <1>2 DEF NeverFailedUnrun, Settled, ICalm, Ended
  <1>5. ASSUME NEW w \in Workers
        PROVE  Recovering(w)' /\ Serving(w)'
    <2>1. Recovering(w) /\ Serving(w)
      BY DEF ICalm
    <2>2. Recovering(w)'
      BY <1>2, <2>1 DEF Recovering
    <2>3. Serving(w)'
      BY <1>2, <1>3, <2>1, PageJobAssumption DEF Serving, Ended
    <2> QED  BY <2>2, <2>3
  <1> QED  BY <1>2, <1>4, <1>5 DEF ICalm, Alone

LEMMA CalmStays ==
  ASSUME TypeOK, IStored, IReached, ICalm, [Next]_vars
  PROVE  ICalm'
  <1> SUFFICES ASSUME calm' PROVE ICalm'
    BY DEF ICalm
  <1>1. calm
    BY CalmBefore, Typed
  <1>2. ASSUME NEW w \in Workers, StartBeside(w) PROVE FALSE
    BY <1>2, Zenon DEF StartBeside, Mishap
  <1>3. ASSUME NEW w \in Workers, WorkerStep(w) PROVE ICalm'
    BY <1>1, <1>2, <1>3, CalmByRun, CalmByTake, CalmByLeave, CalmByEnd, CalmByStart, CalmByJudge,
       CalmByExecute DEF WorkerStep, RunStep
  <1>4. CASE UNCHANGED vars
    BY <1>4 DEF ICalm, Alone, Recovering, Serving, NeverFailedUnrun, Settled, vars, queue, proc
  <1> QED  BY <1>1, <1>3, <1>4, CalmByTime DEF Next

LEMMA CalmInvariant == Spec => [](TypeOK /\ IStored /\ IReached /\ ICalm)
  <1>1. Init => TypeOK /\ IStored
    BY Bounds DEF Init, TypeOK, IStored, CompletedMeansStored, Running, Verdicts
  <1>2. Init => IReached /\ ICalm
    BY DEF Init, IReached, ICalm, Alone, Recovering, Serving, NeverFailedUnrun, Settled, Running,
       Ended
  <1>3. TypeOK /\ IStored /\ IReached /\ ICalm /\ [Next]_vars => IReached' /\ ICalm'
    BY ReachedStays, CalmStays
  <1> QED  BY <1>1, <1>2, <1>3, TypingStep, StoredStep, PTL DEF Spec

(* Until something goes wrong besides a process that dies, no recovery hits *)
(* a job that runs, unless it has run for longer than lockDuration and the  *)
(* margin.                                                                  *)
THEOREM Ownership == Spec => []RunOwnsJob
  <1>1. TypeOK /\ ICalm => RunOwnsJob
    <2> SUFFICES ASSUME TypeOK, ICalm, calm,
                        NEW w \in Workers, pc[w] \in Running, ~old[at[w]]
                 PROVE  Holds(w)
      BY DEF RunOwnsJob
    <2>1. at[w] \in Jobs /\ Serving(w)
      BY RunJob, Typed DEF ICalm
    <2> QED  BY <2>1 DEF Serving, Holds, Running
  <1> QED  BY <1>1, CalmInvariant, PTL

(* Nor does a job fail that was taken and never begun.                      *)
THEOREM Waiting == Spec => []NeverFailedUnrun
  <1>1. ICalm => NeverFailedUnrun
    BY DEF ICalm, NeverFailedUnrun
  <1> QED  BY <1>1, CalmInvariant, PTL
=============================================================================
