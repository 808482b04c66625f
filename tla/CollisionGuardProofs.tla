------------------------ MODULE CollisionGuardProofs ------------------------
(***************************************************************************)
(* What the collision guard guarantees, for any set of calls, any number   *)
(* of failing commands and any speed of replies.                           *)
(*                                                                         *)
(* The facts that hold as long as jobs stay in the queue are shown step by *)
(* step for steps that remove none; removed never becomes FALSE again.     *)
(***************************************************************************)
EXTENDS CollisionGuard, TLAPS

(* Where a call has decided, its outcome is one it may answer; and no reply *)
(* of an add has come, slow or not, before the add.                         *)
Decided ==
    \A c \in Calls :
        /\ pc[c] = "audit" => outcome[c] \in Outcomes
        /\ pc[c] = "release" => outcome[c] \in Outcomes \cup {"error"}
        /\ pc[c] \in {"idle", "claim", "add"} => ~slow[c]

Typed == TypeOK /\ Decided

(* Retry ids appear only after the canonical job has ended. *)
RetriedAfterEnd ==
    /\ \A c \in Calls : pc[c] = "retry" => job[Canonical] = "ended"
    /\ \A c \in Calls : job[c] # "none" => job[Canonical] = "ended"

(* Calls that have yet to decide: their retry id is unused, and they have  *)
(* created no job, unless the reply of their add was slow.                 *)
Undecided == {"idle", "claim", "add", "state", "retry"} \cup LosersPath
RetryIdUnused == \A c \in Calls : pc[c] \in Undecided => job[c] = "none"
AddedOnce ==
    \A c \in Calls :
        /\ added[c] \in {0, 1} \/ (added[c] = 2 /\ slow[c] /\ job[c] # "none")
        /\ pc[c] \in Undecided \ {"state", "retry"} => added[c] = 0
        /\ pc[c] \in {"state", "retry"} => added[c] = 0 \/ (added[c] = 1 /\ slow[c])
        /\ pc[c] = "state" => job[Canonical] # "none"
        /\ pc[c] = "fallback" \/ (pc[c] = "release" /\ outcome[c] = "error")
             => added[c] = 0 \/ job[Canonical] # "none"

(* Every call under way knows of a job that waits or runs; what it decides  *)
(* with is backed, unless a prompt add met a finished job; and while Redis  *)
(* answers so is what it falls back to.                                     *)
LiveBacks == LiveJobs # {} => \A c \in Calls : Running(c) => backed[c]
JudgedExists ==
    \A c \in Calls : pc[c] \in {"state", "probe"} => job[Canonical] # "none"
Unseen(c) == outcome[c] = "enqueued_new" /\ ~slow[c] /\ job[Canonical] = "ended"
DecisionBacked ==
    \A c \in Calls :
        pc[c] = "audit" \/ (pc[c] = "release" /\ outcome[c] # "error")
            => backed[c] \/ Unseen(c)
FallbackBacked ==
    faults = MaxFaults =>
        \A c \in Calls :
            /\ outcome[c] # "error"
            /\ pc[c] = "fallback" => job[Canonical] = "none" \/ backed[c]
Answered ==
    \A c \in Calls :
        pc[c] = "answered" =>
            \/ backed[c] \/ Unseen(c)
            \/ outcome[c] = "enqueued_fail_open" /\ faults < MaxFaults
Kept == LiveBacks /\ JudgedExists /\ DecisionBacked /\ FallbackBacked /\ Answered

-----------------------------------------------------------------------------
(* What an add can change. *)
LEMMA AddEffect ==
  ASSUME TypeOK, NEW c \in Calls, NEW j \in JobIds, QueueAdd(c, j)
  PROVE  /\ job' \in [JobIds -> JobStates]
         /\ added' \in [Calls -> Nat]
         /\ backed' \in [Calls -> BOOLEAN]
         /\ removed' = removed
         /\ \A d \in Calls : backed[d] => backed'[d]
         /\ \/ /\ job[j] = "none"
               /\ job' = [job EXCEPT ![j] = "waiting"]
               /\ added' = [added EXCEPT ![c] = @ + 1]
               /\ \A d \in Calls : Running(d) => backed'[d]
            \/ job[j] # "none" /\ UNCHANGED queueVars
  <1>1. CASE job[j] # "none" /\ UNCHANGED queueVars
    BY <1>1 DEF TypeOK, queueVars
  <1>2. CASE /\ job[j] = "none"
             /\ job' = [job EXCEPT ![j] = "waiting"]
             /\ added' = [added EXCEPT ![c] = @ + 1]
             /\ backed' = [d \in Calls |-> backed[d] \/ Running(d)]
             /\ UNCHANGED removed
    <2>1. backed' \in [Calls -> BOOLEAN]
          /\ \A d \in Calls : backed[d] \/ Running(d) => backed'[d]
      BY <1>2, Zenon DEF TypeOK, Running
    <2>2. job' \in [JobIds -> JobStates] /\ added' \in [Calls -> Nat]
      BY <1>2 DEF TypeOK, JobStates
    <2> QED
      BY <1>2, <2>1, <2>2
  <1> QED
    BY <1>1, <1>2 DEF QueueAdd

(* Jobs that have been removed stay removed, and no other step removes one. *)
LEMMA NoneRemoved ==
  ASSUME TypeOK, [Next]_vars, ~removed'
  PROVE  ~removed /\ \A j \in JobIds : ~RemoveJob(j)
  <1>1. \A j \in JobIds : ~RemoveJob(j)
    BY DEF RemoveJob
  <1>2. CASE ClaimLapses \/ UNCHANGED vars
    BY <1>2, <1>1 DEF ClaimLapses, vars, queueVars
  <1>3. CASE QueueStep
    BY <1>3, <1>1 DEF QueueStep, StartJob, EndJob
  <1>4. ASSUME NEW c \in Calls, CallStep(c) PROVE removed' = removed
    <2>1. ASSUME NEW j \in JobIds, QueueAdd(c, j) PROVE removed' = removed
      BY <2>1, AddEffect
    <2> QED
      BY <1>4, <2>1 DEF CallStep, Step, Begin, BeginWithoutClient, Claim, AtomicAdd, WinnerState,
         EnqueueRetry, EmitAudit, Release, Lookup, Probe, FailOpen, CallerDies, RedisFails,
         Executed, queueVars, JobIds
  <1> QED
    BY <1>1, <1>2, <1>3, <1>4 DEF Next

LEMMA InitTyped == Init => Typed
  <1> SUFFICES ASSUME Init PROVE Typed
    OBVIOUS
  <1>1. job \in [JobIds -> JobStates]
    <2>1. PICK s \in Incumbents :
            job = [j \in JobIds |-> IF j = Canonical THEN s ELSE "none"]
      BY DEF Init
    <2> QED
      BY <2>1, GuardAssumption DEF JobStates
  <1>2. faults \in 0..MaxFaults
    BY GuardAssumption DEF Init
  <1> QED
    BY <1>1, <1>2, Zenon DEF Init, Typed, TypeOK, Decided

LEMMA StepTyped ==
  ASSUME Typed, [Next]_vars
  PROVE  Typed'
  <1> USE DEF Typed, Decided
  <1> SUFFICES ASSUME Next PROVE Typed'
    BY DEF vars, callVars, queueVars, TypeOK
  <1>1. CASE ClaimLapses
    BY <1>1 DEF ClaimLapses, TypeOK, callVars, queueVars
  <1>2. CASE QueueStep
    <2>1. ASSUME NEW j \in JobIds, StartJob(j) \/ EndJob(j) PROVE Typed'
      BY <2>1 DEF StartJob, EndJob, TypeOK, callVars, JobStates
    <2>2. ASSUME NEW j \in JobIds, RemoveJob(j) PROVE Typed'
      BY <2>2 DEF RemoveJob, TypeOK, callVars, JobStates
    <2> QED
      BY <1>2, <2>1, <2>2 DEF QueueStep
  <1>3. ASSUME NEW c \in Calls, CallStep(c) PROVE Typed'
    <2> USE GuardAssumption
    <2>1. CASE \E m \in JobIds \cup {Nobody} : Begin(c, m) \/ BeginWithoutClient(c, m)
      <3>1. PICK m \in JobIds \cup {Nobody} : Begin(c, m) \/ BeginWithoutClient(c, m)
        BY <2>1
      <3>2. backed' \in [Calls -> BOOLEAN]
        <4>1. backed' = [backed EXCEPT ![c] = LiveJobs # {}]
          BY <3>1 DEF Begin, BeginWithoutClient
        <4>2. (LiveJobs # {}) \in BOOLEAN
          OBVIOUS
        <4> QED
          BY <4>1, <4>2, Zenon DEF TypeOK
      <3>3. pc' \in [Calls -> {"idle"} \cup InProgress \cup Settled]
            /\ pc' = [pc EXCEPT ![c] = pc'[c]] /\ pc'[c] \in {"claim", "fallback"}
        BY <3>1 DEF Begin, BeginWithoutClient, TypeOK, Goto, InProgress
      <3> QED
        BY <3>1, <3>2, <3>3 DEF Begin, BeginWithoutClient, TypeOK
    <2>2. CASE Claim(c)
      BY <2>2 DEF Claim, SetClaim, TypeOK, Goto, InProgress, LosersPath, WinnersPath, queueVars,
         Outcomes
    <2>3. CASE AtomicAdd(c)
      <3>1. slow' \in [Calls -> BOOLEAN]
        BY <2>3 DEF AtomicAdd, TypeOK
      <3>2. /\ pc' \in [Calls -> {"idle"} \cup InProgress \cup Settled]
            /\ outcome' \in [Calls -> Outcomes \cup {"none", "error"}]
            /\ Decided'
            /\ \A d \in Calls : pc'[d] = "answered" => outcome'[d] \in Outcomes
        BY <2>3 DEF AtomicAdd, TypeOK, Goto, Decide, InProgress, WinnersPath, Settled, Outcomes
      <3> QED
        BY <2>3, <3>1, <3>2, AddEffect DEF AtomicAdd, TypeOK, JobIds
    <2>4. CASE WinnerState(c)
      BY <2>4 DEF WinnerState, TypeOK, Goto, Decide, InProgress, WinnersPath, queueVars, Outcomes
    <2>5. CASE EnqueueRetry(c)
      BY <2>5, AddEffect DEF EnqueueRetry, TypeOK, Goto, Decide, InProgress, JobIds, Outcomes
    <2>6. CASE EmitAudit(c)
      BY <2>6 DEF EmitAudit, TypeOK, Goto, InProgress, WinnersPath, Settled, queueVars, Outcomes
    <2>7. CASE Release(c)
      BY <2>7 DEF Release, DeleteClaim, AfterRelease, TypeOK, Goto, InProgress, Settled,
         queueVars, Outcomes
    <2>8. CASE Lookup(c)
      BY <2>8 DEF Lookup, TypeOK, Goto, InProgress, LosersPath, queueVars, Outcomes
    <2>9. CASE Probe(c)
      BY <2>9 DEF Probe, TypeOK, Goto, Decide, InProgress, Settled, queueVars, Outcomes
    <2>10. CASE FailOpen(c)
      BY <2>10, AddEffect DEF FailOpen, TypeOK, Goto, Decide, Settled, JobIds, Outcomes
    <2>11. CASE RedisFails(c)
      <3>1. /\ claim' \in Calls \cup {Nobody}
            /\ job' \in [JobIds -> JobStates]
            /\ removed' \in BOOLEAN
            /\ added' \in [Calls -> Nat]
            /\ backed' \in [Calls -> BOOLEAN]
        BY <2>11, AddEffect DEF RedisFails, Executed, SetClaim, DeleteClaim, TypeOK, JobIds,
           queueVars
      <3>2. /\ pc' \in [Calls -> {"idle"} \cup InProgress \cup Settled]
            /\ outcome' \in [Calls -> Outcomes \cup {"none", "error"}]
            /\ Decided'
            /\ \A d \in Calls : pc'[d] = "answered" => outcome'[d] \in Outcomes
        BY <2>11 DEF RedisFails, Recover, AfterRelease, TypeOK, Goto, Decide, InProgress,
           WinnersPath, Settled, Outcomes
      <3> QED
        BY <2>11, <3>1, <3>2 DEF RedisFails, TypeOK
    <2>12. CASE CallerDies(c)
      BY <2>12 DEF CallerDies, TypeOK, Goto, Settled, queueVars, Outcomes
    <2> QED
      BY <1>3, <2>1, <2>2, <2>3, <2>4, <2>5, <2>6, <2>7, <2>8, <2>9, <2>10, <2>11, <2>12
         DEF CallStep, Step
  <1> QED
    BY <1>1, <1>2, <1>3 DEF Next

(* Types, and that an answer is always one of EnqueueResult's outcomes. *)
THEOREM TypeCorrect == Spec => []TypeOK
  <1>1. Typed /\ [Next]_vars => Typed'
    BY StepTyped
  <1> QED
    BY <1>1, InitTyped, PTL DEF Spec, Typed

-----------------------------------------------------------------------------
(* A step that changes the claim takes a free one, or is its holder's *)
(* release, or its expiry.                                            *)
LEMMA ClaimStep ==
  ASSUME Typed, [Next]_vars, NEW c \in Calls, claim = c, claim' # c
  PROVE  claim' = Nobody /\ (UNCHANGED pc \/ (pc[c] = "release" /\ pc'[c] # "release"))
  <1> USE DEF Typed, TypeOK
  <1>1. CASE ClaimLapses
    BY <1>1 DEF ClaimLapses, callVars
  <1>2. CASE QueueStep
    BY <1>2 DEF QueueStep, StartJob, EndJob, RemoveJob, callVars
  <1>3. CASE UNCHANGED vars
    BY <1>3 DEF vars
  <1>4. ASSUME NEW d \in Calls, CallStep(d)
        PROVE  claim' = Nobody /\ pc[c] = "release" /\ pc'[c] # "release"
    <2>1. ASSUME ~ Release(d), ~ RedisFails(d) PROVE claim' = claim
      BY <1>4, <2>1, GuardAssumption
         DEF CallStep, Step, Begin, BeginWithoutClient, Claim, SetClaim, AtomicAdd, WinnerState,
             EnqueueRetry, EmitAudit, Lookup, Probe, FailOpen, CallerDies
    <2>2. CASE Release(d)
      BY <2>2 DEF Release, DeleteClaim, AfterRelease, Goto
    <2>3. CASE RedisFails(d)
      <3>1. pc[d] = "release" /\ DeleteClaim(d)
        BY <2>3, GuardAssumption DEF RedisFails, Executed, SetClaim
      <3> QED
        BY <2>3, <3>1 DEF RedisFails, Recover, AfterRelease, Goto, DeleteClaim, LosersPath
    <2> QED
      BY <2>1, <2>2, <2>3
  <1> QED
    BY <1>1, <1>2, <1>3, <1>4 DEF Next

(* The claim key is deleted by its holder or by expiry and by no one else, *)
(* however many calls overran their claim.                                 *)
THEOREM ClaimReleaseCorrect == Spec => ClaimReleasedByOwner
  <1>1. Typed /\ [Next]_vars =>
          [\A c \in Calls : claim = c /\ claim' # c =>
             /\ claim' = Nobody
             /\ UNCHANGED pc \/ (pc[c] = "release" /\ pc'[c] # "release")]_vars
    BY ClaimStep
  <1>2. Typed /\ [Next]_vars => Typed'
    BY StepTyped
  <1> QED
    BY <1>1, <1>2, InitTyped, PTL DEF Spec, ClaimReleasedByOwner

-----------------------------------------------------------------------------
(* Which add a step of a call makes, and what it moves. *)
LEMMA CallMoves ==
  ASSUME Typed, NEW c \in Calls, CallStep(c)
  PROVE  /\ \A d \in Calls : d # c => pc'[d] = pc[d] /\ outcome'[d] = outcome[d]
         /\ \/ UNCHANGED <<job, added>>
            \/ pc[c] \in {"add", "fallback"} /\ QueueAdd(c, Canonical)
            \/ pc[c] = "retry" /\ QueueAdd(c, c)
         /\ pc[c] \in {"add", "fallback", "retry"} => pc'[c] \notin {"retry", "probe"}
         /\ pc'[c] = "retry" =>
              pc[c] \in {"state", "probe"} /\ job[Canonical] = "ended" /\ UNCHANGED queueVars
         /\ pc'[c] \in Undecided => pc[c] \in Undecided \ {"retry"}
  <1> USE DEF Typed, TypeOK, Goto, Decide, Undecided, LosersPath
  <1>1. CASE \E m \in JobIds \cup {Nobody} : Begin(c, m) \/ BeginWithoutClient(c, m)
    BY <1>1 DEF Begin, BeginWithoutClient
  <1>2. CASE Claim(c) \/ EmitAudit(c) \/ Release(c) \/ Lookup(c) \/ CallerDies(c)
    BY <1>2 DEF Claim, EmitAudit, Release, AfterRelease, Lookup, CallerDies, queueVars
  <1>3. CASE AtomicAdd(c) \/ EnqueueRetry(c) \/ FailOpen(c)
    BY <1>3 DEF AtomicAdd, EnqueueRetry, FailOpen
  <1>4. CASE WinnerState(c) \/ Probe(c)
    BY <1>4 DEF WinnerState, Probe, queueVars, Reported, Terminal, JobStates, JobIds
  <1>5. CASE RedisFails(c)
    <2>1. \A d \in Calls : d # c => pc'[d] = pc[d] /\ outcome'[d] = outcome[d]
      BY <1>5 DEF RedisFails, Recover, AfterRelease
    <2>2. \/ UNCHANGED <<job, added>>
          \/ pc[c] \in {"add", "fallback"} /\ QueueAdd(c, Canonical)
          \/ pc[c] = "retry" /\ QueueAdd(c, c)
      BY <1>5 DEF RedisFails, Executed, queueVars
    <2>3. pc'[c] \in {"release", "fallback", "answered"}
      BY <1>5 DEF RedisFails, Recover, AfterRelease
    <2> QED
      BY <2>1, <2>2, <2>3
  <1> QED
    BY <1>1, <1>2, <1>3, <1>4, <1>5 DEF CallStep, Step

LEMMA StepRetried ==
  ASSUME Typed, RetriedAfterEnd, [Next]_vars, ~removed'
  PROVE  RetriedAfterEnd'
  <1> USE GuardAssumption DEF RetriedAfterEnd, JobIds
  <1>1. CASE ClaimLapses \/ UNCHANGED vars
    BY <1>1 DEF ClaimLapses, vars, callVars, queueVars
  <1>2. CASE QueueStep
    BY <1>2 DEF QueueStep, StartJob, EndJob, RemoveJob, callVars, Typed, TypeOK
  <1>3. ASSUME NEW c \in Calls, CallStep(c) PROVE RetriedAfterEnd'
    <2>1. CASE UNCHANGED <<job, added>>
      BY <1>3, <2>1, CallMoves
    <2>2. CASE pc[c] \in {"add", "fallback"} /\ QueueAdd(c, Canonical)
      BY <1>3, <2>2, CallMoves, AddEffect DEF Typed, TypeOK, queueVars
    <2>3. CASE pc[c] = "retry" /\ QueueAdd(c, c)
      BY <1>3, <2>3, CallMoves, AddEffect DEF Typed, TypeOK, queueVars
    <2> QED
      BY <1>3, <2>1, <2>2, <2>3, CallMoves
  <1> QED
    BY <1>1, <1>2, <1>3 DEF Next

(* As long as no job is removed from the queue, a canonical job that waits *)
(* or runs is alone, whatever becomes of claims and replies.               *)
THEOREM CanonicalAloneCorrect == Spec => []CanonicalLiveAlone
  <1> DEFINE Inv == Typed /\ (~removed => RetriedAfterEnd)
  <1>1. Init => Inv
    BY InitTyped, GuardAssumption DEF Init, RetriedAfterEnd, JobIds
  <1>2. Inv /\ [Next]_vars => Inv'
    BY StepTyped, StepRetried, NoneRemoved DEF Typed
  <1>3. Inv => CanonicalLiveAlone
    BY DEF RetriedAfterEnd, CanonicalLiveAlone, LiveJobs, Live, JobIds
  <1> QED
    BY <1>1, <1>2, <1>3, PTL DEF Spec

-----------------------------------------------------------------------------
(* A call whose exception is on its way was undecided before; one that goes *)
(* on to its getState has seen a slow reply; and slow is never forgotten.   *)
LEMMA ErrorMoves ==
  ASSUME Typed, NEW c \in Calls, CallStep(c)
  PROVE  /\ pc'[c] = "fallback" \/ (pc'[c] = "release" /\ outcome'[c] = "error")
              => pc[c] \in Undecided \/ (pc[c] = "release" /\ outcome[c] = "error")
         /\ pc'[c] \in Undecided \ {"state", "retry"} =>
              UNCHANGED added /\ pc[c] \in Undecided \ {"state", "retry"}
         /\ pc'[c] = "state" => pc[c] = "add" /\ slow'[c] /\ QueueAdd(c, Canonical)
         /\ pc'[c] = "retry" => UNCHANGED added
         /\ \A d \in Calls : (slow[d] => slow'[d]) /\ (d # c => slow'[d] = slow[d])
  <1> USE DEF Typed, TypeOK, Decided, Goto, Decide, Undecided, LosersPath, Outcomes
  <1>1. CASE \E m \in JobIds \cup {Nobody} : Begin(c, m) \/ BeginWithoutClient(c, m)
    BY <1>1 DEF Begin, BeginWithoutClient
  <1>2. CASE Claim(c) \/ EmitAudit(c) \/ Release(c) \/ Lookup(c) \/ CallerDies(c)
    BY <1>2 DEF Claim, EmitAudit, Release, AfterRelease, Lookup, CallerDies, queueVars
  <1>3. CASE AtomicAdd(c)
    <2>1. /\ pc[c] = "add" /\ pc'[c] \in {"state", "release"}
          /\ pc'[c] = "release" => outcome'[c] = "enqueued_new"
          /\ QueueAdd(c, Canonical)
      BY <1>3 DEF AtomicAdd
    <2>2. pc'[c] = "state" => slow' = [slow EXCEPT ![c] = TRUE]
      BY <1>3 DEF AtomicAdd
    <2>3. slow' = slow \/ slow' = [slow EXCEPT ![c] = TRUE]
      BY <1>3 DEF AtomicAdd
    <2>4. \A d \in Calls : (slow[d] => slow'[d]) /\ (d # c => slow'[d] = slow[d])
      BY <2>3
    <2>5. pc'[c] = "state" => slow'[c]
      BY <2>2
    <2> QED
      BY <2>1, <2>4, <2>5
  <1>4. CASE EnqueueRetry(c) \/ FailOpen(c)
    BY <1>4 DEF EnqueueRetry, FailOpen
  <1>5. CASE WinnerState(c) \/ Probe(c)
    BY <1>5 DEF WinnerState, Probe, queueVars
  <1>6. CASE RedisFails(c)
    BY <1>6 DEF RedisFails, Recover, AfterRelease
  <1> QED
    BY <1>1, <1>2, <1>3, <1>4, <1>5, <1>6 DEF CallStep, Step

(* A job that is there stays there, removals aside. *)
LEMMA JobsStay ==
  ASSUME Typed, [Next]_vars, ~removed', NEW j \in JobIds, job[j] # "none"
  PROVE  job'[j] # "none"
  <1> USE DEF Typed, TypeOK
  <1>1. CASE ClaimLapses \/ UNCHANGED vars
    BY <1>1 DEF ClaimLapses, vars, queueVars
  <1>2. CASE QueueStep
    BY <1>2, NoneRemoved DEF QueueStep, StartJob, EndJob
  <1>3. ASSUME NEW c \in Calls, CallStep(c) PROVE job'[j] # "none"
    BY <1>3, CallMoves, AddEffect DEF queueVars, JobIds
  <1> QED
    BY <1>1, <1>2, <1>3 DEF Next

LEMMA StepAddedOnce ==
  ASSUME Typed, RetriedAfterEnd, AddedOnce, [Next]_vars, ~removed'
  PROVE  AddedOnce'
  <1> USE GuardAssumption
  <1>1. CASE ClaimLapses \/ UNCHANGED vars
    BY <1>1 DEF ClaimLapses, vars, callVars, queueVars, AddedOnce
  <1>2. CASE QueueStep
    <2>1. UNCHANGED <<pc, outcome, slow, added>>
      BY <1>2 DEF QueueStep, StartJob, EndJob, RemoveJob, callVars
    <2>2. \A j \in JobIds : job[j] # "none" => job'[j] # "none"
      BY JobsStay
    <2> QED
      BY <2>1, <2>2 DEF AddedOnce, JobIds
  <1>3. ASSUME NEW c \in Calls, CallStep(c) PROVE AddedOnce'
    <2> DEFINE Fine(d) ==
          /\ added[d] \in {0, 1} \/ (added[d] = 2 /\ slow[d] /\ job[d] # "none")
          /\ pc[d] \in Undecided \ {"state", "retry"} => added[d] = 0
          /\ pc[d] \in {"state", "retry"} => added[d] = 0 \/ (added[d] = 1 /\ slow[d])
          /\ pc[d] = "state" => job[Canonical] # "none"
          /\ pc[d] = "fallback" \/ (pc[d] = "release" /\ outcome[d] = "error")
               => added[d] = 0 \/ job[Canonical] # "none"
    <2>1. \A d \in Calls : Fine(d)
      BY DEF AddedOnce
    <2>2. \A j \in JobIds : job[j] # "none" => job'[j] # "none"
      BY JobsStay
    <2>3. \A d \in Calls : d # c => added'[d] = added[d]
      BY <1>3, CallMoves, AddEffect DEF queueVars, Typed, TypeOK, JobIds
    <2>4. ASSUME NEW d \in Calls, d # c PROVE Fine(d)'
      BY <1>3, <2>1, <2>2, <2>3, <2>4, CallMoves, ErrorMoves DEF JobIds
    <2>5. Fine(c)'
      <3>1. CASE UNCHANGED added
        <4>1. pc[c] \in Undecided => pc[c] = "add" \/ pc'[c] # "state"
          BY <1>3, ErrorMoves
        <4>2. pc'[c] = "state" => job'[Canonical] # "none" /\ added[c] = 0
          BY <1>3, <2>1, ErrorMoves DEF QueueAdd, queueVars, Typed, TypeOK, JobIds, Undecided
        <4>3. pc'[c] = "retry" => added[c] = 0 \/ (added[c] = 1 /\ slow[c])
          BY <1>3, <2>1, CallMoves DEF Undecided, LosersPath
        <4>4. pc'[c] \in Undecided \ {"state", "retry"} => added[c] = 0
          BY <1>3, <2>1, ErrorMoves
        <4>5. pc'[c] = "fallback" \/ (pc'[c] = "release" /\ outcome'[c] = "error")
                => added[c] = 0 \/ job[Canonical] # "none"
          BY <1>3, <2>1, ErrorMoves DEF Undecided, RetriedAfterEnd
        <4> QED
          BY <1>3, <2>1, <2>2, <3>1, <4>2, <4>3, <4>4, <4>5, ErrorMoves DEF JobIds
      <3>2. CASE pc[c] \in {"add", "fallback"} /\ QueueAdd(c, Canonical)
        <4>1. CASE UNCHANGED queueVars
          BY <3>1, <4>1 DEF queueVars
        <4>2. CASE /\ job[Canonical] = "none"
                   /\ job' = [job EXCEPT ![Canonical] = "waiting"]
                   /\ added' = [added EXCEPT ![c] = @ + 1]
          <5>1. added[c] = 0
            BY <2>1, <3>2, <4>2 DEF Undecided
          <5>2. added'[c] = 1
            BY <4>2, <5>1 DEF Typed, TypeOK
          <5>3. job'[Canonical] # "none"
            BY <4>2 DEF Typed, TypeOK, JobIds
          <5>4. pc'[c] \notin Undecided \ {"state", "retry"} /\ pc'[c] # "retry"
            BY <1>3, <3>2, <5>1, <5>2, CallMoves, ErrorMoves
          <5> QED
            BY <1>3, <5>2, <5>3, <5>4, ErrorMoves
        <4> QED
          BY <3>2, <4>1, <4>2 DEF QueueAdd
      <3>3. CASE pc[c] = "retry" /\ QueueAdd(c, c)
        <4>1. CASE UNCHANGED queueVars
          BY <3>1, <4>1 DEF queueVars
        <4>2. CASE /\ job[c] = "none"
                   /\ job' = [job EXCEPT ![c] = "waiting"]
                   /\ added' = [added EXCEPT ![c] = @ + 1]
          <5>1. added[c] = 0 \/ (added[c] = 1 /\ slow[c])
            BY <2>1, <3>3
          <5>2. added'[c] = 1 \/ (added'[c] = 2 /\ slow'[c])
            BY <1>3, <4>2, <5>1, ErrorMoves DEF Typed, TypeOK
          <5>3. job'[c] # "none" /\ job'[Canonical] # "none"
            BY <2>2, <3>3, <4>2 DEF Typed, TypeOK, JobIds, RetriedAfterEnd
          <5>4. pc'[c] \notin Undecided
            BY <1>3, <3>3, CallMoves
          <5> QED
            BY <5>2, <5>3, <5>4 DEF Undecided
        <4> QED
          BY <3>3, <4>1, <4>2 DEF QueueAdd
      <3> QED
        BY <1>3, <3>1, <3>2, <3>3, CallMoves
    <2> QED
      BY <2>4, <2>5 DEF AddedOnce
  <1> QED
    BY <1>1, <1>2, <1>3 DEF Next

(* As long as no job is removed, no call creates a second job, except under *)
(* its retry id after a slow reply: whatever its earlier commands had done  *)
(* when their replies were lost.                                            *)
THEOREM OneJobCorrect == Spec => []OneJobPerCall
  <1> DEFINE Inv == Typed /\ (~removed => RetriedAfterEnd /\ AddedOnce)
  <1>1. Init => Inv
    BY InitTyped, GuardAssumption DEF Init, RetriedAfterEnd, AddedOnce, JobIds
  <1>2. Inv /\ [Next]_vars => Inv'
    BY StepTyped, StepRetried, StepAddedOnce, NoneRemoved DEF Typed
  <1>3. Inv => OneJobPerCall
    BY DEF AddedOnce, OneJobPerCall
  <1> QED
    BY <1>1, <1>2, <1>3, PTL DEF Spec

-----------------------------------------------------------------------------
(* Retry ids are used by their own calls only, and once. *)
LEMMA StepRetryIdUnused ==
  ASSUME Typed, RetryIdUnused, [Next]_vars
  PROVE  RetryIdUnused'
  <1> USE GuardAssumption DEF RetryIdUnused, JobIds
  <1>1. CASE ClaimLapses \/ UNCHANGED vars
    BY <1>1 DEF ClaimLapses, vars, callVars, queueVars
  <1>2. CASE QueueStep
    BY <1>2 DEF QueueStep, StartJob, EndJob, RemoveJob, callVars, Typed, TypeOK
  <1>3. ASSUME NEW c \in Calls, CallStep(c) PROVE RetryIdUnused'
    <2>1. CASE UNCHANGED <<job, added>>
      BY <1>3, <2>1, CallMoves
    <2>2. CASE pc[c] \in {"add", "fallback"} /\ QueueAdd(c, Canonical)
      BY <1>3, <2>2, CallMoves DEF QueueAdd, queueVars, Typed, TypeOK
    <2>3. CASE pc[c] = "retry" /\ QueueAdd(c, c)
      BY <1>3, <2>3, CallMoves DEF QueueAdd, queueVars, Typed, TypeOK
    <2> QED
      BY <1>3, <2>1, <2>2, <2>3, CallMoves
  <1> QED
    BY <1>1, <1>2, <1>3 DEF Next

(* What a step does to live jobs and to the knowledge of them. *)
LEMMA BackedGrows ==
  ASSUME Typed, NEW c \in Calls, CallStep(c)
  PROVE  /\ \A d \in Calls : d # c /\ backed[d] => backed'[d]
         /\ pc[c] # "idle" /\ backed[c] => backed'[c]
         /\ pc[c] = "idle" =>
              /\ UNCHANGED job
              /\ pc'[c] \in {"claim", "fallback"}
              /\ backed' = [backed EXCEPT ![c] = LiveJobs # {}]
              /\ pc'[c] = "fallback" => faults' # MaxFaults
              /\ UNCHANGED outcome
         /\ pc[c] # "idle" => Running(c)
         /\ UNCHANGED job \/ Running(c)
         /\ faults' = MaxFaults => faults = MaxFaults /\ ~RedisFails(c)
  <1>1. CASE pc[c] = "idle"
    <2>1. \E m \in JobIds \cup {Nobody} : Begin(c, m) \/ BeginWithoutClient(c, m)
      BY <1>1 DEF CallStep, Step, Claim, AtomicAdd, WinnerState, EnqueueRetry, EmitAudit,
         Release, Lookup, Probe, FailOpen, RedisFails, Recover, CallerDies, Running,
         InProgress, LosersPath, WinnersPath
    <2>2. backed' = [backed EXCEPT ![c] = LiveJobs # {}]
      BY <2>1 DEF Begin, BeginWithoutClient
    <2>3. \A d \in Calls : d # c /\ backed[d] => backed'[d]
      BY <2>2, Zenon DEF Typed, TypeOK
    <2>4. /\ UNCHANGED job
          /\ pc'[c] \in {"claim", "fallback"}
          /\ pc'[c] = "fallback" => faults' # MaxFaults
          /\ UNCHANGED outcome
          /\ faults' = MaxFaults => faults = MaxFaults
      BY <2>1, GuardAssumption DEF Begin, BeginWithoutClient, Goto, Typed, TypeOK
    <2>5. ~RedisFails(c)
      BY <1>1 DEF RedisFails, Recover, LosersPath
    <2> QED
      BY <1>1, <2>2, <2>3, <2>4, <2>5
  <1>2. CASE pc[c] # "idle"
    <2>1. Step(c) \/ RedisFails(c) \/ CallerDies(c)
      BY <1>2 DEF CallStep, Begin, BeginWithoutClient
    <2>2. Running(c)
      BY <2>1 DEF Step, Claim, AtomicAdd, WinnerState, EnqueueRetry, EmitAudit,
         Release, Lookup, Probe, FailOpen, RedisFails, Recover, CallerDies, Running,
         InProgress, LosersPath, WinnersPath
    <2>3. \/ UNCHANGED queueVars
          \/ \E j \in JobIds : QueueAdd(c, j)
      BY <2>1 DEF Step, Claim, AtomicAdd, WinnerState, EnqueueRetry, EmitAudit,
         Release, Lookup, Probe, FailOpen, RedisFails, Executed, CallerDies, JobIds
    <2>4. \A d \in Calls : backed[d] => backed'[d]
      BY <2>3, AddEffect DEF queueVars, Typed
    <2>5. faults' = MaxFaults => faults = MaxFaults /\ ~RedisFails(c)
      BY <2>1, GuardAssumption DEF Step, Claim, AtomicAdd, WinnerState, EnqueueRetry,
         EmitAudit, Release, Lookup, Probe, FailOpen, RedisFails, CallerDies, Typed, TypeOK
    <2> QED
      BY <1>2, <2>2, <2>4, <2>5
  <1> QED
    BY <1>1, <1>2

(* The same for a step's effect on the jobs: none, or one new waiting job, *)
(* which every call under way knows of.                                    *)
LEMMA JobMoves ==
  ASSUME Typed, NEW c \in Calls, CallStep(c)
  PROVE  \/ UNCHANGED job
         \/ \E j \in {c, Canonical} :
              /\ job[j] = "none"
              /\ pc[c] \in {"add", "fallback", "retry"}
              /\ job' = [job EXCEPT ![j] = "waiting"]
              /\ \A d \in Calls : Running(d) => backed'[d]
  <1>1. CASE UNCHANGED <<job, added>>
    BY <1>1
  <1>2. CASE pc[c] \in {"add", "fallback"} /\ QueueAdd(c, Canonical)
    BY <1>2, AddEffect DEF Typed, JobIds, queueVars
  <1>3. CASE pc[c] = "retry" /\ QueueAdd(c, c)
    BY <1>3, AddEffect DEF Typed, JobIds, queueVars
  <1> QED
    BY <1>1, <1>2, <1>3, CallMoves

LEMMA StepLiveBacks ==
  ASSUME Typed, LiveBacks, [Next]_vars
  PROVE  LiveBacks'
  <1> USE GuardAssumption DEF LiveBacks
  <1>1. CASE ClaimLapses \/ UNCHANGED vars
    BY <1>1 DEF ClaimLapses, vars, callVars, queueVars, LiveJobs, Running
  <1>2. CASE QueueStep
    <2>1. UNCHANGED <<pc, backed>>
      BY <1>2 DEF QueueStep, StartJob, EndJob, RemoveJob, callVars
    <2>2. LiveJobs' # {} => LiveJobs # {}
      BY <1>2 DEF QueueStep, StartJob, EndJob, RemoveJob, Live, LiveJobs, Typed, TypeOK
    <2> QED
      BY <2>1, <2>2 DEF Running
  <1>3. ASSUME NEW c \in Calls, CallStep(c) PROVE LiveBacks'
    <2>1. \A d \in Calls : d # c => pc'[d] = pc[d]
      BY <1>3, CallMoves
    <2>2. CASE pc[c] = "idle"
      <3>1. LiveJobs' = LiveJobs
        BY <1>3, <2>2, BackedGrows DEF LiveJobs
      <3>2. LiveJobs # {} => backed'[c]
        <4>1. backed' = [backed EXCEPT ![c] = LiveJobs # {}]
          BY <1>3, <2>2, BackedGrows
        <4> QED
          BY <4>1, Zenon DEF Typed, TypeOK
      <3> QED
        BY <1>3, <2>1, <3>1, <3>2, BackedGrows DEF Running
    <2>3. CASE pc[c] # "idle" /\ UNCHANGED job
      <3>1. LiveJobs' = LiveJobs
        BY <2>3 DEF LiveJobs
      <3> QED
        BY <1>3, <2>1, <2>3, <3>1, BackedGrows DEF Running
    <2>4. ASSUME \A d \in Calls : Running(d) => backed'[d], pc[c] # "idle"
          PROVE  LiveBacks'
      <3>1. \A d \in Calls : Running(d)' => Running(d)
        BY <1>3, <2>1, <2>4, BackedGrows DEF Running
      <3> QED
        BY <2>4, <3>1
    <2> QED
      BY <1>3, <2>2, <2>3, <2>4, JobMoves
  <1> QED
    BY <1>1, <1>2, <1>3 DEF Next

(* A call that ends up judging, deciding or falling back has the facts that *)
(* Kept asks for.                                                           *)
LEMMA CallerKept ==
  ASSUME Typed, RetryIdUnused, Kept, NEW c \in Calls, CallStep(c)
  PROVE  /\ pc'[c] \in {"state", "probe"} => job'[Canonical] # "none"
         /\ pc'[c] = "audit" \/ (pc'[c] = "release" /\ outcome'[c] # "error")
              => backed'[c] \/ Unseen(c)'
         /\ faults' = MaxFaults =>
              /\ outcome'[c] # "error"
              /\ pc'[c] = "fallback" => job'[Canonical] = "none" \/ backed'[c]
         /\ pc'[c] = "answered" =>
              \/ backed'[c] \/ Unseen(c)'
              \/ outcome'[c] = "enqueued_fail_open" /\ faults' < MaxFaults
  <1> USE GuardAssumption DEF Typed, TypeOK, JobIds
  <1>1. ASSUME job[Canonical] \in Live, Running(c) PROVE backed[c]
    BY <1>1 DEF Kept, LiveBacks, LiveJobs
  <1>2. faults' = MaxFaults => outcome[c] # "error"
    BY BackedGrows DEF Kept, FallbackBacked
  <1>3. CASE pc[c] = "idle"
    BY <1>2, <1>3, BackedGrows
  <1>4. CASE Claim(c) \/ EmitAudit(c) \/ Lookup(c) \/ CallerDies(c) \/ Release(c)
    <2>1. UNCHANGED <<outcome, slow, job, backed, faults>>
      BY <1>4 DEF Claim, EmitAudit, Lookup, CallerDies, Release, queueVars
    <2>2. pc'[c] \in {"state", "probe"} => job[Canonical] # "none"
      BY <1>4 DEF Claim, EmitAudit, Lookup, CallerDies, Release, AfterRelease, Goto
    <2>3. pc'[c] = "fallback" => job[Canonical] = "none" \/ outcome[c] = "error"
      BY <1>4 DEF Claim, EmitAudit, Lookup, CallerDies, Release, AfterRelease, Goto
    <2>4. pc'[c] \in {"audit", "release", "answered"}
            => pc[c] = "audit" \/ (pc[c] = "release" /\ outcome[c] # "error")
      BY <1>4 DEF Claim, EmitAudit, Lookup, CallerDies, Release, AfterRelease, Goto
    <2> QED
      BY <1>2, <2>1, <2>2, <2>3, <2>4 DEF Kept, DecisionBacked, Unseen
  <1>5. CASE AtomicAdd(c)
    <2>1. job'[Canonical] # "none"
      BY <1>5 DEF AtomicAdd, QueueAdd, queueVars
    <2>2. /\ pc'[c] \in {"state", "release"} /\ faults' = faults
          /\ outcome'[c] \in {outcome[c], "enqueued_new"}
          /\ pc'[c] # "state" => outcome'[c] = "enqueued_new" /\ ~slow'[c]
      BY <1>5 DEF AtomicAdd, Goto, Decide, Decided
    <2>3. pc[c] = "add" /\ Running(c) /\ QueueAdd(c, Canonical)
      BY <1>5 DEF AtomicAdd, Running, InProgress, WinnersPath
    <2>4. pc'[c] # "state" => backed'[c] \/ Unseen(c)'
      <3>1. CASE job[Canonical] = "none"
        BY <2>3, <3>1, AddEffect
      <3>2. CASE job[Canonical] \in Live
        BY <1>1, <2>3, <3>2, BackedGrows
      <3>3. CASE job[Canonical] = "ended"
        <4>1. job'[Canonical] = "ended"
          BY <2>3, <3>3 DEF QueueAdd, queueVars
        <4> QED
          BY <2>2, <4>1 DEF Unseen
      <3> QED
        BY <3>1, <3>2, <3>3 DEF JobStates, Live
    <2> QED
      BY <1>2, <2>1, <2>2, <2>4
  <1>6. CASE WinnerState(c) \/ Probe(c)
    <2>1. UNCHANGED <<job, backed, faults>> /\ pc[c] \in {"state", "probe"}
      BY <1>6 DEF WinnerState, Probe, queueVars
    <2>2. pc'[c] # "retry" => job[Canonical] \in Live
      BY <1>6, <2>1 DEF WinnerState, Probe, Kept, JudgedExists, Reported, Terminal, Trusted,
         Live, Goto, JobStates
    <2>3. /\ pc'[c] \in {"retry", "release", "answered"}
          /\ outcome'[c] \in {outcome[c], "enqueued_new", "reused_active", "limbo_forced"}
      BY <1>6 DEF WinnerState, Probe, Goto, Decide
    <2> QED
      BY <1>1, <1>2, <2>1, <2>2, <2>3 DEF Running, InProgress, WinnersPath, LosersPath
  <1>7. CASE EnqueueRetry(c)
    <2>1. job[c] = "none" /\ Running(c) /\ QueueAdd(c, c)
      BY <1>7 DEF EnqueueRetry, RetryIdUnused, Undecided, Running, InProgress
    <2>2. backed'[c]
      BY <2>1, AddEffect
    <2> QED
      BY <1>7, <2>2 DEF EnqueueRetry, Decide, Goto
  <1>8. CASE FailOpen(c)
    <2>1. pc[c] = "fallback" /\ Running(c) /\ QueueAdd(c, Canonical)
      BY <1>8 DEF FailOpen, Running, InProgress
    <2>2. pc'[c] = "answered" /\ outcome'[c] = "enqueued_fail_open" /\ faults' = faults
      BY <1>8 DEF FailOpen, Decide, Goto
    <2>3. faults = MaxFaults => backed'[c]
      <3>1. CASE job[Canonical] = "none"
        BY <2>1, <3>1, AddEffect
      <3>2. CASE job[Canonical] # "none"
        BY <2>1, <3>2, BackedGrows DEF Kept, FallbackBacked
      <3> QED
        BY <3>1, <3>2
    <2> QED
      BY <2>2, <2>3
  <1>9. CASE RedisFails(c)
    <2>1. faults' < MaxFaults
      BY <1>9 DEF RedisFails
    <2>2. /\ pc'[c] \notin {"state", "probe", "audit"}
          /\ pc'[c] = "release" => outcome'[c] = "error"
          /\ pc'[c] = "answered" =>
               outcome'[c] = "enqueued_fail_open" \/ (pc[c] = "release" /\ outcome[c] # "error")
      BY <1>9 DEF RedisFails, Recover, AfterRelease, Goto, Decide
    <2>3. pc[c] = "release" /\ outcome[c] # "error" => backed'[c] \/ Unseen(c)'
      <3>1. pc[c] = "release" => UNCHANGED <<outcome, slow, job, backed>>
        BY <1>9 DEF RedisFails, Executed, Recover, queueVars, LosersPath
      <3> QED
        BY <3>1 DEF Kept, DecisionBacked, Unseen
    <2>4. pc'[c] = "answered" /\ outcome'[c] # "enqueued_fail_open"
            => pc[c] = "release" /\ outcome[c] # "error"
      BY <2>2
    <2> QED
      BY <2>1, <2>2, <2>3, <2>4
  <1> QED
    BY <1>3, <1>4, <1>5, <1>6, <1>7, <1>8, <1>9
       DEF CallStep, Step, Begin, BeginWithoutClient

LEMMA StepKept ==
  ASSUME Typed, RetryIdUnused, Kept, [Next]_vars, ~removed'
  PROVE  Kept'
  <1> DEFINE CallsKept == JudgedExists /\ DecisionBacked /\ FallbackBacked /\ Answered
  <1>1. LiveBacks'
    BY StepLiveBacks DEF Kept
  <1>2. CASE ClaimLapses \/ UNCHANGED vars
    BY <1>1, <1>2 DEF ClaimLapses, vars, callVars, queueVars, Kept, JudgedExists,
       DecisionBacked, FallbackBacked, Answered, Unseen
  <1>3. CASE QueueStep
    <2>1. UNCHANGED <<pc, outcome, slow, backed, faults>>
      BY <1>3 DEF QueueStep, StartJob, EndJob, RemoveJob, callVars
    <2>2. /\ job'[Canonical] = "none" <=> job[Canonical] = "none"
          /\ job[Canonical] = "ended" => job'[Canonical] = "ended"
      BY <1>3, NoneRemoved, GuardAssumption
         DEF QueueStep, StartJob, EndJob, Typed, TypeOK, JobIds
    <2> QED
      BY <1>1, <2>1, <2>2 DEF Kept, JudgedExists, DecisionBacked, FallbackBacked, Answered,
         Unseen
  <1>4. ASSUME NEW c \in Calls, CallStep(c) PROVE CallsKept'
    <2>1. ASSUME NEW d \in Calls, d # c
          PROVE  /\ pc'[d] = pc[d] /\ outcome'[d] = outcome[d]
                 /\ slow'[d] = slow[d]
                 /\ backed[d] => backed'[d]
      BY <1>4, <2>1, CallMoves, ErrorMoves, BackedGrows
    <2>2. /\ job[Canonical] # "none" => job'[Canonical] # "none"
          /\ job[Canonical] = "ended" => job'[Canonical] = "ended"
      BY <1>4, JobMoves, GuardAssumption DEF Typed, TypeOK, JobIds
    <2>3. ASSUME NEW d \in Calls, d # c, pc[d] = "fallback",
                 job[Canonical] = "none", job'[Canonical] # "none"
          PROVE  backed'[d]
      BY <1>4, <2>3, JobMoves DEF Running, InProgress
    <2>4. (faults' = MaxFaults => faults = MaxFaults) /\ (faults < MaxFaults => faults' < MaxFaults)
      BY <1>4, BackedGrows, StepTyped, GuardAssumption DEF Typed, TypeOK
    <2>5. JudgedExists'
      BY <1>4, <2>1, <2>2, CallerKept DEF Kept, JudgedExists
    <2>6. DecisionBacked'
      BY <1>4, <2>1, <2>2, CallerKept DEF Kept, DecisionBacked, Unseen
    <2>7. FallbackBacked'
      BY <1>4, <2>1, <2>3, <2>4, CallerKept DEF Kept, FallbackBacked
    <2>8. Answered'
      BY <1>4, <2>1, <2>2, <2>4, CallerKept DEF Kept, Answered, Unseen
    <2> QED
      BY <2>5, <2>6, <2>7, <2>8
  <1> QED
    BY <1>1, <1>2, <1>3, <1>4 DEF Next, Kept

(* As long as no job is removed, an answered request is dropped only where a *)
(* prompt add met a finished job, or where a Redis command failed and the    *)
(* answer is fail-open.                                                      *)
THEOREM RequestKeptCorrect == Spec => []NoRequestLost
  <1> DEFINE Inv == Typed /\ (~removed => RetryIdUnused /\ Kept)
  <1>1. Init => Inv
    BY InitTyped, GuardAssumption DEF Init, RetryIdUnused, Kept, LiveBacks, JudgedExists,
       DecisionBacked, FallbackBacked, Answered, Running, InProgress, LosersPath,
       WinnersPath, JobIds
  <1>2. Inv /\ [Next]_vars => Inv'
    BY StepTyped, StepRetryIdUnused, StepKept, NoneRemoved DEF Typed
  <1>3. Inv => NoRequestLost
    BY DEF Kept, Answered, Unseen, NoRequestLost
  <1> QED
    BY <1>1, <1>2, <1>3, PTL DEF Spec
=============================================================================
