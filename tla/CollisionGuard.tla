--------------------------- MODULE CollisionGuard ---------------------------
(***************************************************************************)
(* enqueueWithCollisionGuard (queues/enqueue-with-collision-guard.ts): the *)
(* way every page-analyze and embedding-backfill job enters its queue.     *)
(* Requests for the same URL, or the same page and category, share one     *)
(* canonical job id.  A call claims a Redis key of that id, adds the job,  *)
(* and judges by the timestamp of the job it gets back whether an older    *)
(* one was in the way; losers of the claim look at the job they find; a    *)
(* finished job is enqueued again under a retry id; and every Redis error  *)
(* ends in an add without a claim.                                         *)
(*                                                                         *)
(* The module follows one canonical id.  A call c generates one nonce and  *)
(* at most one retry id (UUIDs), so c itself stands for both.  Each action *)
(* is a call's Redis command with the code that runs on its reply.         *)
(*                                                                         *)
(* BullMQ is external: an add under an existing id changes nothing and     *)
(* hands back that id.  The timestamp of the job object that add returns   *)
(* is the client's, taken just before the command is sent, whatever job    *)
(* has that id; so it looks old exactly when the reply was slow.           *)
(*                                                                         *)
(* A definition D_What is a mutant of D: the bug that What names.          *)
(***************************************************************************)
EXTENDS Naturals, FiniteSets

CONSTANTS
    Calls,       \* calls of enqueueWithCollisionGuard, in any processes
    Canonical,   \* the job id the calls share
    Nobody,      \* no claimant; not called by a job's own processor
    Incumbents,  \* states the canonical job may be in at the start
    MaxFaults    \* bound: Redis commands that fail

(* "waiting" stands for waiting, prioritized and delayed, "ended" for *)
(* completed and failed.                                              *)
JobStates == {"none", "waiting", "active", "ended"}

ASSUME GuardAssumption ==
    /\ IsFiniteSet(Calls)
    /\ Canonical \notin Calls
    /\ Nobody \notin Calls \cup {Canonical}
    /\ Incumbents \in SUBSET JobStates
    /\ MaxFaults \in Nat

VARIABLES
    pc,       \* the Redis command each call awaits
    winner,   \* the call was granted the claim
    outcome,  \* of EnqueueResult; "error" while an exception leaves the try block
    maker,    \* the active job whose processor makes the call, if one does
    claim,    \* the nonce in the claim key
    job,      \* the jobs of the queue by id
    faults,   \* failures left
    \* history; only the properties read it
    slow,     \* the reply of the call's add took over 100 ms
    added,    \* jobs that a call's adds created
    backed,   \* a job waited or ran at some moment of the call
    removed   \* a job has left the queue

callVars  == <<pc, winner, outcome, maker, slow>>
queueVars == <<job, added, backed, removed>>
vars == <<callVars, claim, queueVars, faults>>

JobIds == Calls \cup {Canonical}
Live == {"waiting", "active"}

LosersPath  == {"lookup", "probe"}
WinnersPath == {"add", "state", "release"}
InProgress  == {"claim", "retry", "audit", "fallback"} \cup LosersPath \cup WinnersPath
Settled     == {"answered", "dead"}

Outcomes == {"enqueued_new", "reused_active", "enqueued_retry",
             "limbo_forced", "enqueued_fail_open"}

(* Types; and an answer is one of the five outcomes, whatever failed. *)
TypeOK ==
    /\ pc \in [Calls -> {"idle"} \cup InProgress \cup Settled]
    /\ winner \in [Calls -> BOOLEAN]
    /\ outcome \in [Calls -> Outcomes \cup {"none", "error"}]
    /\ \A c \in Calls : pc[c] = "answered" => outcome[c] \in Outcomes
    /\ maker \in [Calls -> JobIds \cup {Nobody}]
    /\ claim \in Calls \cup {Nobody}
    /\ job \in [JobIds -> JobStates]
    /\ faults \in 0..MaxFaults
    /\ slow \in [Calls -> BOOLEAN]
    /\ added \in [Calls -> Nat]
    /\ backed \in [Calls -> BOOLEAN]
    /\ removed \in BOOLEAN

Init ==
    /\ pc = [c \in Calls |-> "idle"]
    /\ winner = [c \in Calls |-> FALSE]
    /\ outcome = [c \in Calls |-> "none"]
    /\ maker = [c \in Calls |-> Nobody]
    /\ claim = Nobody
    /\ \E s \in Incumbents :
         job = [j \in JobIds |-> IF j = Canonical THEN s ELSE "none"]
    /\ faults = MaxFaults
    /\ slow = [c \in Calls |-> FALSE]
    /\ added = [c \in Calls |-> 0]
    /\ backed = [c \in Calls |-> FALSE]
    /\ removed = FALSE

Running(c) == pc[c] \in InProgress
LiveJobs == {j \in JobIds : job[j] \in Live}

Goto(c, p) == pc' = [pc EXCEPT ![c] = p]
Decide(c, o, p) == outcome' = [outcome EXCEPT ![c] = o] /\ Goto(c, p)

-----------------------------------------------------------------------------
(* Redis commands *)

(* JOBID_CLAIM_LUA: SETNX and PEXPIRE in one script. *)
SetClaim(c) == claim' = IF claim = Nobody THEN c ELSE claim

DeleteClaim_NoNonceCheck(c) == claim' = Nobody

(* JOBID_CLAIM_RELEASE_LUA deletes the key if it holds the call's nonce. *)
DeleteClaim(c) == claim' = IF claim = c THEN Nobody ELSE claim

(* queue.add under id j: a new job, or nothing when the id exists. *)
QueueAdd(c, j) ==
    \/ /\ job[j] = "none"
       /\ job' = [job EXCEPT ![j] = "waiting"]
       /\ added' = [added EXCEPT ![c] = @ + 1]
       /\ backed' = [d \in Calls |-> backed[d] \/ Running(d)]
       /\ UNCHANGED removed
    \/ /\ job[j] # "none"
       /\ UNCHANGED queueVars

(* job.getState(): every job here has a priority, and a prioritized job is *)
(* reported as "waiting" or by a name of its own.                          *)
Reported ==
    [none    |-> {"unknown"},
     waiting |-> {"waiting", "delayed", "prioritized"},
     active  |-> {"active"},
     ended   |-> {"completed", "failed"}]

Trusted  == {"active", "waiting", "delayed"}
Terminal == {"completed", "failed"}

-----------------------------------------------------------------------------
(* A call *)

(* One kind of caller is the processor of an active backfill job whose    *)
(* page is still being analysed: evaluateAnalysisGuard enqueues the job's *)
(* own id again, once, and the job stays active meanwhile.                *)
MayCall(m) == m # Nobody => job[m] = "active" /\ \A d \in Calls : maker[d] # m

(* A request arrives. *)
Begin(c, m) ==
    /\ MayCall(m)
    /\ pc[c] = "idle"
    /\ maker' = [maker EXCEPT ![c] = m]
    /\ backed' = [backed EXCEPT ![c] = LiveJobs # {}]
    /\ Goto(c, "claim")
    /\ UNCHANGED <<winner, outcome, slow, claim, job, added, removed, faults>>

(* await queue.client rejected. *)
BeginWithoutClient(c, m) ==
    /\ MayCall(m)
    /\ pc[c] = "idle"
    /\ faults > 0
    /\ faults' = faults - 1
    /\ maker' = [maker EXCEPT ![c] = m]
    /\ backed' = [backed EXCEPT ![c] = LiveJobs # {}]
    /\ Goto(c, "fallback")
    /\ UNCHANGED <<winner, outcome, slow, claim, job, added, removed>>

(* attemptAtomicClaim, then the winner's or the loser's path. *)
Claim(c) ==
    /\ pc[c] = "claim"
    /\ SetClaim(c)
    /\ winner' = [winner EXCEPT ![c] = (claim = Nobody)]
    /\ Goto(c, IF claim = Nobody THEN "add" ELSE "lookup")
    /\ UNCHANGED <<outcome, maker, slow, queueVars, faults>>

(* handleAtomicAdd up to the check of the timestamp, which goes by how long *)
(* the reply took.                                                          *)
AtomicAdd(c) ==
    /\ pc[c] = "add"
    /\ QueueAdd(c, Canonical)
    /\ \/ slow' = [slow EXCEPT ![c] = TRUE] /\ Goto(c, "state") /\ UNCHANGED outcome
       \/ UNCHANGED slow /\ Decide(c, "enqueued_new", "release")
    /\ UNCHANGED <<winner, maker, claim, faults>>

WinnerState_RetryAny(c) ==
    /\ pc[c] = "state"
    /\ Goto(c, "retry")
    /\ UNCHANGED <<outcome, winner, maker, slow, claim, queueVars, faults>>

WinnerState_NeverRetry(c) ==
    /\ pc[c] = "state"
    /\ Decide(c, "enqueued_new", "release")
    /\ UNCHANGED <<winner, maker, slow, claim, queueVars, faults>>

(* Its getState: a terminal job is enqueued again, any other counts as new. *)
WinnerState(c) ==
    /\ pc[c] = "state"
    /\ \E seen \in Reported[job[Canonical]] :
         \/ seen \in Terminal /\ Goto(c, "retry") /\ UNCHANGED outcome
         \/ seen \notin Terminal /\ Decide(c, "enqueued_new", "release")
    /\ UNCHANGED <<winner, maker, slow, claim, queueVars, faults>>

(* handleCollisionEnqueue: add under a retry id of the call's own ... *)
EnqueueRetry(c) ==
    /\ pc[c] = "retry"
    /\ QueueAdd(c, c)
    /\ Decide(c, "enqueued_retry", "audit")
    /\ UNCHANGED <<winner, maker, slow, claim, faults>>

(* ... then the audit entry, whose failure is swallowed. *)
EmitAudit(c) ==
    /\ pc[c] = "audit"
    /\ Goto(c, IF winner[c] THEN "release" ELSE "answered")
    /\ UNCHANGED <<winner, outcome, maker, slow, claim, queueVars, faults>>

AfterRelease_SwallowsError(c) == Goto(c, "answered")

AfterRelease(c) == Goto(c, IF outcome[c] = "error" THEN "fallback" ELSE "answered")

(* releaseClaim in the finally block; an exception goes on to handleFailOpen. *)
Release(c) ==
    /\ pc[c] = "release"
    /\ DeleteClaim(c)
    /\ AfterRelease(c)
    /\ UNCHANGED <<winner, outcome, maker, slow, queueVars, faults>>

Lookup_WaitsForJob(c) ==
    /\ pc[c] = "lookup"
    /\ job[Canonical] # "none"
    /\ Goto(c, "probe")
    /\ UNCHANGED <<winner, outcome, maker, slow, claim, queueVars, faults>>

(* dispatchLoserPath: queue.getJob; no job is taken for an expired claim. *)
Lookup(c) ==
    /\ pc[c] = "lookup"
    /\ Goto(c, IF job[Canonical] = "none" THEN "fallback" ELSE "probe")
    /\ UNCHANGED <<winner, outcome, maker, slow, claim, queueVars, faults>>

(* Its getState. *)
Probe(c) ==
    /\ pc[c] = "probe"
    /\ \E seen \in Reported[job[Canonical]] :
         \/ seen \in Trusted /\ Decide(c, "reused_active", "answered")
         \/ seen \in Terminal /\ Goto(c, "retry") /\ UNCHANGED outcome
         \/ /\ seen \notin Trusted \cup Terminal
            /\ Decide(c, "limbo_forced", "answered")
    /\ UNCHANGED <<winner, maker, slow, claim, queueVars, faults>>

FailOpen_RetryId(c) ==
    /\ pc[c] = "fallback"
    /\ QueueAdd(c, c)
    /\ Decide(c, "enqueued_fail_open", "answered")
    /\ UNCHANGED <<winner, maker, slow, claim, faults>>

(* handleFailOpen: a bare add. *)
FailOpen(c) ==
    /\ pc[c] = "fallback"
    /\ QueueAdd(c, Canonical)
    /\ Decide(c, "enqueued_fail_open", "answered")
    /\ UNCHANGED <<winner, maker, slow, claim, faults>>

Step(c) ==
    \/ Claim(c) \/ AtomicAdd(c) \/ WinnerState(c) \/ EnqueueRetry(c)
    \/ EmitAudit(c) \/ Release(c) \/ Lookup(c) \/ Probe(c) \/ FailOpen(c)

-----------------------------------------------------------------------------
(* Failures *)

(* What a command that failed may have done before its reply was lost. *)
Executed(c) ==
    \/ pc[c] = "claim" /\ SetClaim(c) /\ UNCHANGED queueVars
    \/ pc[c] = "release" /\ DeleteClaim(c) /\ UNCHANGED queueVars
    \/ pc[c] \in {"add", "fallback"} /\ QueueAdd(c, Canonical) /\ UNCHANGED claim
    \/ pc[c] = "retry" /\ QueueAdd(c, c) /\ UNCHANGED claim

(* The exception leaves through the finally block if the claim was granted, *)
(* and reaches handleFailOpen; the last two commands swallow their errors.  *)
Recover(c) ==
    \/ /\ pc[c] \in {"claim", "add", "state", "retry"} \cup LosersPath
       /\ IF winner[c] THEN Decide(c, "error", "release")
                       ELSE Goto(c, "fallback") /\ UNCHANGED outcome
    \/ pc[c] = "release" /\ AfterRelease(c) /\ UNCHANGED outcome
    \/ pc[c] = "fallback" /\ Decide(c, "enqueued_fail_open", "answered")

RedisFails(c) ==
    /\ faults > 0
    /\ faults' = faults - 1
    /\ Executed(c) \/ UNCHANGED <<claim, queueVars>>
    /\ Recover(c)
    /\ UNCHANGED <<winner, maker, slow>>

(* The calling process dies. *)
CallerDies(c) ==
    /\ Running(c)
    /\ Goto(c, "dead")
    /\ UNCHANGED <<winner, outcome, maker, slow, claim, queueVars, faults>>

ClaimLapses_NoExpiry == FALSE /\ UNCHANGED vars

(* CLAIM_TTL_MS have passed since the claim. *)
ClaimLapses ==
    /\ claim # Nobody
    /\ claim' = Nobody
    /\ UNCHANGED <<callVars, queueVars, faults>>

-----------------------------------------------------------------------------
(* The queue *)

StartJob(j) ==
    /\ job[j] = "waiting"
    /\ job' = [job EXCEPT ![j] = "active"]
    /\ UNCHANGED <<callVars, claim, added, backed, removed, faults>>

(* A job ends when its processor, which awaits its own call, is done. *)
EndJob(j) ==
    /\ job[j] = "active"
    /\ \A c \in Calls : maker[c] = j => pc[c] \in Settled
    /\ job' = [job EXCEPT ![j] = "ended"]
    /\ UNCHANGED <<callVars, claim, added, backed, removed, faults>>

(* Retention limits, or data.delete. *)
RemoveJob(j) ==
    /\ job[j] \in {"waiting", "ended"}
    /\ job' = [job EXCEPT ![j] = "none"]
    /\ removed' = TRUE
    /\ UNCHANGED <<callVars, claim, added, backed, faults>>

QueueStep == \E j \in JobIds : StartJob(j) \/ EndJob(j) \/ RemoveJob(j)

CallStep(c) ==
    \/ \E m \in JobIds \cup {Nobody} : Begin(c, m) \/ BeginWithoutClient(c, m)
    \/ Step(c)
    \/ RedisFails(c)
    \/ CallerDies(c)

Next == ClaimLapses \/ QueueStep \/ \E c \in Calls : CallStep(c)

Spec == Init /\ [][Next]_vars

(* Replies arrive and expiry happens; jobs, failures and deaths need not. *)
FairSpec == Spec /\ WF_vars(ClaimLapses) /\ \A c \in Calls : WF_vars(Step(c))

-----------------------------------------------------------------------------
(* Properties *)

(* A request is dropped in two ways only, as long as jobs stay in the queue: *)
(* the add of a winner met a finished job and the reply was prompt, so that  *)
(* the check of the timestamp saw nothing; or a Redis command failed and the *)
(* answer is fail-open.  Any other call, by the time it is answered, has had *)
(* a job for its id that waited or ran at some moment of the call.           *)
NoRequestLost ==
    ~removed => \A c \in Calls :
        pc[c] = "answered" =>
            \/ backed[c]
            \/ outcome[c] = "enqueued_new" /\ ~slow[c] /\ job[Canonical] = "ended"
            \/ outcome[c] = "enqueued_fail_open" /\ faults < MaxFaults

(* However a call goes on after lost replies (an add that was executed,      *)
(* the release, the bare add of handleFailOpen), it creates at most one job, *)
(* as long as jobs stay in the queue; a second one only under its retry id,  *)
(* after a slow reply.                                                       *)
OneJobPerCall ==
    ~removed => \A c \in Calls :
        added[c] <= 1 \/ (added[c] = 2 /\ slow[c] /\ job[c] # "none")

(* While the canonical job waits or runs it is the only job of its id,     *)
(* with any number of claims lost, expired or bypassed: as long as jobs    *)
(* stay in the queue, duplicates begin only after it has ended.            *)
CanonicalLiveAlone ==
    ~removed => (job[Canonical] \in Live => LiveJobs = {Canonical})

(* A claim is lost only by its holder's own release or by expiry, never    *)
(* by the late release of a call whose own claim expired before.           *)
ClaimReleasedByOwner ==
    [][\A c \in Calls : claim = c /\ claim' # c =>
          /\ claim' = Nobody
          /\ UNCHANGED pc \/ (pc[c] = "release" /\ pc'[c] # "release")]_vars

(* No claim outlives the process that took it for good. *)
ClaimFreed == \A c \in Calls : claim = c ~> claim # c

(* Every call is answered unless its process dies: none waits for another. *)
CallsAnswered == \A c \in Calls : Running(c) ~> pc[c] \in Settled
=============================================================================
