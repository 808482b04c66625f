------------------------- MODULE BackfillForkProofs -------------------------
(***************************************************************************)
(* What holds of a backfill job for any number of worker processes and of  *)
(* faults, crashes and takes, and any lengths of the locks and timeouts    *)
(* that ForkAssumption allows.                                             *)
(***************************************************************************)
EXTENDS BackfillFork, TLAPS

Pcs == {"idle", "acquire", "fork", "child", "fallback", "release", "answered", "failed"}
Words == {"progress", "done", "error"}
Counts == {"none", "partial", "final", "overwritten", "invalid"}

-----------------------------------------------------------------------------
(* Types *)

LEMMA Bounds ==
  /\ LockTicks \in Nat /\ RenewTicks \in Nat /\ GrantTicks \in Nat
  /\ TtlTicks \in Nat /\ HeartbeatTicks \in Nat /\ TimeoutTicks \in Nat
  /\ MaxTakes \in Nat /\ MaxFaults \in Nat /\ MaxCrashes \in Nat
  BY ForkAssumption

LEMMA GotoTyped ==
  ASSUME TypeOK, NEW w \in Workers, NEW p \in Pcs, Goto(w, p)
  PROVE  pc' \in [Workers -> Pcs]
  BY DEF TypeOK, Goto, Pcs

LEMMA FaultTyped ==
  ASSUME TypeOK, Fault \/ UNCHANGED faults
  PROVE  faults' \in 0..MaxFaults
  BY Bounds DEF TypeOK, Fault

LEMMA SayTyped ==
  ASSUME TypeOK, NEW w \in Workers, NEW m \in Words, Say(w, m)
  PROVE  pipe' \in [Workers -> Seq(Words)]
  BY DEF TypeOK, Say, Words

LEMMA ExitTyped ==
  ASSUME TypeOK, NEW w \in Workers, NEW v \in {"clean", "error"}, Exit(w, v)
  PROVE  /\ child' \in [Workers -> {"none", "live", "doomed", "exited"}]
         /\ verdict' \in [Workers -> {"clean", "error"}]
  BY DEF TypeOK, Exit

LEMMA LockingTyped ==
  ASSUME TypeOK, NEW w \in Workers,
         TakeJob(w) \/ Acquire(w) \/ AcquireRefused(w) \/ AcquireFailsOpen(w)
           \/ Fork(w) \/ ForkFails(w)
  PROVE  TypeOK'
  <1> USE Bounds DEF TypeOK, queue, locks, run, kid, speech, LockUnchanged
  <1>1. CASE TakeJob(w)
    BY <1>1, GotoTyped DEF TakeJob, Pcs
  <1>2. CASE Acquire(w)
    <2>1. /\ handle' \in [Workers -> BOOLEAN] /\ bare' \in [Workers -> BOOLEAN]
      BY <1>2, Zenon DEF Acquire
    <2> QED  BY <1>2, <2>1, GotoTyped DEF Acquire, Pcs
  <1>3. CASE AcquireRefused(w)
    BY <1>3, GotoTyped DEF AcquireRefused, Pcs
  <1>4. CASE AcquireFailsOpen(w)
    <2>1. bare' \in [Workers -> BOOLEAN]
      BY <1>4, Zenon DEF AcquireFailsOpen
    <2>2. faults' \in 0..MaxFaults
      BY <1>4, FaultTyped DEF AcquireFailsOpen
    <2>3. holder' \in Workers \cup {Nobody} /\ ttl' \in 0..TtlTicks
      BY <1>4 DEF AcquireFailsOpen
    <2>4. pc' \in [Workers -> Pcs]
      BY <1>4, GotoTyped DEF AcquireFailsOpen, Pcs
    <2> QED  BY <1>4, <2>1, <2>2, <2>3, <2>4 DEF AcquireFailsOpen, Pcs
  <1>5. CASE Fork(w)
    BY <1>5, GotoTyped DEF Fork, Pcs
  <1>6. CASE ForkFails(w)
    <2>1. bare' \in [Workers -> BOOLEAN]
      BY <1>6, Zenon DEF ForkFails
    <2> QED  BY <1>6, <2>1, GotoTyped DEF ForkFails, Pcs
  <1> QED  BY <1>1, <1>2, <1>3, <1>4, <1>5, <1>6

LEMMA ChildTyped ==
  ASSUME TypeOK, NEW w \in Workers, ChildStep(w)
  PROVE  TypeOK'
  <1>1. pipe' \in [Workers -> Seq(Words)]
    <2>1. CASE UNCHANGED pipe
      BY <2>1 DEF TypeOK, Words
    <2>2. CASE \E m \in Words : Say(w, m)
      BY <2>2, SayTyped
    <2> QED  BY <2>1, <2>2 DEF ChildStep, ChildProgress, ChildDies, ChildEnds, Words
  <1>2. /\ child' \in [Workers -> {"none", "live", "doomed", "exited"}]
        /\ verdict' \in [Workers -> {"clean", "error"}]
    BY ExitTyped DEF ChildStep, ChildProgress, ChildDies, ChildEnds, TypeOK
  <1>3. mute' \in [Workers -> BOOLEAN]
    BY Zenon DEF ChildStep, ChildProgress, ChildDies, ChildEnds, TypeOK
  <1>4. KidUnchanged
    BY DEF ChildStep, ChildProgress, ChildDies, ChildEnds
  <1> QED  BY <1>1, <1>2, <1>3, <1>4 DEF TypeOK, KidUnchanged, queue, locks, run, Words

LEMMA ParentTyped ==
  ASSUME TypeOK, NEW w \in Workers,
         Hear(w) \/ ProgressSaved(w) \/ Relay(w) \/ TimeOut(w) \/ Settle(w)
  PROVE  TypeOK'
  <1> USE Bounds DEF TypeOK, queue, locks, run, kid, speech, ParentUnchanged
  <1>1. CASE Hear(w)
    <2>1. saving' \in [Workers -> BOOLEAN]
      BY <1>1, Zenon DEF Hear
    <2>2. pipe' \in [Workers -> Seq(Words)]
      BY <1>1 DEF Hear, Words
    <2>3. count' \in [Workers -> Counts]
      BY <1>1 DEF Hear, Counts
    <2> QED  BY <1>1, <2>1, <2>2, <2>3 DEF Hear, Words, Counts
  <1>2. CASE ProgressSaved(w)
    <2>1. saving' \in [Workers -> BOOLEAN]
      BY <1>2, Zenon DEF ProgressSaved
    <2>2. count' \in [Workers -> Counts]
      <3>1. PICK c \in Counts : count' = [count EXCEPT ![w] = c]
        BY <1>2 DEF ProgressSaved, Counts
      <3> QED  BY <3>1 DEF Counts
    <2> QED  BY <1>2, <2>1, <2>2 DEF ProgressSaved, Counts
  <1>3. CASE Relay(w)
    <2>1. relay' \in [Workers -> BOOLEAN]
      BY <1>3, Zenon DEF Relay
    <2> QED  BY <1>3, <2>1, FaultTyped DEF Relay
  <1>4. CASE TimeOut(w)
    BY <1>4 DEF TimeOut
  <1>5. CASE Settle(w)
    <2>1. /\ relay' \in [Workers -> BOOLEAN] /\ saving' \in [Workers -> BOOLEAN]
          /\ bare' \in [Workers -> BOOLEAN]
      BY <1>5, Zenon DEF Settle
    <2> QED  BY <1>5, <2>1, GotoTyped DEF Settle, Pcs
  <1> QED  BY <1>1, <1>2, <1>3, <1>4, <1>5

LEMMA EndTyped ==
  ASSUME TypeOK, NEW w \in Workers,
         Release(w) \/ Answer(w) \/ CompleteJob(w) \/ FailJob(w)
  PROVE  TypeOK'
  <1> USE Bounds DEF TypeOK, queue, locks, kid, speech
  <1>1. CASE Release(w)
    <2>1. handle' \in [Workers -> BOOLEAN]
      BY <1>1, Zenon DEF Release
    <2>2. faults' \in 0..MaxFaults
      BY <1>1, FaultTyped DEF Release
    <2>3. holder' \in Workers \cup {Nobody} /\ ttl' \in 0..TtlTicks
      BY <1>1 DEF Release
    <2> QED  BY <1>1, <2>1, <2>2, <2>3 DEF Release
  <1>2. CASE Answer(w)
    <2>1. mute' \in [Workers -> BOOLEAN]
      BY <1>2, Zenon DEF Answer
    <2> QED  BY <1>2, <2>1, GotoTyped DEF Answer, Pcs
  <1>3. CASE CompleteJob(w)
    <2>1. pc' \in [Workers -> Pcs]
      BY <1>3, GotoTyped DEF CompleteJob, EndRun, Pcs
    <2>2. proc' \in [Workers -> {"up", "down"}]
      BY <1>3 DEF CompleteJob
    <2>3. /\ job' \in {"waiting", "active", "ended"} /\ lease' \in Nat
          /\ owner' \in Workers \cup {Nobody} /\ renew' \in [Workers -> 0..RenewTicks]
      BY <1>3 DEF CompleteJob, EndRun
    <2> QED  BY <1>3, <2>1, <2>2, <2>3 DEF CompleteJob, EndRun, Pcs
  <1>4. CASE FailJob(w)
    BY <1>4, GotoTyped DEF FailJob, EndRun, Pcs
  <1> QED  BY <1>1, <1>2, <1>3, <1>4

LEMMA ProcessTyped ==
  ASSUME TypeOK, NEW w \in Workers, StartWorker(w) \/ CrashWorker(w) \/ Renew(w)
  PROVE  TypeOK'
  <1> USE Bounds DEF TypeOK, queue, locks, kid, speech
  <1>1. CASE StartWorker(w)
    <2>1. faults' \in 0..MaxFaults
      BY <1>1 DEF StartWorker, Fault
    <2>2. /\ job' \in {"waiting", "active", "ended"} /\ lease' \in Nat
          /\ owner' \in Workers \cup {Nobody}
      BY <1>1 DEF StartWorker
    <2> QED  BY <1>1, <2>1, <2>2 DEF StartWorker
  <1>2. CASE CrashWorker(w)
    <2>1. /\ handle' \in [Workers -> BOOLEAN] /\ relay' \in [Workers -> BOOLEAN]
          /\ saving' \in [Workers -> BOOLEAN] /\ mute' \in [Workers -> BOOLEAN]
      BY <1>2, Zenon DEF CrashWorker
    <2>2. child' \in [Workers -> {"none", "live", "doomed", "exited"}]
      BY <1>2 DEF CrashWorker
    <2> QED  BY <1>2, <2>1, <2>2, GotoTyped DEF CrashWorker, Pcs
  <1>3. CASE Renew(w)
    <2>1. faults' \in 0..MaxFaults
      BY <1>3, FaultTyped DEF Renew
    <2>2. lease' \in Nat /\ renew' \in [Workers -> 0..RenewTicks]
      BY <1>3 DEF Renew
    <2> QED  BY <1>3, <2>1, <2>2 DEF Renew
  <1> QED  BY <1>1, <1>2, <1>3

LEMMA TimeTyped ==
  ASSUME TypeOK, Time
  PROVE  TypeOK'
  <1> USE Bounds DEF TypeOK, queue, locks, run, kid, speech
  <1>1. CASE JobLockLapses
    BY <1>1 DEF JobLockLapses
  <1>2. CASE PerJobLockLapses
    <2>1. bare' \in [Workers -> BOOLEAN]
      BY <1>2, Zenon DEF PerJobLockLapses
    <2> QED  BY <1>2, <2>1 DEF PerJobLockLapses
  <1>3. CASE Stall
    BY <1>3 DEF Stall
  <1>4. CASE Tick
    <2>1. relay' \in [Workers -> BOOLEAN]
      BY <1>4, Zenon DEF Tick
    <2>2. age' \in [Workers -> 0..TimeoutTicks]
      BY <1>4 DEF Tick, Quiet
    <2>3. renew' \in [Workers -> 0..RenewTicks] /\ lease' \in Nat /\ ttl' \in 0..TtlTicks
      BY <1>4 DEF Tick, Less
    <2> QED  BY <1>4, <2>1, <2>2, <2>3 DEF Tick
  <1> QED  BY <1>1, <1>2, <1>3, <1>4 DEF Time

LEMMA StepTyped ==
  ASSUME TypeOK, [Next]_vars
  PROVE  TypeOK'
  <1>1. CASE UNCHANGED vars
    BY <1>1 DEF TypeOK, vars, queue, locks, run, kid, speech
  <1>2. ASSUME NEW w \in Workers, WorkerStep(w)
        PROVE  TypeOK'
    BY <1>2, LockingTyped, ChildTyped, ParentTyped, EndTyped, ProcessTyped
       DEF WorkerStep, RunStep
  <1> QED  BY <1>1, <1>2, TimeTyped DEF Next

(* Every variable stays in its range: the pipe carries the child's three   *)
(* messages only, a child is never timed out later than its limit.         *)
THEOREM TypeCorrect == Spec => []TypeOK
  <1>1. Init => TypeOK
    BY Bounds, ForkAssumption DEF Init, TypeOK, All
  <1> QED  BY <1>1, StepTyped, PTL DEF Spec

-----------------------------------------------------------------------------
(* Processes, children and the per-job lock *)

(* Only a running process is anywhere in a run, it is at its child's side   *)
(* while the child lives, and whoever has forked or is about to, and has    *)
(* not lost sight of the lock, holds it.                                    *)
Running == \A w \in Workers : pc[w] # "idle" => proc[w] = "up"
Covered == \A w \in Workers : Alive(w) \/ pc[w] = "fork" => bare[w] \/ holder = w
Apart == Running /\ FallbackAlone /\ Covered

LEMMA LockingApart ==
  ASSUME TypeOK, Apart, NEW w \in Workers,
         TakeJob(w) \/ Acquire(w) \/ AcquireRefused(w) \/ AcquireFailsOpen(w)
           \/ Fork(w) \/ ForkFails(w)
  PROVE  Apart'
  <1> USE DEF TypeOK, Apart, Running, FallbackAlone, Covered, Alive, Goto,
              queue, locks, run, kid, LockUnchanged
  <1>1. CASE TakeJob(w)
    BY <1>1 DEF TakeJob
  <1>2. CASE Acquire(w)
    <2>1. \A v \in Workers \ {w} : bare'[v] = bare[v]
      BY <1>2 DEF Acquire
    <2>2. holder = Nobody /\ holder' = w /\ UNCHANGED <<proc, child>>
      BY <1>2 DEF Acquire
    <2>3. pc[w] = "acquire" /\ pc' = [pc EXCEPT ![w] = "fork"]
      BY <1>2 DEF Acquire
    <2>4. \A v \in Workers : (Alive(v) \/ pc[v] = "fork") /\ v # w => bare[v]
      BY <2>2, ForkAssumption
    <2>5. Covered'
      <3>1. ASSUME NEW v \in Workers, (Alive(v) \/ pc[v] = "fork")', v # w
            PROVE  bare'[v]
        <4>1. Alive(v) \/ pc[v] = "fork"
          BY <2>2, <2>3, <3>1
        <4> QED  BY <2>1, <2>4, <3>1, <4>1
      <3> QED  BY <2>2, <3>1
    <2>6. Running' /\ FallbackAlone'
      BY <2>2, <2>3
    <2> QED  BY <2>5, <2>6
  <1>3. CASE AcquireRefused(w)
    BY <1>3 DEF AcquireRefused
  <1>4. CASE AcquireFailsOpen(w)
    <2>1. bare'[w] = TRUE /\ \A v \in Workers \ {w} : bare'[v] = bare[v]
      BY <1>4, Zenon DEF AcquireFailsOpen
    <2>2. (holder' = holder \/ holder = Nobody) /\ UNCHANGED <<proc, child>>
      BY <1>4 DEF AcquireFailsOpen
    <2>3. pc[w] = "acquire" /\ pc' = [pc EXCEPT ![w] = "fork"]
      BY <1>4 DEF AcquireFailsOpen
    <2>4. ASSUME NEW v \in Workers, (Alive(v) \/ pc[v] = "fork")'
          PROVE  (bare[v] \/ holder = v)'
      <3>1. CASE v = w
        BY <2>1, <3>1
      <3>2. CASE v # w
        <4>1. bare[v] \/ holder = v
          BY <2>2, <2>3, <2>4, <3>2
        <4>2. holder = v => holder' = v
          BY <2>2, ForkAssumption
        <4> QED  BY <2>1, <3>2, <4>1, <4>2
      <3> QED  BY <3>1, <3>2
    <2>5. Running' /\ FallbackAlone'
      BY <2>2, <2>3
    <2> QED  BY <2>4, <2>5
  <1>5. CASE Fork(w)
    BY <1>5 DEF Fork
  <1>6. CASE ForkFails(w)
    BY <1>6 DEF ForkFails
  <1> QED  BY <1>1, <1>2, <1>3, <1>4, <1>5, <1>6

LEMMA ChildApart ==
  ASSUME TypeOK, Apart, NEW w \in Workers, ChildStep(w)
  PROVE  Apart'
  <1>1. UNCHANGED <<proc, pc, bare, holder>>
    BY DEF ChildStep, ChildProgress, ChildDies, ChildEnds, KidUnchanged, run, locks
  <1>2. child' = child \/ Exit(w, "clean") \/ Exit(w, "error")
    BY DEF ChildStep, ChildProgress, ChildDies, ChildEnds
  <1>3. \A v \in Workers : Alive(v)' => Alive(v)
    BY <1>2 DEF TypeOK, Alive, Exit
  <1> QED  BY <1>1, <1>3 DEF Apart, Running, FallbackAlone, Covered

LEMMA RunApart ==
  ASSUME TypeOK, Apart, NEW w \in Workers,
         Hear(w) \/ ProgressSaved(w) \/ Relay(w) \/ TimeOut(w) \/ Settle(w)
           \/ Release(w) \/ Answer(w) \/ CompleteJob(w) \/ FailJob(w)
  PROVE  Apart'
  <1> USE DEF TypeOK, Apart, Running, FallbackAlone, Covered, Alive, Goto,
              queue, locks, run, kid, ParentUnchanged, EndRun
  <1>1. CASE Hear(w) \/ ProgressSaved(w) \/ Relay(w)
    BY <1>1 DEF Hear, ProgressSaved, Relay
  <1>2. CASE TimeOut(w)
    BY <1>2 DEF TimeOut
  <1>3. CASE Settle(w)
    BY <1>3 DEF Settle
  <1>4. CASE Release(w)
    BY <1>4, ForkAssumption DEF Release
  <1>5. CASE Answer(w)
    BY <1>5 DEF Answer
  <1>6. CASE CompleteJob(w)
    BY <1>6 DEF CompleteJob
  <1>7. CASE FailJob(w)
    BY <1>7 DEF FailJob
  <1> QED  BY <1>1, <1>2, <1>3, <1>4, <1>5, <1>6, <1>7

LEMMA ProcessApart ==
  ASSUME TypeOK, Apart, NEW w \in Workers, StartWorker(w) \/ CrashWorker(w) \/ Renew(w)
  PROVE  Apart'
  <1> USE DEF TypeOK, Apart, Running, FallbackAlone, Covered, Alive, Goto, queue, locks, kid
  <1>1. CASE StartWorker(w)
    BY <1>1 DEF StartWorker
  <1>2. CASE CrashWorker(w)
    BY <1>2 DEF CrashWorker
  <1>3. CASE Renew(w)
    BY <1>3 DEF Renew
  <1> QED  BY <1>1, <1>2, <1>3

LEMMA TimeApart ==
  ASSUME TypeOK, Apart, Time
  PROVE  Apart'
  <1> USE DEF TypeOK, Apart, Running, FallbackAlone, Covered, Alive, queue, locks, run, kid
  <1>1. CASE JobLockLapses \/ Stall \/ Tick
    BY <1>1 DEF JobLockLapses, Stall, Tick
  <1>2. CASE PerJobLockLapses
    <2>1. UNCHANGED <<proc, pc, child>> /\ holder' = Nobody /\ holder \in Workers
      BY <1>2 DEF PerJobLockLapses
    <2>2. \A v \in Workers \ {holder} : bare'[v] = bare[v]
      BY <1>2 DEF PerJobLockLapses
    <2>3. child[holder] # "none" \/ pc[holder] = "fork" => bare'[holder]
      BY <1>2, <2>1, Zenon DEF PerJobLockLapses
    <2> QED  BY <2>1, <2>2, <2>3
  <1> QED  BY <1>1, <1>2 DEF Time

LEMMA ApartCorrect == Spec => []Apart
  <1>1. Init => Apart
    BY DEF Init, Apart, Running, FallbackAlone, Covered, Alive, All
  <1>2. ASSUME TypeOK, Apart, [Next]_vars
        PROVE  Apart'
    <2>1. CASE UNCHANGED vars
      BY <1>2, <2>1 DEF Apart, Running, FallbackAlone, Covered, Alive,
                        vars, queue, locks, run, kid
    <2>2. ASSUME NEW w \in Workers, WorkerStep(w)
          PROVE  Apart'
      BY <1>2, <2>2, LockingApart, ChildApart, RunApart, ProcessApart DEF WorkerStep, RunStep
    <2> QED  BY <1>2, <2>1, <2>2, TimeApart DEF Next
  <1> QED  BY <1>1, <1>2, TypeCorrect, PTL DEF Spec

(* A process falls back to its own work, or goes on to its answer, only     *)
(* when the child it forked is gone.                                        *)
THEOREM AloneCorrect == Spec => []FallbackAlone
  BY ApartCorrect, PTL DEF Apart

(* Two children of the job that live at a time are never both covered by    *)
(* the per-job lock: one was forked without it, or has outlived it.         *)
THEOREM TwinsCorrect == Spec => []NoCoveredTwins
  <1>1. Apart => NoCoveredTwins
    BY DEF Apart, Covered, NoCoveredTwins
  <1> QED  BY <1>1, ApartCorrect, PTL

-----------------------------------------------------------------------------
(* The child's last words *)

Final(w) == count[w] \in {"final", "overwritten"} \/ mute[w]
InPipe(w) == \E i \in 1..Len(pipe[w]) : pipe[w][i] = "done"

(* The word of a child that ended well is in the pipe until it is heard, *)
(* unless a message was invalid: then the run does not succeed.          *)
Invalid(w) == count[w] = "invalid"
Kept(w) ==
    pc[w] = "child" /\ child[w] = "exited" /\ verdict[w] = "clean"
    => Final(w) \/ InPipe(w) \/ Invalid(w)
Heard == \A w \in Workers : Kept(w) /\ (pc[w] = "release" => Final(w))

LEMMA AppendKeeps ==
  ASSUME NEW s \in Seq(Words), NEW m \in Words,
         m = "done" \/ \E i \in 1..Len(s) : s[i] = "done"
  PROVE  \E i \in 1..Len(Append(s, m)) : Append(s, m)[i] = "done"
  OBVIOUS

LEMMA TailKeeps ==
  ASSUME NEW s \in Seq(Words), s # <<>>, Head(s) # "done",
         NEW i \in 1..Len(s), s[i] = "done"
  PROVE  \E j \in 1..Len(Tail(s)) : Tail(s)[j] = "done"
  <1>1. i > 1 /\ i - 1 \in 1..Len(Tail(s))
    OBVIOUS
  <1>2. Tail(s)[i - 1] = "done"
    BY <1>1
  <1> QED  BY <1>1, <1>2

(* A step that leaves a worker's place, child and messages alone. *)
LEMMA OthersHeard ==
  ASSUME Heard, NEW w \in Workers,
         \A v \in Workers \ {w} :
            /\ pc'[v] = pc[v] /\ child'[v] = child[v] /\ verdict'[v] = verdict[v]
            /\ count'[v] = count[v] /\ mute'[v] = mute[v] /\ pipe'[v] = pipe[v],
         Kept(w)', pc'[w] = "release" => Final(w)'
  PROVE  Heard'
  BY DEF Heard, Kept, Final, InPipe, Invalid

LEMMA ChildHeard ==
  ASSUME TypeOK, Apart, Heard, NEW w \in Workers, ChildStep(w)
  PROVE  Heard'
  <1> USE DEF TypeOK, KidUnchanged, run
  <1>1. /\ pc' = pc /\ count' = count
        /\ \A v \in Workers \ {w} :
              /\ child'[v] = child[v] /\ verdict'[v] = verdict[v]
              /\ mute'[v] = mute[v] /\ pipe'[v] = pipe[v]
    BY DEF ChildStep, ChildProgress, ChildDies, ChildEnds, Say, Exit
  <1>2. pc[w] # "release"
    BY DEF Apart, Running, FallbackAlone, Alive, ChildStep, ChildProgress, ChildDies, ChildEnds
  <1>3. Kept(w)'
    <2>1. CASE ChildProgress(w)
      <3>1. child'[w] = "live"
        BY <2>1 DEF ChildProgress
      <3> QED  BY <3>1 DEF Kept
    <2>2. CASE ChildDies(w) \/ ChildEnds(w, "error", "error")
      <3>1. child'[w] = "exited" => verdict'[w] = "error"
        BY <2>2 DEF ChildDies, ChildEnds, Exit
      <3> QED  BY <3>1 DEF Kept
    <2>3. CASE ChildEnds(w, "done", "clean")
      <3>1. SUFFICES ASSUME pc[w] = "child"
                     PROVE  Final(w)' \/ InPipe(w)'
        BY <1>1 DEF Kept
      <3>2. proc[w] = "up"
        BY <3>1 DEF Apart, Running
      <3>3. CASE Say(w, "done")
        <4>1. pipe'[w] = Append(pipe[w], "done") /\ pipe[w] \in Seq(Words)
          BY <3>2, <3>3 DEF Say, Words
        <4> QED  BY <4>1, AppendKeeps DEF InPipe, Words
      <3>4. CASE mute' = [mute EXCEPT ![w] = proc[w] = "up"]
        <4>1. mute'[w]
          BY <3>2, <3>4, Zenon
        <4> QED  BY <4>1 DEF Final
      <3> QED  BY <2>3, <3>3, <3>4 DEF ChildEnds
    <2> QED  BY <2>1, <2>2, <2>3 DEF ChildStep
  <1> QED  BY <1>1, <1>2, <1>3, OthersHeard

LEMMA ParentHeard ==
  ASSUME TypeOK, Apart, Heard, NEW w \in Workers, Hear(w) \/ ProgressSaved(w) \/ Settle(w)
  PROVE  Heard'
  <1> USE DEF TypeOK, ParentUnchanged
  <1>1. CASE Hear(w)
    <2>1. /\ pc' = pc /\ child' = child /\ verdict' = verdict /\ mute' = mute
          /\ pipe'[w] = Tail(pipe[w]) /\ pipe[w] # <<>> /\ pc[w] = "child"
          /\ \A v \in Workers \ {w} : count'[v] = count[v] /\ pipe'[v] = pipe[v]
      BY <1>1 DEF Hear
    <2>2. \/ Invalid(w)'
          \/ count'[w] = IF Head(pipe[w]) = "done" THEN "final" ELSE count[w]
      BY <1>1 DEF Hear, Invalid
    <2>3. Final(w) \/ Invalid(w) => Final(w)' \/ Invalid(w)'
      BY <1>1, <2>1 DEF Hear, Final, Invalid
    <2>4. InPipe(w) => Final(w)' \/ InPipe(w)' \/ Invalid(w)'
      <3>1. CASE Head(pipe[w]) = "done"
        BY <2>2, <3>1 DEF Final
      <3>2. CASE Head(pipe[w]) # "done"
        <4>1. pipe[w] \in Seq(Words)
          BY DEF Words
        <4> QED  BY <2>1, <3>2, <4>1, TailKeeps DEF InPipe
      <3> QED  BY <3>1, <3>2
    <2>5. Kept(w)'
      BY <2>1, <2>3, <2>4 DEF Kept, Heard
    <2> QED  BY <2>1, <2>5, OthersHeard
  <1>2. CASE ProgressSaved(w)
    <2>1. /\ pc' = pc /\ child' = child /\ verdict' = verdict /\ mute' = mute /\ pipe' = pipe
          /\ \A v \in Workers \ {w} : count'[v] = count[v]
          /\ pc[w] = "child"
      BY <1>2 DEF ProgressSaved
    <2>2. Final(w) \/ Invalid(w) => Final(w)' \/ Invalid(w)'
      BY <1>2, <2>1 DEF ProgressSaved, Final, Invalid
    <2>3. Kept(w)'
      BY <2>1, <2>2 DEF Kept, Heard, InPipe
    <2> QED  BY <2>1, <2>3, OthersHeard
  <1>3. CASE Settle(w)
    <2>1. /\ count' = count /\ mute' = mute /\ pipe' = pipe /\ pipe[w] = <<>>
          /\ pc[w] = "child" /\ child[w] = "exited"
          /\ pc'[w] \in {"release", "fallback"}
          /\ pc'[w] = "release" => verdict[w] = "clean" /\ ~Invalid(w)
          /\ \A v \in Workers \ {w} :
                pc'[v] = pc[v] /\ child'[v] = child[v] /\ verdict'[v] = verdict[v]
      BY <1>3 DEF Settle, Succeeded, Invalid, Goto
    <2>2. ~InPipe(w)
      BY <2>1 DEF InPipe
    <2>3. pc'[w] = "release" => Final(w)'
      BY <2>1, <2>2 DEF Heard, Kept, Final
    <2>4. Kept(w)'
      BY <2>1 DEF Kept
    <2> QED  BY <2>1, <2>3, <2>4, OthersHeard
  <1> QED  BY <1>1, <1>2, <1>3

(* What else a worker does neither ends its run's last words nor its child. *)
LEMMA RestHeard ==
  ASSUME TypeOK, Apart, Heard, NEW w \in Workers,
         \/ TakeJob(w) \/ Acquire(w) \/ AcquireRefused(w) \/ AcquireFailsOpen(w)
         \/ Fork(w) \/ ForkFails(w) \/ Relay(w) \/ TimeOut(w) \/ Release(w)
         \/ Answer(w) \/ CompleteJob(w) \/ FailJob(w)
         \/ StartWorker(w) \/ CrashWorker(w) \/ Renew(w)
  PROVE  Heard'
  <1> USE DEF TypeOK, Goto, LockUnchanged, ParentUnchanged, EndRun, queue, locks, run, kid, speech
  <1>1. CASE Relay(w) \/ Release(w) \/ StartWorker(w) \/ Renew(w)
    <2>1. UNCHANGED <<pc, child, verdict, count, mute, pipe>>
      BY <1>1 DEF Relay, Release, StartWorker, Renew
    <2> QED  BY <2>1 DEF Heard, Kept, Final, InPipe, Invalid
  <1>2. CASE \/ TakeJob(w) \/ Acquire(w) \/ AcquireRefused(w) \/ AcquireFailsOpen(w)
             \/ ForkFails(w) \/ CompleteJob(w) \/ FailJob(w)
    <2>1. /\ pc'[w] \notin {"child", "release"}
          /\ \A v \in Workers \ {w} : pc'[v] = pc[v]
      BY <1>2 DEF TakeJob, Acquire, AcquireRefused, AcquireFailsOpen, ForkFails,
                  CompleteJob, FailJob
    <2>2. UNCHANGED <<child, verdict, count, mute, pipe>>
      BY <1>2 DEF TakeJob, Acquire, AcquireRefused, AcquireFailsOpen, ForkFails,
                  CompleteJob, FailJob
    <2> QED  BY <2>1, <2>2, OthersHeard DEF Kept
  <1>3. CASE Fork(w) \/ TimeOut(w)
    <2>1. /\ pc'[w] = "child" /\ child'[w] # "exited"
          /\ \A v \in Workers \ {w} : pc'[v] = pc[v] /\ child'[v] = child[v]
      BY <1>3 DEF Fork, TimeOut
    <2>2. UNCHANGED <<verdict, count, mute, pipe>>
      BY <1>3 DEF Fork, TimeOut
    <2> QED  BY <2>1, <2>2, OthersHeard DEF Kept
  <1>4. CASE Answer(w) \/ CrashWorker(w)
    <2>1. /\ pc'[w] \notin {"child", "release"}
          /\ \A v \in Workers \ {w} : pc'[v] = pc[v] /\ child'[v] = child[v]
      BY <1>4 DEF Answer, CrashWorker
    <2>2. \A v \in Workers \ {w} :
             verdict'[v] = verdict[v] /\ count'[v] = count[v] /\ pipe'[v] = pipe[v]
      BY <1>4 DEF Answer, CrashWorker
    <2>3. \A v \in Workers \ {w} : mute'[v] = mute[v]
      BY <1>4, Zenon DEF Answer, CrashWorker
    <2> QED  BY <2>1, <2>2, <2>3, OthersHeard DEF Kept
  <1> QED  BY <1>1, <1>2, <1>3, <1>4

(* A run succeeds only when its child's report was heard, or was lost at   *)
(* the child's own exit: the parent never settles before reading it.       *)
THEOREM HeardCorrect == Spec => []DoneHeard
  <1>1. Init => Heard
    BY DEF Init, Heard, Kept, All
  <1>2. ASSUME TypeOK, Apart, Heard, [Next]_vars
        PROVE  Heard'
    <2>1. CASE UNCHANGED <<pc, child, verdict, count, mute, pipe>>
      BY <1>2, <2>1 DEF Heard, Kept, Final, InPipe, Invalid
    <2>2. CASE UNCHANGED vars \/ Time
      <3>1. UNCHANGED <<pc, child, verdict, count, mute, pipe>>
        BY <2>2 DEF vars, queue, locks, run, kid, speech, Time, JobLockLapses,
                    PerJobLockLapses, Stall, Tick
      <3> QED  BY <2>1, <3>1
    <2>3. ASSUME NEW w \in Workers, WorkerStep(w)
          PROVE  Heard'
      BY <1>2, <2>3, ChildHeard, ParentHeard, RestHeard DEF WorkerStep, RunStep
    <2> QED  BY <1>2, <2>2, <2>3 DEF Next
  <1>3. Heard => DoneHeard
    BY DEF Heard, Final, DoneHeard
  <1> QED  BY <1>1, <1>2, <1>3, TypeCorrect, ApartCorrect, PTL DEF Spec

-----------------------------------------------------------------------------
(* BullMQ's lock *)

(* Until a command fails the lock of a run that has, or will have, a child  *)
(* lasts beyond the next tick, or the relay is about to extend it.          *)
Leased ==
    faults = MaxFaults =>
        \A w \in Workers :
            owner = w =>
                /\ pc[w] \in {"acquire", "fork"} => lease > 1
                /\ pc[w] = "child" => lease > 0 /\ (lease > 1 \/ relay[w])

LEMMA FaultSpent ==
  ASSUME TypeOK, faults' = MaxFaults, Fault
  PROVE  FALSE
  BY Bounds DEF TypeOK, Fault

(* The lock is the same, or longer than an interval, and no run of its      *)
(* owner gets nearer to a child than it was.                                *)
LEMMA StaysLeased ==
  ASSUME TypeOK, Leased, faults' = MaxFaults => faults = MaxFaults,
         lease' = lease \/ lease' > 1, lease' \in Nat,
         \A w \in Workers : owner' = w =>
            /\ owner = w
            /\ pc'[w] \in {"acquire", "fork"} => pc[w] \in {"acquire", "fork"}
            /\ pc'[w] = "child" =>
                  \/ pc[w] \in {"acquire", "fork"}
                  \/ pc[w] = "child" /\ (relay'[w] = relay[w] \/ lease' > 1)
  PROVE  Leased'
  BY DEF TypeOK, Leased

LEMMA RunLeased ==
  ASSUME TypeOK, Leased, NEW w \in Workers,
         \/ Acquire(w) \/ AcquireRefused(w) \/ AcquireFailsOpen(w) \/ Fork(w) \/ ForkFails(w)
         \/ Hear(w) \/ ProgressSaved(w) \/ TimeOut(w) \/ Settle(w)
         \/ Release(w) \/ Answer(w) \/ ChildStep(w)
  PROVE  Leased'
  <1> USE DEF TypeOK, Goto, LockUnchanged, ParentUnchanged, KidUnchanged, queue, locks, run, kid
  <1>1. faults' = MaxFaults => faults = MaxFaults
    BY FaultSpent DEF Acquire, AcquireRefused, AcquireFailsOpen, Fork, ForkFails, Hear,
       ProgressSaved, TimeOut, Settle, Release, Answer, ChildStep, ChildProgress,
       ChildDies, ChildEnds
  <1>2. UNCHANGED <<owner, lease>>
    BY DEF Acquire, AcquireRefused, AcquireFailsOpen, Fork, ForkFails, Hear,
       ProgressSaved, TimeOut, Settle, Release, Answer, ChildStep, ChildProgress,
       ChildDies, ChildEnds
  <1>3. /\ pc' = pc \/ (pc[w] = "acquire" /\ pc' = [pc EXCEPT ![w] = "fork"])
                    \/ (pc[w] = "fork" /\ pc' = [pc EXCEPT ![w] = "child"])
                    \/ \E p \in Pcs \ {"acquire", "fork", "child"} : pc' = [pc EXCEPT ![w] = p]
        /\ \A v \in Workers : pc'[v] = "child" => relay'[v] = relay[v]
    <2>1. CASE Acquire(w) \/ AcquireRefused(w) \/ AcquireFailsOpen(w) \/ Fork(w) \/ ForkFails(w)
      BY <2>1 DEF Acquire, AcquireRefused, AcquireFailsOpen, Fork, ForkFails, Pcs
    <2>2. CASE Hear(w) \/ ProgressSaved(w) \/ TimeOut(w) \/ Release(w) \/ ChildStep(w)
      BY <2>2 DEF Hear, ProgressSaved, TimeOut, Release, ChildStep, ChildProgress,
                  ChildDies, ChildEnds
    <2>3. CASE Settle(w)
      <3>1. pc' = [pc EXCEPT ![w] = IF Succeeded(w) THEN "release" ELSE "fallback"]
        BY <2>3 DEF Settle
      <3>2. \A v \in Workers \ {w} : relay'[v] = relay[v]
        BY <2>3, Zenon DEF Settle
      <3> QED  BY <3>1, <3>2 DEF Pcs
    <2>4. CASE Answer(w)
      BY <2>4 DEF Answer, Pcs
    <2> QED  BY <2>1, <2>2, <2>3, <2>4
  <1>4. ASSUME NEW v \in Workers
        PROVE  /\ pc'[v] \in {"acquire", "fork"} => pc[v] \in {"acquire", "fork"}
               /\ pc'[v] = "child" => pc[v] \in {"acquire", "fork", "child"}
    BY <1>3, <1>4
  <1> QED  BY <1>1, <1>2, <1>3, <1>4, StaysLeased

(* The lock is the same, or free, and runs go on or end. *)
LEMMA FreedLeased ==
  ASSUME Leased, faults' = MaxFaults => faults = MaxFaults,
         owner' = Nobody \/ UNCHANGED <<owner, lease>>,
         \A v \in Workers : pc'[v] = "idle" \/ (pc'[v] = pc[v] /\ relay'[v] = relay[v])
  PROVE  Leased'
  BY ForkAssumption DEF Leased

LEMMA RestLeased ==
  ASSUME TypeOK, Apart, Leased, NEW w \in Workers,
         \/ TakeJob(w) \/ Relay(w) \/ Renew(w) \/ CompleteJob(w) \/ FailJob(w)
         \/ StartWorker(w) \/ CrashWorker(w)
  PROVE  Leased'
  <1> USE DEF TypeOK, Goto, ParentUnchanged, EndRun, queue, locks, run, kid
  <1>1. CASE TakeJob(w)
    <2>1. owner' = w /\ lease' > 1 /\ pc'[w] = "acquire"
      BY <1>1, ForkAssumption DEF TakeJob
    <2> QED  BY <2>1 DEF Leased
  <1>2. CASE Relay(w)
    <2>1. UNCHANGED <<owner, pc>>
      BY <1>2 DEF Relay
    <2>2. faults' = MaxFaults => faults = MaxFaults /\ lease' = IF owner = w THEN GrantTicks ELSE lease
      BY <1>2, FaultSpent DEF Relay
    <2>3. \A v \in Workers \ {w} : relay'[v] = relay[v]
      BY <1>2, Zenon DEF Relay
    <2>4. relay'[w] = FALSE /\ GrantTicks > 1
      BY <1>2, ForkAssumption, Zenon DEF Relay
    <2>5. CASE owner = w
      <3>1. \A v \in Workers : owner' = v => v = w
        BY <2>1, <2>5
      <3> QED  BY <2>1, <2>2, <2>4, <2>5, <3>1, Bounds DEF Leased
    <2>6. CASE owner # w
      BY <2>1, <2>2, <2>3, <2>6 DEF Leased
    <2> QED  BY <2>5, <2>6
  <1>3. CASE Renew(w)
    <2>1. UNCHANGED <<owner, pc, relay>>
      BY <1>3 DEF Renew
    <2>2. faults' = MaxFaults => faults = MaxFaults /\ lease' = IF owner = w THEN LockTicks ELSE lease
      BY <1>3, FaultSpent DEF Renew
    <2>3. LockTicks \in Nat /\ LockTicks > 1
      BY ForkAssumption
    <2>4. CASE owner = w
      BY <2>1, <2>2, <2>3, <2>4 DEF Leased
    <2>5. CASE owner # w
      BY <2>1, <2>2, <2>5 DEF Leased
    <2> QED  BY <2>4, <2>5
  <1>4. CASE CompleteJob(w) \/ FailJob(w)
    <2>1. UNCHANGED <<relay, faults>>
      BY <1>4 DEF CompleteJob, FailJob
    <2>2. owner' = Nobody \/ UNCHANGED <<owner, lease>>
      BY <1>4, Zenon DEF CompleteJob, FailJob
    <2>3. pc' = [pc EXCEPT ![w] = "idle"]
      BY <1>4, Zenon DEF CompleteJob, FailJob
    <2>4. \A v \in Workers : pc'[v] = "idle" \/ pc'[v] = pc[v]
      BY <2>3
    <2> QED  BY <2>1, <2>2, <2>4, FreedLeased
  <1>5. CASE StartWorker(w)
    <2>1. UNCHANGED <<relay, pc>>
      BY <1>5, Zenon DEF StartWorker
    <2>2. owner' = Nobody \/ UNCHANGED <<owner, lease>>
      BY <1>5, Zenon DEF StartWorker
    <2>3. faults' = MaxFaults => faults = MaxFaults
      BY <1>5, FaultSpent DEF StartWorker
    <2> QED  BY <2>1, <2>2, <2>3, FreedLeased
  <1>6. CASE CrashWorker(w)
    <2>1. UNCHANGED <<faults, owner, lease>> /\ pc' = [pc EXCEPT ![w] = "idle"]
      BY <1>6 DEF CrashWorker
    <2>2. \A v \in Workers \ {w} : relay'[v] = relay[v]
      BY <1>6, Zenon DEF CrashWorker
    <2>3. \A v \in Workers : pc'[v] = "idle" \/ (pc'[v] = pc[v] /\ relay'[v] = relay[v])
      BY <2>1, <2>2
    <2> QED  BY <2>1, <2>3, FreedLeased
  <1> QED  BY <1>1, <1>2, <1>3, <1>4, <1>5, <1>6

LEMMA TimeLeased ==
  ASSUME TypeOK, Leased, Time
  PROVE  Leased'
  <1> USE DEF TypeOK, queue, locks, run, kid
  <1>1. CASE Stall
    BY <1>1 DEF Stall, Leased
  <1>2. CASE JobLockLapses
    BY <1>2, ForkAssumption DEF JobLockLapses, Leased
  <1>3. CASE PerJobLockLapses
    BY <1>3 DEF PerJobLockLapses, Leased
  <1>4. CASE Tick
    <2>1. UNCHANGED <<owner, pc, faults>> /\ lease' = Less(lease)
      BY <1>4 DEF Tick
    <2>2. \A w \in Workers : ~relay[w] /\ pc[w] \notin {"acquire", "fork"}
      BY <1>4 DEF Tick, Quiet
    <2>3. \A w \in Workers : pc[w] = "child" => relay'[w]
      BY <1>4, Zenon DEF Tick
    <2> QED  BY <2>1, <2>2, <2>3 DEF Leased, Less
  <1> QED  BY <1>1, <1>2, <1>3, <1>4 DEF Time

(* Until a command fails the relay, late by up to an interval, keeps the    *)
(* job's lock from expiring under a running child, whatever it cut it to.   *)
THEOREM LockCorrect == Spec => JobLockOutlasts
  <1>1. Init => Leased
    BY ForkAssumption DEF Init, Leased, All
  <1>2. ASSUME TypeOK, Apart, Leased, [Next]_vars
        PROVE  Leased'
    <2>1. CASE UNCHANGED vars
      BY <1>2, <2>1 DEF vars, queue, locks, run, kid, speech, Leased
    <2>2. ASSUME NEW w \in Workers, WorkerStep(w)
          PROVE  Leased'
      BY <1>2, <2>2, RunLeased, RestLeased DEF WorkerStep, RunStep
    <2> QED  BY <1>2, <2>1, <2>2, TimeLeased DEF Next
  <1>3. ASSUME TypeOK, Leased, [Next]_vars
        PROVE  [job = "active" /\ job' = "active" /\ owner # Nobody /\ owner' = Nobody
                => pc[owner] # "child" \/ faults < MaxFaults]_vars
    <2>1. SUFFICES ASSUME Next, job = "active", job' = "active",
                          owner # Nobody, owner' = Nobody
                   PROVE  pc[owner] # "child" \/ faults < MaxFaults
      BY <1>3
    <2>2. JobLockLapses
      <3>1. ASSUME NEW w \in Workers, WorkerStep(w)
            PROVE  FALSE
        <4> USE DEF queue, locks, run, kid, LockUnchanged, ParentUnchanged, KidUnchanged
        <4>1. CASE owner' = owner
          BY <2>1, <4>1
        <4>2. CASE owner' # owner
          <5>1. TakeJob(w) \/ CompleteJob(w) \/ FailJob(w) \/ StartWorker(w)
            BY <3>1, <4>2 DEF WorkerStep, RunStep, Acquire, AcquireRefused, AcquireFailsOpen,
               Fork, ForkFails, Hear, ProgressSaved, TimeOut, Settle, Release, Answer, Relay,
               Renew, CrashWorker, ChildStep, ChildProgress, ChildDies, ChildEnds
          <5> QED  BY <2>1, <4>2, <5>1, ForkAssumption
                   DEF TakeJob, CompleteJob, FailJob, StartWorker
        <4> QED  BY <4>1, <4>2
      <3>2. Stall \/ Tick \/ PerJobLockLapses => owner' = owner
        BY DEF Stall, Tick, PerJobLockLapses, locks
      <3> QED  BY <2>1, <3>1, <3>2 DEF Next, Time
    <2>3. lease = 0 /\ owner \in Workers
      BY <1>3, <2>1, <2>2 DEF JobLockLapses, TypeOK
    <2>4. faults = MaxFaults => pc[owner] # "child"
      BY <1>3, <2>3 DEF Leased
    <2> QED  BY <1>3, <2>4, Bounds DEF TypeOK
  <1> QED  BY <1>1, <1>2, <1>3, TypeCorrect, ApartCorrect, PTL DEF Spec, JobLockOutlasts
=============================================================================
