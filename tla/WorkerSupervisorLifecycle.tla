--------------------- MODULE WorkerSupervisorLifecycle ---------------------
(***************************************************************************)
(* One process per worker type, for every value of the constants and       *)
(* whenever tool calls arrive, except of a type that was called between an *)
(* unexpected exit and its respawn timer.                                  *)
(*                                                                         *)
(* The invariant is a conjunction of what the code relies on without       *)
(* checking: the children map, the binding table, the state machine, the   *)
(* processes and the respawn chains all speak of the same process.  Some of *)
(* it holds of every type, the rest of the types without twins; and only a *)
(* running respawn timer leaves a type open to a call that makes a twin.   *)
(*                                                                         *)
(* Then the two refinements: SupervisedWorker, by that invariant, and      *)
(* WorkerLife, which needs little of it and nothing of the callers.        *)
(***************************************************************************)
EXTENDS WorkerSupervisorTyping

Present(p) == proc[p] = "alive" \/ Dead(p)

(* The map holds only processes that are there, under their own type. *)
ChildIsPresent ==
    \A t \in Types : child[t] # NoChild => kind[child[t]] = t /\ Present(child[t])

(* A chain runs for a process that is gone. *)
ChainOfTheGone == \A p \in Slots : chain[p] # "none" <=> proc[p] = "gone"

(* While it runs, its type has no child yet, and no other chain. *)
GoneLeftNoChild ==
    \A p \in Slots : proc[p] = "gone" /\ kind[p] \notin twinned => child[kind[p]] = NoChild
OneGone ==
    \A p, q \in Slots :
        proc[p] = "gone" /\ proc[q] = "gone" /\ kind[p] = kind[q] /\ kind[p] \notin twinned
        => p = q

(* A type that would accept a start has neither a child nor a chain, *)
Settled ==
    \A t \in Types \ twinned : state[t] \in {"idle", "crashed"} =>
        /\ child[t] = NoChild
        /\ \A p \in Slots : proc[p] = "gone" => kind[p] # t

(* unless its timer has yet to fire. *)
WindowOpen ==
    \A t \in Types \ twinned : state[t] = "running" /\ child[t] = NoChild =>
        ~closing /\ \E p \in Slots : kind[p] = t /\ chain[p] \in {"timer", "bareTimer"}

(* A type never started has not spent anything of its budget, and shutdown  *)
(* leaves no type idle.                                                     *)
IdleFresh == \A t \in Types \ twinned : state[t] = "idle" => restarts[t] = 0 /\ ~closing

BoundIsChild == \A p \in bound : kind[p] \notin twinned => child[kind[p]] = p

DownIsEmpty ==
    server = "down" =>
        /\ ~closing /\ twinned = {}
        /\ \A t \in Types : state[t] = "idle"
        /\ \A p \in Slots : proc[p] \in {"free", "orphan"}

Orderly ==
    /\ EveryChildSupervised /\ GoneLeftNoChild /\ OneGone
    /\ Settled /\ WindowOpen /\ IdleFresh /\ BoundIsChild

Life == Orderly /\ ChildIsPresent /\ ChainOfTheGone /\ DownIsEmpty /\ RestartAwaitsExit

lifeVars ==
    <<server, closing, state, restarts, pending, child, bound, proc, kind, chain, twinned>>

-----------------------------------------------------------------------------
LEMMA LifeInit == Init => Life
  BY SupervisorAssumption
     DEF Init, EveryType, EverySlot, Life, Orderly, EveryChildSupervised, ChildIsPresent,
         ChainOfTheGone, GoneLeftNoChild, OneGone, Settled, WindowOpen, IdleFresh, BoundIsChild,
         DownIsEmpty, RestartAwaitsExit, Present, Dead

LEMMA LifeKept ==
  ASSUME Life, UNCHANGED lifeVars
  PROVE  Life'
  BY DEF lifeVars, Life, Orderly, EveryChildSupervised, ChildIsPresent,
         ChainOfTheGone, GoneLeftNoChild, OneGone, Settled, WindowOpen, IdleFresh, BoundIsChild,
         DownIsEmpty, RestartAwaitsExit, Present, Dead

LEMMA LifeEnsureWorkerRunning ==
  ASSUME Typed, Life, NEW t \in Types, EnsureWorkerRunning(t)
  PROVE  Life'
  <1>1. PICK q \in Slots : Spawn(t, q, proc)
    BY DEF EnsureWorkerRunning
  <1>2. /\ proc[q] = "free" /\ ~Present(q)
        /\ proc' = [proc EXCEPT ![q] = "alive"]
        /\ kind' = [kind EXCEPT ![q] = t]
        /\ child' = [child EXCEPT ![t] = q]
        /\ bound' = bound \cup {q}
        /\ state' = [state EXCEPT ![t] = "running"]
        /\ q # NoChild
    BY <1>1, SupervisorAssumption DEF Spawn, Present, Dead
  <1>3. /\ UNCHANGED <<server, closing, pending, chain>>
        /\ server # "down"
        /\ twinned' = IF state[t] = "running" THEN twinned \cup {t} ELSE twinned
        /\ \E n : restarts' = [restarts EXCEPT ![t] = n]
    BY DEF EnsureWorkerRunning, bootVars, chainVars, Typed, SupTypeOK
  <1>4. /\ twinned \subseteq twinned'
        /\ t \notin twinned' =>
              child[t] = NoChild /\ \A p \in Slots : proc[p] = "gone" => kind[p] # t
    BY <1>3 DEF EnsureWorkerRunning, MayStart, WorkerStates, Typed, SupTypeOK, Life, Orderly,
       Settled
  <1>5. ChildIsPresent' /\ ChainOfTheGone'
    BY <1>2, <1>3 DEF Typed, SupTypeOK, ProcTypeOK, ChainTypeOK, Life, ChildIsPresent,
       ChainOfTheGone, Present, Dead
  <1>6. EveryChildSupervised' /\ BoundIsChild'
    <2>1. EveryChildSupervised'
      BY <1>2, <1>4, SupervisorAssumption
         DEF Typed, SupTypeOK, ProcTypeOK, Life, Orderly, EveryChildSupervised, Dead
    <2>2. BoundIsChild'
      BY <1>2, <1>4, SupervisorAssumption
         DEF Typed, SupTypeOK, ProcTypeOK, Life, Orderly, BoundIsChild
    <2> QED
      BY <2>1, <2>2
  <1>7. GoneLeftNoChild' /\ OneGone'
    BY <1>2, <1>4 DEF Typed, SupTypeOK, ProcTypeOK, Life, Orderly, GoneLeftNoChild, OneGone
  <1>8. Settled' /\ IdleFresh'
    BY <1>2, <1>3, <1>4 DEF Typed, SupTypeOK, ProcTypeOK, Life, Orderly, Settled, IdleFresh
  <1>9. WindowOpen'
    <2>1. ASSUME NEW u \in Types \ twinned', state'[u] = "running", child'[u] = NoChild
          PROVE  ~closing' /\ \E p \in Slots :
                                kind'[p] = u /\ chain'[p] \in {"timer", "bareTimer"}
      <3>1. u # t /\ state[u] = "running" /\ child[u] = NoChild /\ u \notin twinned
        BY <1>2, <1>4, <2>1 DEF Typed, SupTypeOK
      <3>2. ~closing
        BY <3>1, <2>1 DEF Life, Orderly, WindowOpen
      <3>3. PICK p \in Slots : kind[p] = u /\ chain[p] \in {"timer", "bareTimer"}
        BY <3>1, <2>1 DEF Life, Orderly, WindowOpen
      <3>4. p # q
        BY <1>2, <3>3 DEF Life, ChainOfTheGone
      <3> QED
        BY <1>2, <1>3, <3>2, <3>3, <3>4 DEF Typed, ProcTypeOK
    <2> QED
      BY <2>1 DEF WindowOpen
  <1>10. DownIsEmpty' /\ RestartAwaitsExit'
    BY <1>2, <1>3 DEF Typed, SupTypeOK, Life, DownIsEmpty, RestartAwaitsExit
  <1> QED
    BY <1>5, <1>6, <1>7, <1>8, <1>9, <1>10 DEF Life, Orderly

LEMMA LifeLeave ==
  ASSUME Typed, Life, NEW p \in Slots, Leave(p)
  PROVE  Life'
  BY DEF Typed, SupTypeOK, ProcTypeOK, ChainTypeOK, Leave, Die, bootVars, callVars,
         supVars, chainVars, Life, Orderly, EveryChildSupervised, ChildIsPresent,
         ChainOfTheGone, GoneLeftNoChild, OneGone, Settled, WindowOpen, IdleFresh,
         BoundIsChild, DownIsEmpty, RestartAwaitsExit, Present,
         Dead

LEMMA LifeCrash ==
  ASSUME Typed, Life, NEW p \in Slots, Crash(p)
  PROVE  Life'
  BY DEF Typed, SupTypeOK, ProcTypeOK, ChainTypeOK, Crash, Die, bootVars, callVars,
         supVars, chainVars, Life, Orderly, EveryChildSupervised, ChildIsPresent,
         ChainOfTheGone, GoneLeftNoChild, OneGone, Settled, WindowOpen, IdleFresh,
         BoundIsChild, DownIsEmpty, RestartAwaitsExit, Present,
         Dead

LEMMA LifeOrphanEnds ==
  ASSUME Typed, Life, NEW p \in Slots, OrphanEnds(p)
  PROVE  Life'
  BY DEF Typed, SupTypeOK, ProcTypeOK, ChainTypeOK, OrphanEnds, bootVars, callVars,
         supVars, chainVars, Life, Orderly, EveryChildSupervised, ChildIsPresent,
         ChainOfTheGone, GoneLeftNoChild, OneGone, Settled, WindowOpen, IdleFresh,
         BoundIsChild, DownIsEmpty, RestartAwaitsExit, Present,
         Dead

LEMMA LifeDeliverIpc ==
  ASSUME Typed, Life, NEW p \in Slots, DeliverIpc(p)
  PROVE  Life'
  BY DEF Typed, SupTypeOK, ProcTypeOK, ChainTypeOK, DeliverIpc, Trusted,
         NotifyJobCompleted, InitiateRestart, bootVars, callVars, chainVars, Life, Orderly,
         EveryChildSupervised, ChildIsPresent, ChainOfTheGone,
         GoneLeftNoChild, OneGone, Settled, WindowOpen, IdleFresh, BoundIsChild,
         DownIsEmpty, RestartAwaitsExit, Present, Dead

(* The exit event of p finds p itself in the children map, so the child it  *)
(* removes is the one that exited; of a type with twins it may be another,  *)
(* but never one of another type.                                           *)
LEMMA LifeHandleWorkerExit ==
  ASSUME Typed, Life, NEW p \in Slots, HandleWorkerExit(p)
  PROVE  Life'
  <1> DEFINE t == kind[p]
  <1>1. /\ t \in Types /\ Dead(p) /\ server # "down"
        /\ t \notin twinned => child[t] = p
    BY DEF Typed, ProcTypeOK, HandleWorkerExit, Life, Orderly, EveryChildSupervised,
       DownIsEmpty, Dead
  <1>2. /\ child' = [child EXCEPT ![t] = NoChild]
        /\ UNCHANGED <<server, closing, kind, twinned>>
    BY DEF HandleWorkerExit, bootVars, callVars
  <1>3. /\ bound' \subseteq bound
        /\ t \notin twinned => p \notin bound'
    BY <1>1 DEF HandleWorkerExit, ExitWhileClosing, ExitWhileServing
  <1>4. /\ chain[p] = "none"
        /\ t \notin twinned => \A q \in Slots : proc[q] = "gone" => kind[q] # t
    BY <1>1, SupervisorAssumption DEF Life, Orderly, GoneLeftNoChild, ChainOfTheGone, Dead
  <1>5. /\ \/ proc' = [proc EXCEPT ![p] = "free"] /\ chain' = chain
           \/ /\ proc' = [proc EXCEPT ![p] = "gone"]
              /\ \E stage \in {"release1", "spawn", "timer", "bareTimer"} :
                    chain' = [chain EXCEPT ![p] = stage]
        /\ \/ pending' = [pending EXCEPT ![t] = FALSE]
           \/ (closing \/ ~pending[t]) /\ pending' = pending
        /\ \E n : restarts' = [restarts EXCEPT ![t] = n]
    BY DEF HandleWorkerExit, ExitWhileClosing, ExitWhileServing, PlannedExit, GiveUp,
       UnexpectedExit, BeginRespawn, Typed, SupTypeOK
  <1>6. ChainOfTheGone'
    BY <1>1, <1>4, <1>5 DEF Typed, ProcTypeOK, ChainTypeOK, Life, ChainOfTheGone, Dead
  <1>7. ChildIsPresent'
    BY <1>1, <1>2, <1>5 DEF Typed, SupTypeOK, ProcTypeOK, Life, ChildIsPresent, Present, Dead
  <1>8. DownIsEmpty' /\ RestartAwaitsExit'
    BY <1>1, <1>2, <1>5 DEF Typed, SupTypeOK, ProcTypeOK, Life, DownIsEmpty,
       RestartAwaitsExit, Present, Dead
  <1>9. EveryChildSupervised' /\ BoundIsChild'
    BY <1>1, <1>2, <1>3, <1>5 DEF Typed, SupTypeOK, ProcTypeOK, Life, Orderly,
       EveryChildSupervised, BoundIsChild, Dead
  <1>10. GoneLeftNoChild' /\ OneGone'
    BY <1>1, <1>2, <1>4, <1>5 DEF Typed, SupTypeOK, ProcTypeOK, Life, Orderly,
       GoneLeftNoChild, OneGone
  <1>11. Settled' /\ WindowOpen' /\ IdleFresh'
    <2>1. ASSUME NEW u \in Types, u # t, u \notin twinned
          PROVE  /\ state'[u] = state[u] /\ child'[u] = child[u] /\ restarts'[u] = restarts[u]
                 /\ \A q \in Slots : kind[q] = u => proc'[q] = proc[q] /\ chain'[q] = chain[q]
      <3>1. state' = state \/ \E v : state' = [state EXCEPT ![t] = v]
        BY DEF HandleWorkerExit, ExitWhileClosing, ExitWhileServing, PlannedExit, GiveUp,
           UnexpectedExit, BeginRespawn
      <3> QED
        BY <1>1, <1>2, <1>5, <2>1, <3>1 DEF Typed, SupTypeOK, ProcTypeOK, ChainTypeOK
    <2>2. t \notin twinned => state[t] \notin {"idle", "crashed"}
      BY <1>1, SupervisorAssumption DEF Life, Orderly, Settled
    <2>3. CASE closing
      <3>1. state'[t] = "stopped"
        BY <1>1, <2>3 DEF HandleWorkerExit, ExitWhileClosing, Typed, SupTypeOK
      <3> QED
        BY <1>1, <1>2, <2>1, <3>1 DEF Life, Orderly, Settled, WindowOpen, IdleFresh
    <2>4. CASE ~closing /\ GiveUp(t, p)
      <3>1. state'[t] = "crashed" /\ proc'[p] = "free" /\ child'[t] = NoChild
        BY <1>1, <1>2, <2>4 DEF GiveUp, Typed, SupTypeOK, ProcTypeOK
      <3>2. t \notin twinned => \A q \in Slots : proc'[q] = "gone" => kind[q] # t
        BY <1>4, <1>5, <3>1 DEF Typed, ProcTypeOK
      <3> QED
        BY <1>1, <1>2, <2>1, <3>1, <3>2 DEF Life, Orderly, Settled, WindowOpen, IdleFresh
    <2>5. CASE ~closing /\ PlannedExit(t, p)
      <3>1. state'[t] = "restarting"
        BY <1>1, <2>5 DEF PlannedExit, BeginRespawn, Typed, SupTypeOK
      <3> QED
        BY <1>1, <1>2, <2>1, <3>1 DEF Life, Orderly, Settled, WindowOpen, IdleFresh
    <2>6. CASE ~closing /\ UnexpectedExit(t, p)
      <3>1. state' = state /\ chain'[p] \in {"timer", "bareTimer"}
        BY <2>6 DEF UnexpectedExit, Typed, ChainTypeOK
      <3> QED
        BY <1>1, <1>2, <2>1, <2>2, <2>6, <3>1 DEF Life, Orderly, Settled, WindowOpen, IdleFresh
    <2> QED
      BY <2>3, <2>4, <2>5, <2>6 DEF HandleWorkerExit, ExitWhileServing
  <1> QED
    BY <1>6, <1>7, <1>8, <1>9, <1>10, <1>11 DEF Life, Orderly

LEMMA LifeRespawnTimer ==
  ASSUME Typed, Life, NEW p \in Slots, RespawnTimer(p)
  PROVE  Life'
  <1> DEFINE t == kind[p]
  <1>1. /\ t \in Types
        /\ proc[p] = "gone"
        /\ UNCHANGED <<server, closing, restarts, pending, child, bound, awaiting, kind,
                       twinned>>
    BY DEF Typed, ProcTypeOK, RespawnTimer, Life, Orderly, ChainOfTheGone, bootVars, callVars
  <1>2. CASE closing
    <2>1. /\ chain' = [chain EXCEPT ![p] = "none"]
          /\ proc' = [proc EXCEPT ![p] = "free"]
          /\ UNCHANGED state
      BY <1>2 DEF RespawnTimer, ChainEnds
    <2> QED
      BY <1>1, <1>2, <2>1 DEF Typed, ProcTypeOK, ChainTypeOK,
         Life, Orderly, EveryChildSupervised, ChildIsPresent, ChainOfTheGone, GoneLeftNoChild,
         OneGone, Settled, WindowOpen, IdleFresh, BoundIsChild, DownIsEmpty, RestartAwaitsExit, Present, Dead
  <1>3. CASE ~closing
    <2>1. /\ \E stage \in {"release1", "spawn"} : chain' = [chain EXCEPT ![p] = stage]
          /\ state' = [state EXCEPT ![t] = "restarting"]
          /\ UNCHANGED proc
      BY <1>3 DEF RespawnTimer, BeginRespawn
    <2> QED
      BY <1>1, <1>3, <2>1 DEF Typed, SupTypeOK, ChainTypeOK,
         Life, Orderly, EveryChildSupervised, ChildIsPresent, ChainOfTheGone, GoneLeftNoChild,
         OneGone, Settled, WindowOpen, IdleFresh, BoundIsChild, DownIsEmpty, RestartAwaitsExit, Present, Dead
  <1> QED
    BY <1>2, <1>3

LEMMA LifeReleaseAttempt ==
  ASSUME Typed, Life, NEW p \in Slots, ReleaseAttempt(p)
  PROVE  Life'
  BY StageAfterFailure
     DEF Typed, SupTypeOK, ProcTypeOK, ChainTypeOK, ReleaseAttempt,
         ScheduleRespawn, ReleaseStages, AfterFailedRelease, bootVars, callVars, procVars, Life, Orderly,
         EveryChildSupervised, ChildIsPresent, ChainOfTheGone,
         GoneLeftNoChild, OneGone, Settled, WindowOpen, IdleFresh, BoundIsChild,
         DownIsEmpty, RestartAwaitsExit, Present, Dead

LEMMA LifeProbeOwn ==
  ASSUME Typed, Life, NEW p \in Slots, ProbeOwn(p)
  PROVE  Life'
  BY DEF Typed, SupTypeOK, ProcTypeOK, ChainTypeOK, ProbeOwn, ScheduleRespawn,
         bootVars, callVars, procVars, Life, Orderly, EveryChildSupervised, ChildIsPresent,
         ChainOfTheGone, GoneLeftNoChild, OneGone, Settled, WindowOpen, IdleFresh,
         BoundIsChild, DownIsEmpty, RestartAwaitsExit, Present,
         Dead

LEMMA LifeProbeForeign ==
  ASSUME Typed, Life, NEW p \in Slots, ProbeForeign(p)
  PROVE  Life'
  BY DEF Typed, SupTypeOK, ProcTypeOK, ChainTypeOK, ProbeForeign, ChainEnds,
         bootVars, callVars, Life, Orderly, EveryChildSupervised, ChildIsPresent, ChainOfTheGone,
         GoneLeftNoChild, OneGone, Settled, WindowOpen, IdleFresh, BoundIsChild,
         DownIsEmpty, RestartAwaitsExit, Present, Dead

(* The timer of scheduleRespawn finds no child of its type, twins aside.   *)
LEMMA LifeRespawnNow ==
  ASSUME Typed, Life, NEW p \in Slots, RespawnNow(p)
  PROVE  Life'
  <1> DEFINE t == kind[p]
  <1>1. /\ t \in Types
        /\ proc[p] = "gone"
        /\ t \notin twinned =>
              child[t] = NoChild /\ \A q \in Slots : proc[q] = "gone" /\ kind[q] = t => q = p
        /\ server # "down"
    BY DEF Typed, ProcTypeOK, RespawnNow, Life, Orderly, ChainOfTheGone, GoneLeftNoChild, OneGone,
           DownIsEmpty
  <1>2. /\ chain' = [chain EXCEPT ![p] = "none"]
        /\ UNCHANGED <<server, closing, restarts, pending, awaiting, twinned>>
        /\ chain[p] = "spawn"
    BY DEF RespawnNow, ChainEnds, bootVars, callVars
  <1>3. CASE closing
    <2>1. /\ state' = [state EXCEPT ![t] = "stopped"]
          /\ proc' = [proc EXCEPT ![p] = "free"]
          /\ UNCHANGED <<kind, child, bound>>
      BY <1>3 DEF RespawnNow
    <2>2. EveryChildSupervised' /\ ChildIsPresent' /\ BoundIsChild' /\ ChainOfTheGone'
      BY <1>1, <1>2, <2>1 DEF Typed, SupTypeOK, ProcTypeOK, ChainTypeOK, Life, Orderly,
         EveryChildSupervised, ChildIsPresent, BoundIsChild, ChainOfTheGone, Present, Dead
    <2>3. GoneLeftNoChild' /\ OneGone' /\ Settled' /\ IdleFresh' /\ WindowOpen'
      BY <1>1, <1>2, <1>3, <2>1 DEF Typed, SupTypeOK, ProcTypeOK, Life, Orderly,
         GoneLeftNoChild, OneGone, Settled, IdleFresh, WindowOpen
    <2>4. DownIsEmpty' /\ RestartAwaitsExit'
      BY <1>1, <1>2, <1>3, <2>1 DEF Life, DownIsEmpty, RestartAwaitsExit
    <2> QED
      BY <2>2, <2>3, <2>4 DEF Life, Orderly
  <1>4. CASE ~closing
    <2>1. PICK q \in Slots : Spawn(t, q, [proc EXCEPT ![p] = "free"])
      BY <1>4 DEF RespawnNow
    <2>2. /\ q # p => proc[q] = "free"
          /\ proc' = [r \in Slots |-> IF r = q THEN "alive"
                                      ELSE IF r = p THEN "free" ELSE proc[r]]
          /\ kind' = [kind EXCEPT ![q] = t]
          /\ child' = [child EXCEPT ![t] = q]
          /\ bound' = bound \cup {q}
          /\ state' = [state EXCEPT ![t] = "running"]
      BY <2>1 DEF Spawn, Typed, ProcTypeOK
    <2>3. NoChild \notin Slots /\ ~Present(p) /\ ~Present(q)
      BY <1>1, <2>2, SupervisorAssumption DEF Present, Dead
    <2>4. \A u \in Types : child[u] # q /\ child[u] # p
      BY <2>3 DEF Life, ChildIsPresent
    <2>5. ChildIsPresent' /\ EveryChildSupervised' /\ BoundIsChild'
      <3>1. ChildIsPresent'
        BY <1>1, <2>2, <2>3, <2>4 DEF Typed, SupTypeOK, ProcTypeOK, Life, ChildIsPresent,
           Present, Dead
      <3>2. EveryChildSupervised'
        BY <1>1, <1>2, <2>2, <2>3 DEF Typed, SupTypeOK, ProcTypeOK, Life, Orderly,
           EveryChildSupervised, Dead
      <3>3. BoundIsChild'
        BY <1>1, <1>2, <2>2, <2>3 DEF Typed, SupTypeOK, ProcTypeOK, Life, Orderly,
           BoundIsChild
      <3> QED
        BY <3>1, <3>2, <3>3
    <2>6. ChainOfTheGone'
      BY <1>1, <1>2, <2>2 DEF Typed, ProcTypeOK, ChainTypeOK, Life, ChainOfTheGone
    <2>7. GoneLeftNoChild' /\ OneGone' /\ Settled' /\ IdleFresh'
      BY <1>1, <1>2, <2>2 DEF Typed, SupTypeOK, ProcTypeOK, ChainTypeOK, Life, Orderly,
         GoneLeftNoChild, OneGone, Settled, IdleFresh
    <2>8. WindowOpen'
      <3>1. ASSUME NEW u \in Types \ twinned', state'[u] = "running", child'[u] = NoChild
            PROVE  \E r \in Slots : kind'[r] = u /\ chain'[r] \in {"timer", "bareTimer"}
        <4>1. u # t /\ state[u] = "running" /\ child[u] = NoChild /\ u \notin twinned
          BY <1>2, <2>2, <2>3, <3>1 DEF Typed, SupTypeOK
        <4>2. PICK r \in Slots : kind[r] = u /\ chain[r] \in {"timer", "bareTimer"}
          BY <4>1, <3>1 DEF Life, Orderly, WindowOpen
        <4>3. r # p /\ (r = q => FALSE)
          BY <1>2, <2>2, <4>1, <4>2 DEF Life, ChainOfTheGone
        <4> QED
          BY <1>2, <2>2, <4>2, <4>3 DEF Typed, ProcTypeOK, ChainTypeOK
      <3> QED
        BY <3>1, <1>4, <1>2 DEF WindowOpen
    <2>9. DownIsEmpty' /\ RestartAwaitsExit'
      BY <1>1, <1>2, <1>4, <2>2, SupervisorAssumption
         DEF Typed, SupTypeOK, Life, DownIsEmpty, RestartAwaitsExit
    <2> QED
      BY <2>5, <2>6, <2>7, <2>8, <2>9 DEF Life, Orderly
  <1> QED
    BY <1>3, <1>4

LEMMA LifeShutdown ==
  ASSUME Typed, Life, Shutdown
  PROVE  Life'
  BY SupervisorAssumption
     DEF Typed, SupTypeOK, ProcTypeOK, ChainTypeOK, Shutdown, Live, bootVars, callVars,
         chainVars, Life, Orderly, EveryChildSupervised, ChildIsPresent,
         ChainOfTheGone, GoneLeftNoChild, OneGone, Settled, WindowOpen, IdleFresh,
         BoundIsChild, DownIsEmpty, RestartAwaitsExit, Present,
         Dead

LEMMA LifeServerGone ==
  ASSUME Typed, Life, ServerGone
  PROVE  Life'
  BY DEF Typed, SupTypeOK, ProcTypeOK, ChainTypeOK, ServerGone, EveryType,
         EverySlot, Life, Orderly, EveryChildSupervised, ChildIsPresent,
         ChainOfTheGone, GoneLeftNoChild, OneGone, Settled, WindowOpen, IdleFresh,
         BoundIsChild, DownIsEmpty, RestartAwaitsExit, Present,
         Dead

LEMMA LifeServerStart ==
  ASSUME Typed, Life, ServerStart
  PROVE  Life'
  BY DEF callVars, Typed, SupTypeOK, ProcTypeOK, ChainTypeOK, ServerStart, supVars,
         procVars, chainVars, Life, Orderly, EveryChildSupervised, ChildIsPresent,
         ChainOfTheGone, GoneLeftNoChild, OneGone, Settled, WindowOpen, IdleFresh,
         BoundIsChild, DownIsEmpty, RestartAwaitsExit, Present,
         Dead

(* Whatever else happens leaves alone what Life speaks of. *)
LEMMA LifeOther ==
  ASSUME \/ \E t \in Types :
              \/ AcquireGranted(t) \/ AcquireRefused(t) \/ AcquireFailed(t)
              \/ ShutdownRelease(t) \/ ShutdownClose(t) \/ LeaseLapses(t)
         \/ \E p \in Slots : CompleteJob(p)
         \/ \E m \in Manuals : ManualAction(m)
         \/ Tick
         \/ UNCHANGED vars
  PROVE  UNCHANGED lifeVars
  BY DEF AcquireGranted, AcquireRefused, AcquireFailed, ShutdownRelease, ShutdownClose,
         LeaseLapses, CompleteJob, ManualAction, ManualFailOpen, ManualProbe, ManualClaim,
         ManualStop, Tick, vars, lifeVars, bootVars, supVars, procVars, chainVars, callVars

LEMMA LifeNext ==
  ASSUME Typed, Life, [Next]_vars
  PROVE  Life'
  <1>1. ASSUME NEW t \in Types, EnsureWorkerRunning(t) PROVE Life'
    BY <1>1, LifeEnsureWorkerRunning
  <1>2. ASSUME NEW p \in Slots, ProcAction(p), ~CompleteJob(p) PROVE Life'
    BY <1>2, LifeLeave, LifeCrash, LifeOrphanEnds, LifeDeliverIpc, LifeHandleWorkerExit,
       LifeRespawnTimer, LifeReleaseAttempt, LifeProbeOwn, LifeProbeForeign, LifeRespawnNow
       DEF ProcAction
  <1>3. ASSUME Shutdown \/ ServerExit \/ ServerCrash \/ ServerStart PROVE Life'
    BY <1>3, LifeShutdown, LifeServerGone, LifeServerStart DEF ServerExit, ServerCrash
  <1>4. CASE \/ \E t \in Types : EnsureWorkerRunning(t)
             \/ \E p \in Slots : ProcAction(p) /\ ~CompleteJob(p)
             \/ Shutdown \/ ServerExit \/ ServerCrash \/ ServerStart
    BY <1>1, <1>2, <1>3, <1>4
  <1>5. CASE UNCHANGED lifeVars
    BY <1>5, LifeKept
  <1> QED
    BY <1>4, <1>5, LifeOther DEF Next, TypeAction

(* The lifecycle invariant holds in every reachable state. *)
THEOREM LifeCorrect == Spec => [](Typed /\ Life)
  <1>1. Init => Typed /\ Life
    BY TypedInit, LifeInit
  <1>2. Typed /\ Life /\ [Next]_vars => (Typed /\ Life)'
    BY TypedNext, LifeNext
  <1> QED
    BY <1>1, <1>2, PTL DEF Spec

(* A process that runs, or whose exit is still queued, is the one the       *)
(* children map holds for its type, except where a call has made twins.     *)
THEOREM ChildrenSupervised == Spec => []EveryChildSupervised
  <1>1. Life => EveryChildSupervised
    BY DEF Life, Orderly
  <1> QED
    BY <1>1, LifeCorrect, PTL

(* A pending restart always has a process whose exit will consume it. *)
THEOREM RestartAwaited == Spec => []RestartAwaitsExit
  <1>1. Life => RestartAwaitsExit
    BY DEF Life
  <1> QED
    BY <1>1, LifeCorrect, PTL

-----------------------------------------------------------------------------
(* Only a job report, shutdown() and the end of the server touch told, and  *)
(* the report reaches its sender because bound processes are children.      *)
LEMMA SenderStep ==
  ASSUME Typed, Life, [Next]_vars, NEW p \in Slots, told'[p], ~told[p], ~closing'
  PROVE  (msg[p] /\ ~msg'[p]) \/ kind[p] \in twinned
  <1>1. ASSUME NEW q \in Slots, DeliverIpc(q)
        PROVE  (msg[p] /\ ~msg'[p]) \/ kind[p] \in twinned
    <2>1. /\ q \in bound /\ kind[q] \in Types /\ child[kind[q]] # NoChild
          /\ p = child[kind[q]]
      BY <1>1 DEF DeliverIpc, Trusted, NotifyJobCompleted, InitiateRestart, Typed, ProcTypeOK
    <2>2. kind[q] \notin twinned => p = q
      BY <2>1 DEF Life, Orderly, BoundIsChild
    <2>3. kind[p] = kind[q]
      BY <2>1 DEF Life, ChildIsPresent
    <2> QED
      BY <1>1, <2>2, <2>3 DEF DeliverIpc, Typed, ProcTypeOK
  <1>2. ASSUME NEW t \in Types, NEW q \in Slots, NEW slots, Spawn(t, q, slots) PROVE FALSE
    BY <1>2 DEF Spawn, Typed, ProcTypeOK
  <1>3. ASSUME NEW q \in Slots, RespawnNow(q) PROVE FALSE
    <2>1. kind[q] \in Types
      BY DEF Typed, ProcTypeOK
    <2> QED
      BY <1>2, <1>3, <2>1 DEF RespawnNow
  <1>4. ASSUME NEW t \in Types, EnsureWorkerRunning(t) PROVE FALSE
    BY <1>2, <1>4 DEF EnsureWorkerRunning
  <1>5. ~Shutdown /\ ~ServerGone
    BY DEF Shutdown, ServerGone, EverySlot
  <1>6. ASSUME NEW q \in Slots, Leave(q) \/ Crash(q) PROVE FALSE
    BY <1>6 DEF Leave, Crash, Die, Typed, ProcTypeOK
  <1>7. CASE UNCHANGED told
    BY <1>7
  <1>8. CASE \E t \in Types : TypeAction(t)
    BY <1>4, <1>7, <1>8 DEF TypeAction, AcquireGranted, AcquireRefused, AcquireFailed,
       ShutdownRelease, ShutdownClose, LeaseLapses, procVars
  <1>9. CASE \E q \in Slots : ProcAction(q)
    BY <1>1, <1>3, <1>6, <1>7, <1>9 DEF ProcAction, CompleteJob, OrphanEnds,
       HandleWorkerExit, RespawnTimer, ReleaseAttempt, ProbeOwn, ProbeForeign, procVars
  <1>10. CASE (\E m \in Manuals : ManualAction(m)) \/ ServerStart \/ Tick \/ UNCHANGED vars
    BY <1>7, <1>10 DEF ManualAction, ManualFailOpen, ManualProbe, ManualClaim, ManualStop,
       ServerStart, Tick, vars, procVars
  <1> QED
    BY <1>5, <1>8, <1>9, <1>10 DEF Next, ServerExit, ServerCrash

(* The supervisor stops the process that reported a finished job, and no    *)
(* other, however late the report is read: of a type without twins.         *)
THEOREM OnlyTheSenderRestarts == Spec => RestartsOnlyTheSender
  <1>1. Typed /\ Life /\ [Next]_vars =>
          [\A p \in Slots :
             told'[p] /\ ~told[p] /\ ~closing' =>
               (msg[p] /\ ~msg'[p]) \/ kind[p] \in twinned]_vars
    BY SenderStep
  <1> QED
    BY <1>1, LifeCorrect, PTL DEF Spec, RestartsOnlyTheSender

-----------------------------------------------------------------------------
(* shutdown() waits for every child the map holds: it tells them all, and   *)
(* only a call puts another one into the map after it.                      *)
AwaitingAll ==
    closing => \A t \in Types \ late : child[t] # NoChild => child[t] \in awaiting

LEMMA AwaitingNext ==
  ASSUME Typed, Life, AwaitingAll, [Next]_vars
  PROVE  AwaitingAll'
  <1>1. CASE UNCHANGED <<closing, awaiting, child, late>>
    BY <1>1 DEF AwaitingAll
  <1>2. ASSUME NEW t \in Types, EnsureWorkerRunning(t) PROVE AwaitingAll'
    <2>1. /\ UNCHANGED <<closing, awaiting>>
          /\ \E p : child' = [child EXCEPT ![t] = p]
          /\ closing => late' = late \cup {t}
      BY <1>2 DEF EnsureWorkerRunning, Spawn
    <2> QED
      BY <2>1 DEF AwaitingAll, Typed, SupTypeOK
  <1>3. ASSUME NEW q \in Slots, HandleWorkerExit(q) PROVE AwaitingAll'
    <2>1. /\ child' = [child EXCEPT ![kind[q]] = NoChild] /\ UNCHANGED <<closing, late>>
          /\ closing => awaiting' = awaiting \ {q}
      BY <1>3 DEF HandleWorkerExit, ExitWhileClosing, callVars
    <2>2. ASSUME NEW t \in Types, child'[t] # NoChild
          PROVE  child'[t] = child[t] /\ child[t] # q
      BY <2>1, <2>2 DEF Typed, SupTypeOK, ProcTypeOK, Life, ChildIsPresent
    <2> QED
      BY <2>1, <2>2 DEF AwaitingAll
  <1>4. ASSUME NEW q \in Slots, RespawnNow(q) PROVE AwaitingAll'
    <2>1. /\ UNCHANGED <<closing, awaiting, late>>
          /\ closing => UNCHANGED child
      BY <1>4 DEF RespawnNow, callVars
    <2> QED
      BY <2>1 DEF AwaitingAll
  <1>5. CASE Shutdown
    <2>1. /\ UNCHANGED <<child, late>>
          /\ awaiting' = IF closing THEN awaiting ELSE Live
      BY <1>5 DEF Shutdown, callVars
    <2>2. \A t \in Types : child[t] # NoChild => child[t] \in Live
      BY DEF Live
    <2> QED
      BY <2>1, <2>2 DEF AwaitingAll
  <1>6. CASE ServerGone
    BY <1>6 DEF ServerGone, AwaitingAll
  <1>7. CASE \E t \in Types : TypeAction(t)
    BY <1>1, <1>2, <1>7 DEF TypeAction, AcquireGranted, AcquireRefused, AcquireFailed,
       ShutdownRelease, ShutdownClose, LeaseLapses, supVars, callVars
  <1>8. CASE \E q \in Slots : ProcAction(q)
    BY <1>1, <1>3, <1>4, <1>8 DEF ProcAction, CompleteJob, Leave, Crash, Die, OrphanEnds,
       DeliverIpc, RespawnTimer, ReleaseAttempt, ProbeOwn, ProbeForeign, supVars, callVars
  <1>9. CASE (\E m \in Manuals : ManualAction(m)) \/ ServerStart \/ Tick \/ UNCHANGED vars
    BY <1>1, <1>9 DEF ManualAction, ManualFailOpen, ManualProbe, ManualClaim, ManualStop,
       ServerStart, Tick, vars, supVars, callVars
  <1> QED
    BY <1>5, <1>6, <1>7, <1>8, <1>9 DEF Next, ServerExit, ServerCrash

(* When shutdown() has resolved and the server exits, the only processes    *)
(* that run on are forgotten twins and those called into life after it      *)
(* began: whatever exits, respawns and failures the shutdown met, and       *)
(* however many server processes there were.                                *)
THEOREM ShutdownLeavesNoChild == Spec => ShutdownTerminatesChildren
  <1>1. Init => AwaitingAll
    BY DEF Init, AwaitingAll
  <1>2. Typed /\ Life /\ AwaitingAll /\ [Next]_vars => AwaitingAll'
    BY AwaitingNext
  <1>3. Typed /\ Life /\ AwaitingAll =>
          [ServerExit =>
             \A p \in Slots : proc[p] = "alive" =>
               \/ kind[p] \in twinned /\ child[kind[p]] # p
               \/ kind[p] \in late]_vars
    <2>1. ASSUME Typed, Life, AwaitingAll, ServerExit,
                 NEW p \in Slots, proc[p] = "alive", kind[p] \notin late
          PROVE  kind[p] \in twinned /\ child[kind[p]] # p
      <3>1. kind[p] \in Types /\ p # NoChild
        BY <2>1, SupervisorAssumption DEF Typed, ProcTypeOK
      <3>2. child[kind[p]] # p
        BY <2>1, <3>1 DEF AwaitingAll, ServerExit
      <3> QED
        BY <2>1, <3>2 DEF Life, Orderly, EveryChildSupervised
    <2> QED
      BY <2>1
  <1> QED
    BY <1>1, <1>2, <1>3, LifeCorrect, PTL DEF Spec, ShutdownTerminatesChildren

-----------------------------------------------------------------------------
(* WorkerSupervisor implements SupervisedWorker: under the refinement       *)
(* mapping Phase, the initial state maps to the initial state and every     *)
(* step to a step of the life cycle or to a stutter.                        *)

Timers == {"timer", "bareTimer"}

(* What the phase of a type says about its processes. *)
PhaseFacts ==
    \A t \in Types :
        /\ t \in twinned => Phase(t) = "twinned"
        /\ t \notin twinned =>
            /\ (\A p \in Slots : kind[p] = t => proc[p] \in {"free", "orphan"})
                 => Phase(t) = IF state[t] = "crashed" THEN "givenup" ELSE "none"
            /\ \A p \in Slots : kind[p] = t =>
                /\ proc[p] = "alive" => Phase(t) = "up"
                /\ Dead(p) => Phase(t) = "ended"
                /\ proc[p] = "gone" =>
                     Phase(t) = IF chain[p] \in Timers THEN "pausing" ELSE "replacing"

(* At most one process of a type without twins is neither free nor orphaned. *)
LEMMA HeldAlone ==
  ASSUME Typed, Life, NEW t \in Types, t \notin twinned, NEW p \in Held(t), NEW q \in Held(t)
  PROVE  p = q
  <1>1. p \in Slots /\ q \in Slots /\ kind[p] = t /\ kind[q] = t
    BY DEF Held
  <1>2. /\ Present(p) \/ proc[p] = "gone"
        /\ Present(q) \/ proc[q] = "gone"
    BY DEF Held, Typed, ProcTypeOK, ProcStates, Present, Dead
  <1>3. /\ Present(p) => child[t] = p
        /\ Present(q) => child[t] = q
    BY <1>1 DEF Life, Orderly, EveryChildSupervised, Present
  <1>4. /\ proc[p] = "gone" => child[t] = NoChild
        /\ proc[q] = "gone" => child[t] = NoChild
    BY <1>1 DEF Life, Orderly, GoneLeftNoChild
  <1>5. p # NoChild /\ q # NoChild
    BY <1>1, SupervisorAssumption
  <1> QED
    BY <1>1, <1>2, <1>3, <1>4, <1>5 DEF Life, Orderly, OneGone

LEMMA PhaseLaw == Typed /\ Life => PhaseFacts
  <1> SUFFICES ASSUME Typed, Life, NEW t \in Types, t \notin twinned
               PROVE  /\ (\A p \in Slots : kind[p] = t => proc[p] \in {"free", "orphan"})
                            => Phase(t) = IF state[t] = "crashed" THEN "givenup" ELSE "none"
                      /\ \A p \in Slots : kind[p] = t =>
                            /\ proc[p] = "alive" => Phase(t) = "up"
                            /\ Dead(p) => Phase(t) = "ended"
                            /\ proc[p] = "gone" =>
                                 Phase(t) = IF chain[p] \in Timers THEN "pausing" ELSE "replacing"
    BY DEF PhaseFacts, Phase
  <1>1. \A p, q \in Held(t) : p = q
    BY HeldAlone
  <1>2. (\A p \in Slots : kind[p] = t => proc[p] \in {"free", "orphan"})
          => Phase(t) = IF state[t] = "crashed" THEN "givenup" ELSE "none"
    BY DEF Phase, Held
  <1>3. ASSUME NEW p \in Slots, kind[p] = t, Present(p) \/ proc[p] = "gone"
        PROVE  p \in Held(t)
    BY <1>3 DEF Held, Present, Dead
  <1>4. ASSUME NEW p \in Held(t)
        PROVE  /\ proc[p] = "alive" => Phase(t) = "up"
               /\ Dead(p) => Phase(t) = "ended"
               /\ proc[p] = "gone" =>
                    Phase(t) = IF chain[p] \in Timers THEN "pausing" ELSE "replacing"
    <2>1. Held(t) # {} /\ ~(\E x, y \in Held(t) : x # y) /\ \A x \in Held(t) : x = p
      BY <1>1, <1>4
    <2> QED
      BY <2>1 DEF Phase, Dead, Timers
  <1> QED
    BY <1>2, <1>3, <1>4 DEF Present

(* A type whose processes a step leaves alone keeps its phase. *)
LEMMA PhaseSame ==
  ASSUME NEW t \in Types, t \in twinned' <=> t \in twinned, Held(t)' = Held(t),
         \A p \in Held(t) : proc'[p] = proc[p] /\ (chain'[p] \in Timers <=> chain[p] \in Timers),
         Held(t) # {} \/ (state'[t] = "crashed" <=> state[t] = "crashed")
  PROVE  Phase(t)' = Phase(t)
  <1>1. CASE t \in twinned
    BY <1>1 DEF Phase
  <1>2. CASE t \notin twinned /\ Held(t) = {}
    BY <1>2 DEF Phase
  <1>3. CASE t \notin twinned /\ Held(t) # {}
    <2>1. /\ (\A p \in Held(t) : Dead(p))' <=> (\A p \in Held(t) : Dead(p))
          /\ (\A p \in Held(t) : proc[p] = "alive")' <=> (\A p \in Held(t) : proc[p] = "alive")
          /\ (\A p \in Held(t) : chain[p] \in Timers)' <=> (\A p \in Held(t) : chain[p] \in Timers)
      BY DEF Dead
    <2> QED
      BY <1>3, <2>1 DEF Phase, Timers
  <1> QED
    BY <1>1, <1>2, <1>3

(* A step that concerns type t only. *)
OnlyOf(t) ==
    /\ \A q \in Slots :
         \/ kind'[q] = kind[q] /\ proc'[q] = proc[q] /\ chain'[q] = chain[q]
         \/ kind'[q] = t /\ (kind[q] = t \/ proc[q] = "free")
    /\ \A u \in Types : u # t =>
         /\ state'[u] = state[u] /\ restarts'[u] = restarts[u]
         /\ u \in twinned' <=> u \in twinned

LEMMA OthersSame ==
  ASSUME NEW t \in Types, NEW u \in Types, u # t, OnlyOf(t)
  PROVE  Phase(u)' = Phase(u)
  <1>1. Held(u)' = Held(u)
    BY DEF Held, OnlyOf
  <1>2. \A q \in Held(u) : proc'[q] = proc[q] /\ chain'[q] = chain[q]
    BY DEF Held, OnlyOf
  <1>3. state'[u] = state[u] /\ (u \in twinned' <=> u \in twinned)
    BY DEF OnlyOf
  <1> QED
    BY <1>1, <1>2, <1>3, PhaseSame

(* Such a step is a Becomes of the life cycle. *)
LEMMA BecomesLaw ==
  ASSUME NEW t \in Types, NEW from, NEW to,
         Phase(t) = from, Phase(t)' = to, UNCHANGED <<server, closing>>, OnlyOf(t)
  PROVE  Service!Becomes(t, from, to)
  <1>1. \A u \in Types : u # t => Phase(u)' = Phase(u)
    BY OthersSame
  <1> QED
    BY <1>1 DEF Service!Becomes

LEMMA StutterLaw ==
  ASSUME UNCHANGED <<server, closing, proc, kind, restarts, twinned>>,
         \A p \in Slots : chain'[p] \in Timers <=> chain[p] \in Timers,
         \A t \in Types : Held(t) # {} \/ state'[t] = state[t]
  PROVE  UNCHANGED Service!serviceVars
  <1>1. ASSUME NEW t \in Types PROVE Phase(t)' = Phase(t)
    <2>1. Held(t)' = Held(t) /\ Held(t) \subseteq Slots
      BY DEF Held
    <2> QED
      BY <2>1, PhaseSame
  <1> QED
    BY <1>1 DEF Service!serviceVars

-----------------------------------------------------------------------------
LEMMA ServiceInit == Init => Service!Init
  <1> SUFFICES ASSUME Init PROVE Service!Init
    OBVIOUS
  <1>1. \A t \in Types : Phase(t) = "none"
    BY DEF Init, EverySlot, EveryType, Phase, Held
  <1> QED
    BY <1>1 DEF Init, EveryType, Service!Init

Refined == /\ Typed /\ Life /\ PhaseFacts
           /\ Typed' /\ Life' /\ PhaseFacts'

(* Nothing is promised of a type with twins. *)
LEMMA ServiceUnruly ==
  ASSUME Refined, NEW t \in Types, t \in twinned, t \in twinned',
         UNCHANGED <<server, closing>>, OnlyOf(t)
  PROVE  Service!Unruly(t)
  <1>1. Phase(t) = "twinned" /\ Phase(t)' = "twinned"
    BY DEF Refined, PhaseFacts
  <1>2. Service!Becomes(t, "twinned", "twinned")
    BY <1>1, BecomesLaw
  <1>3. PICK n \in 0..MaxRestarts : n = restarts'[t]
    BY DEF Refined, Typed, SupTypeOK
  <1>4. restarts' = [restarts EXCEPT ![t] = n]
    BY <1>3 DEF OnlyOf, Refined, Typed, SupTypeOK
  <1> QED
    BY <1>2, <1>4 DEF Service!Unruly

LEMMA ServiceEnsure ==
  ASSUME Refined, NEW t \in Types, EnsureWorkerRunning(t)
  PROVE  Service!Serve(t)
  <1>1. /\ server = "up" /\ UNCHANGED <<server, closing, chain>>
        /\ twinned' = IF state[t] = "running" THEN twinned \cup {t} ELSE twinned
        /\ restarts' = IF state[t] = "crashed" THEN [restarts EXCEPT ![t] = 0] ELSE restarts
    BY DEF EnsureWorkerRunning, bootVars, chainVars
  <1>2. PICK p \in Slots : Spawn(t, p, proc)
    BY DEF EnsureWorkerRunning
  <1>3. /\ proc[p] = "free" /\ proc'[p] = "alive" /\ kind'[p] = t
        /\ \A q \in Slots : q # p => proc'[q] = proc[q] /\ kind'[q] = kind[q]
        /\ \A u \in Types : u # t => state'[u] = state[u]
    BY <1>2 DEF Spawn, Refined, Typed, ProcTypeOK, SupTypeOK
  <1>4. OnlyOf(t)
    BY <1>1, <1>3 DEF OnlyOf, Refined, Typed, SupTypeOK
  <1>5. CASE t \in twinned
    BY <1>1, <1>4, <1>5, ServiceUnruly DEF Service!Serve
  <1>6. CASE t \notin twinned /\ state[t] = "running"
    <2>1. child[t] = NoChild
      BY <1>6 DEF EnsureWorkerRunning, MayStart
    <2>2. PICK q \in Slots : ~closing /\ kind[q] = t /\ chain[q] \in Timers
      BY <1>6, <2>1 DEF Refined, Life, Orderly, WindowOpen, Timers
    <2>3. proc[q] = "gone"
      BY <2>2 DEF Refined, Life, ChainOfTheGone, Timers
    <2>4. Phase(t) = "pausing" /\ Phase(t)' = "twinned"
      BY <1>1, <1>6, <2>2, <2>3 DEF Refined, PhaseFacts
    <2>5. Service!Becomes(t, "pausing", "twinned")
      BY <1>1, <1>4, <2>4, BecomesLaw
    <2> QED
      BY <1>1, <1>6, <2>2, <2>5 DEF Service!Serve, Service!Intrude
  <1>7. CASE t \notin twinned /\ state[t] # "running"
    <2>1. state[t] \in {"idle", "crashed"}
      BY <1>7 DEF EnsureWorkerRunning, MayStart, Refined, Typed, SupTypeOK, WorkerStates
    <2>2. ASSUME NEW q \in Slots, kind[q] = t PROVE proc[q] \in {"free", "orphan"}
      BY <1>7, <2>1, <2>2, SupervisorAssumption DEF Refined, Typed, ProcTypeOK, ProcStates, Life,
         Orderly, Settled, EveryChildSupervised, Dead
    <2>3. Phase(t) = IF state[t] = "crashed" THEN "givenup" ELSE "none"
      BY <1>7, <2>2 DEF Refined, PhaseFacts
    <2>4. Phase(t)' = "up"
      BY <1>1, <1>3, <1>7 DEF Refined, PhaseFacts
    <2>5. Service!Becomes(t, IF state[t] = "crashed" THEN "givenup" ELSE "none", "up")
      BY <1>1, <1>4, <2>3, <2>4, BecomesLaw
    <2>6. restarts' = [restarts EXCEPT ![t] = 0]
      BY <1>1, <1>7, <2>1 DEF Refined, Typed, SupTypeOK, Life, Orderly, IdleFresh
    <2>7. state[t] = "idle" => ~closing
      BY <1>7 DEF Refined, Life, Orderly, IdleFresh
    <2> QED
      BY <1>1, <2>1, <2>5, <2>6, <2>7 DEF Service!Serve, Service!Start
  <1> QED
    BY <1>5, <1>6, <1>7

LEMMA ServiceDie ==
  ASSUME Refined, NEW p \in Slots, NEW how \in {"exited", "aborted"}, Die(p, how)
  PROVE  Service!Serve(kind[p])
  <1> DEFINE t == kind[p]
  <1>1. /\ proc[p] = "alive" /\ proc'[p] = how /\ kind' = kind /\ t \in Types
        /\ \A q \in Slots : q # p => proc'[q] = proc[q]
        /\ UNCHANGED <<server, closing, restarts, state, chain, twinned>>
    BY DEF Die, Refined, Typed, ProcTypeOK, bootVars, supVars, chainVars, callVars
  <1>2. OnlyOf(t)
    BY <1>1 DEF OnlyOf
  <1>3. CASE t \in twinned
    BY <1>1, <1>2, <1>3, ServiceUnruly DEF Service!Serve
  <1>4. CASE t \notin twinned
    <2>1. Phase(t) = "up" /\ Phase(t)' = "ended"
      BY <1>1, <1>4 DEF Refined, PhaseFacts, Dead
    <2>2. Service!Becomes(t, "up", "ended")
      BY <1>1, <1>2, <2>1, BecomesLaw
    <2> QED
      BY <1>1, <2>2 DEF Service!Serve, Service!End
  <1> QED
    BY <1>3, <1>4

(* Freeing a process leaves none of its type. *)
LEMMA FreedLaw ==
  ASSUME Refined, NEW p \in Slots, proc[p] = "gone" \/ Dead(p),
         kind[p] \notin twinned, kind[p] \notin twinned', kind' = kind,
         proc' = [proc EXCEPT ![p] = "free"]
  PROVE  Phase(kind[p])' = IF state'[kind[p]] = "crashed" THEN "givenup" ELSE "none"
  <1> DEFINE t == kind[p]
  <1>1. /\ t \in Types /\ p \in Held(t) /\ proc'[p] = "free"
        /\ \A q \in Slots : q # p => proc'[q] = proc[q]
    BY DEF Refined, Typed, ProcTypeOK, Held, Dead
  <1>2. \A q \in Slots : kind'[q] = t => proc'[q] \in {"free", "orphan"}
    <2>1. ASSUME NEW q \in Slots, q # p, kind[q] = t, proc[q] \notin {"free", "orphan"}
          PROVE FALSE
      <3>1. q \in Held(t)
        BY <2>1 DEF Held
      <3> QED
        BY <1>1, <2>1, <3>1, HeldAlone DEF Refined
    <2> QED
      BY <1>1, <2>1
  <1> QED
    BY <1>1, <1>2 DEF Refined, PhaseFacts

LEMMA ServiceExit ==
  ASSUME Refined, NEW p \in Slots, HandleWorkerExit(p)
  PROVE  Service!Serve(kind[p])
  <1> DEFINE t == kind[p]
  <1>1. /\ t \in Types /\ Dead(p) /\ server = "up"
        /\ UNCHANGED <<server, closing, kind, twinned>>
    BY DEF HandleWorkerExit, Dead, Refined, Typed, ProcTypeOK, BootTypeOK, Life, DownIsEmpty,
           bootVars, callVars
  <1>2. OnlyOf(t)
    <2>1. /\ \E v \in {"free", "gone"} : proc' = [proc EXCEPT ![p] = v]
          /\ \/ chain' = chain
             \/ \E stage : chain' = [chain EXCEPT ![p] = stage]
          /\ \/ state' = state
             \/ \E v : state' = [state EXCEPT ![t] = v]
          /\ \/ restarts' = restarts
             \/ \E n : restarts' = [restarts EXCEPT ![t] = n]
      BY DEF HandleWorkerExit, ExitWhileClosing, ExitWhileServing, PlannedExit, GiveUp,
         UnexpectedExit, BeginRespawn
    <2> QED
      BY <1>1, <2>1 DEF OnlyOf, Refined, Typed, ProcTypeOK, ChainTypeOK, SupTypeOK
  <1>3. CASE t \in twinned
    BY <1>1, <1>2, <1>3, ServiceUnruly DEF Service!Serve
  <1>4. t \notin twinned => Phase(t) = "ended"
    BY <1>1 DEF Refined, PhaseFacts
  <1>5. CASE t \notin twinned /\ closing
    <2>1. proc' = [proc EXCEPT ![p] = "free"] /\ restarts' = restarts /\ state'[t] = "stopped"
      BY <1>1, <1>5 DEF HandleWorkerExit, ExitWhileClosing, Refined, Typed, SupTypeOK
    <2>2. Phase(t)' = "none"
      BY <1>1, <1>5, <2>1, FreedLaw
    <2>3. Service!Becomes(t, "ended", "none")
      BY <1>1, <1>2, <1>4, <1>5, <2>2, BecomesLaw
    <2> QED
      BY <1>5, <2>1, <2>3 DEF Service!Serve, Service!LeftEnded
  <1>6. CASE t \notin twinned /\ ~closing /\ GiveUp(t, p)
    <2>1. proc' = [proc EXCEPT ![p] = "free"] /\ restarts' = restarts /\ state'[t] = "crashed"
      BY <1>1, <1>6 DEF GiveUp, Refined, Typed, SupTypeOK
    <2>2. Phase(t)' = "givenup"
      BY <1>1, <1>6, <2>1, FreedLaw
    <2>3. Service!Becomes(t, "ended", "givenup")
      BY <1>1, <1>2, <1>4, <1>6, <2>2, BecomesLaw
    <2>4. restarts[t] = MaxRestarts
      BY <1>1, <1>6, Constant DEF GiveUp, BudgetSpent, Refined, Typed, SupTypeOK
    <2> QED
      BY <1>1, <1>6, <2>1, <2>3, <2>4 DEF Service!Serve, Service!LeftEnded
  <1>7. CASE t \notin twinned /\ ~closing /\ PlannedExit(t, p)
    <2>1. proc'[p] = "gone" /\ chain'[p] \notin Timers
      BY <1>7 DEF PlannedExit, BeginRespawn, Timers, Refined, Typed, ProcTypeOK, ChainTypeOK
    <2>2. Phase(t)' = "replacing"
      BY <1>1, <1>7, <2>1 DEF Refined, PhaseFacts
    <2>3. Service!Becomes(t, "ended", "replacing")
      BY <1>1, <1>2, <1>4, <1>7, <2>2, BecomesLaw
    <2> QED
      BY <1>1, <1>7, <2>3 DEF PlannedExit, Service!Serve, Service!ReplacePlanned
  <1>8. CASE t \notin twinned /\ ~closing /\ UnexpectedExit(t, p)
    <2>1. proc'[p] = "gone" /\ chain'[p] \in Timers
      BY <1>8 DEF UnexpectedExit, Timers, Refined, Typed, ProcTypeOK, ChainTypeOK
    <2>2. Phase(t)' = "pausing"
      BY <1>1, <1>8, <2>1 DEF Refined, PhaseFacts
    <2>3. Service!Becomes(t, "ended", "pausing")
      BY <1>1, <1>2, <1>4, <1>8, <2>2, BecomesLaw
    <2>4. restarts[t] < MaxRestarts
      BY <1>1, <1>8, Constant DEF UnexpectedExit, BudgetSpent, Refined, Typed, SupTypeOK
    <2> QED
      BY <1>1, <1>8, <2>3, <2>4 DEF UnexpectedExit, Service!Serve, Service!ReplaceUnplanned
  <1> QED
    BY <1>3, <1>5, <1>6, <1>7, <1>8 DEF HandleWorkerExit, ExitWhileServing

(* The steps of a respawn chain concern a process that is gone. *)
LEMMA ChainOnly ==
  ASSUME Refined, NEW p \in Slots, RespawnTimer(p) \/ ProbeForeign(p) \/ RespawnNow(p)
  PROVE  /\ kind[p] \in Types /\ proc[p] = "gone" /\ server = "up"
         /\ UNCHANGED <<server, closing, restarts, twinned>>
         /\ OnlyOf(kind[p])
  <1> DEFINE t == kind[p]
  <1>1. /\ t \in Types /\ proc[p] = "gone" /\ server = "up"
        /\ UNCHANGED <<server, closing, restarts, twinned>>
    BY DEF RespawnTimer, ProbeForeign, RespawnNow, Refined, Typed, ProcTypeOK, BootTypeOK,
           Life, ChainOfTheGone, DownIsEmpty, bootVars, callVars
  <1>2. /\ \E stage : chain' = [chain EXCEPT ![p] = stage]
        /\ \/ state' = state
           \/ \E v : state' = [state EXCEPT ![t] = v]
    BY DEF RespawnTimer, ProbeForeign, RespawnNow, BeginRespawn, ChainEnds, Spawn
  <1>3. \A q \in Slots : q # p => chain'[q] = chain[q]
    BY <1>2 DEF Refined, Typed, ChainTypeOK
  <1>4. \A u \in Types : u # t => state'[u] = state[u]
    BY <1>2 DEF Refined, Typed, SupTypeOK
  <1>5. CASE kind' = kind /\ (proc' = proc \/ proc' = [proc EXCEPT ![p] = "free"])
    BY <1>1, <1>3, <1>4, <1>5 DEF OnlyOf, Refined, Typed, ProcTypeOK
  <1>6. ASSUME NEW q \in Slots, Spawn(t, q, [proc EXCEPT ![p] = "free"]) PROVE OnlyOf(t)
    <2>1. /\ q # p => proc[q] = "free"
          /\ kind'[q] = t /\ kind'[p] = t
          /\ \A r \in Slots : r # q /\ r # p => proc'[r] = proc[r] /\ kind'[r] = kind[r]
      BY <1>1, <1>6 DEF Spawn, Refined, Typed, ProcTypeOK
    <2> QED
      BY <1>1, <1>3, <1>4, <2>1 DEF OnlyOf
  <1>7. OnlyOf(t)
    BY <1>5, <1>6 DEF RespawnTimer, ProbeForeign, RespawnNow
  <1> QED
    BY <1>1, <1>7

LEMMA ServiceChain ==
  ASSUME Refined, NEW p \in Slots, RespawnTimer(p) \/ ProbeForeign(p) \/ RespawnNow(p)
  PROVE  Service!Serve(kind[p])
  <1>0. PICK t \in Types : t = kind[p]
    BY DEF Refined, Typed, ProcTypeOK
  <1>1. /\ proc[p] = "gone" /\ server = "up" /\ OnlyOf(t)
        /\ UNCHANGED <<server, closing, restarts, twinned>>
    BY <1>0, ChainOnly
  <1>2. CASE t \in twinned
    BY <1>0, <1>1, <1>2, ServiceUnruly DEF Service!Serve
  <1>3. t \notin twinned => Phase(t) = IF chain[p] \in Timers THEN "pausing" ELSE "replacing"
    BY <1>0, <1>1 DEF Refined, PhaseFacts
  <1>4. CASE t \notin twinned /\ RespawnTimer(p)
    <2>1. Phase(t) = "pausing"
      BY <1>3, <1>4 DEF RespawnTimer, Timers
    <2>2. CASE closing
      <3>1. kind' = kind /\ proc' = [proc EXCEPT ![p] = "free"] /\ state' = state
        BY <1>4, <2>2 DEF RespawnTimer
      <3>2. state[t] # "crashed"
        BY <1>0, <1>1, <1>4 DEF Refined, Life, Orderly, Settled
      <3>3. Phase(t)' = "none"
        BY <1>0, <1>1, <1>4, <3>1, <3>2, FreedLaw
      <3>4. Service!Becomes(t, "pausing", "none")
        BY <1>1, <2>1, <3>3, BecomesLaw
      <3> QED
        BY <1>0, <1>1, <2>2, <3>4 DEF Service!Serve, Service!PauseOver
    <2>3. CASE ~closing
      <3>1. kind'[p] = t /\ proc'[p] = "gone" /\ chain'[p] \notin Timers
        BY <1>0, <1>1, <1>4, <2>3 DEF RespawnTimer, BeginRespawn, Timers, Refined, Typed,
           ChainTypeOK
      <3>2. Phase(t)' = "replacing"
        BY <1>1, <1>4, <3>1 DEF Refined, PhaseFacts
      <3>3. Service!Becomes(t, "pausing", "replacing")
        BY <1>1, <2>1, <3>2, BecomesLaw
      <3> QED
        BY <1>0, <1>1, <2>3, <3>3 DEF Service!Serve, Service!PauseOver
    <2> QED
      BY <2>2, <2>3
  <1>5. CASE t \notin twinned /\ ProbeForeign(p)
    <2>1. /\ kind' = kind /\ proc' = [proc EXCEPT ![p] = "free"] /\ state'[t] = "crashed"
          /\ chain[p] \notin Timers
      BY <1>0, <1>5 DEF ProbeForeign, Timers, Refined, Typed, SupTypeOK
    <2>2. Phase(t) = "replacing" /\ Phase(t)' = "givenup"
      BY <1>0, <1>1, <1>3, <1>5, <2>1, FreedLaw
    <2>3. Service!Becomes(t, "replacing", "givenup")
      BY <1>1, <2>2, BecomesLaw
    <2> QED
      BY <1>0, <1>1, <2>3 DEF Service!Serve, Service!CalledOff
  <1>6. CASE t \notin twinned /\ RespawnNow(p)
    <2>1. Phase(t) = "replacing"
      BY <1>3, <1>6 DEF RespawnNow, Timers
    <2>2. CASE closing
      <3>1. kind' = kind /\ proc' = [proc EXCEPT ![p] = "free"] /\ state'[t] = "stopped"
        BY <1>0, <1>6, <2>2 DEF RespawnNow, Refined, Typed, SupTypeOK
      <3>2. Phase(t)' = "none"
        BY <1>0, <1>1, <1>6, <3>1, FreedLaw
      <3>3. Service!Becomes(t, "replacing", "none")
        BY <1>1, <2>1, <3>2, BecomesLaw
      <3> QED
        BY <1>0, <1>1, <2>2, <3>3 DEF Service!Serve, Service!CalledOff
    <2>3. CASE ~closing
      <3>1. PICK q \in Slots : Spawn(t, q, [proc EXCEPT ![p] = "free"])
        BY <1>0, <1>6, <2>3 DEF RespawnNow
      <3>2. proc'[q] = "alive" /\ kind'[q] = t
        BY <3>1 DEF Spawn, Refined, Typed, ProcTypeOK
      <3>3. Phase(t)' = "up"
        BY <1>1, <1>6, <3>2 DEF Refined, PhaseFacts
      <3>4. Service!Becomes(t, "replacing", "up")
        BY <1>1, <2>1, <3>3, BecomesLaw
      <3> QED
        BY <1>0, <1>1, <2>3, <3>4 DEF Service!Serve, Service!Replaced
    <2> QED
      BY <2>2, <2>3
  <1> QED
    BY <1>2, <1>4, <1>5, <1>6

LEMMA ServiceGone ==
  ASSUME Refined, ServerGone
  PROVE  Service!Gone
  <1>1. /\ \A p \in Slots : proc'[p] \in {"free", "orphan"}
        /\ twinned' = {} /\ \A t \in Types : state'[t] # "crashed"
    BY DEF ServerGone, EveryType, Refined, Typed, ProcTypeOK
  <1>2. \A t \in Types : Phase(t)' = "none"
    BY <1>1 DEF Refined, PhaseFacts
  <1> QED
    BY <1>2 DEF ServerGone, EveryType, Service!Gone

LEMMA ServiceStart ==
  ASSUME Refined, ServerStart
  PROVE  Service!Boot
  <1>1. /\ ~closing /\ server = "down" /\ server' = "up"
        /\ UNCHANGED <<closing, restarts, proc, kind, twinned, state>>
        /\ twinned = {} /\ \A t \in Types : state[t] = "idle"
        /\ \A p \in Slots : proc[p] \in {"free", "orphan"}
    BY DEF ServerStart, Refined, Life, DownIsEmpty, supVars, procVars, callVars
  <1>2. \A t \in Types : Phase(t) = "none" /\ Phase(t)' = "none"
    BY <1>1 DEF Refined, PhaseFacts
  <1> QED
    BY <1>1, <1>2 DEF Service!Boot

(* Shutdown marks the types without a child stopped, the given-up ones too. *)
LEMMA ServiceShutdown ==
  ASSUME Refined, Shutdown
  PROVE  Service!Close
  <1>1. /\ UNCHANGED <<proc, kind, chain, twinned, restarts>> /\ closing'
        /\ state' = [t \in Types |-> IF child[t] = NoChild THEN "stopped" ELSE state[t]]
    BY DEF Shutdown, chainVars, callVars
  <1>2. ASSUME NEW t \in Types
        PROVE  Phase(t)' = IF Phase(t) = "givenup" THEN "none" ELSE Phase(t)
    <2>1. Held(t)' = Held(t)
      BY <1>1 DEF Held
    <2>2. CASE t \in twinned
      BY <1>1, <2>2 DEF Phase
    <2>3. CASE t \notin twinned /\ Held(t) = {}
      <3>1. child[t] = NoChild
        BY <2>3 DEF Refined, Typed, SupTypeOK, Life, ChildIsPresent, Present, Dead, Held
      <3>2. state'[t] = "stopped"
        BY <1>1, <3>1
      <3> QED
        BY <1>1, <2>1, <2>3, <3>2 DEF Phase
    <2>4. CASE t \notin twinned /\ Held(t) # {}
      <3>1. Phase(t)' = Phase(t)
        BY <1>1, <2>1, <2>4, PhaseSame
      <3>2. Phase(t) # "givenup"
        BY <2>4 DEF Phase
      <3> QED
        BY <3>1, <3>2
    <2> QED
      BY <2>2, <2>3, <2>4
  <1> QED
    BY <1>1, <1>2 DEF Service!Close

LEMMA ServiceOrphan ==
  ASSUME Refined, NEW p \in Slots, OrphanEnds(p)
  PROVE  UNCHANGED Service!serviceVars
  <1>1. UNCHANGED <<server, closing, restarts, state, chain, twinned>>
    BY DEF OrphanEnds, bootVars, supVars, chainVars, callVars
  <1>2. \A t \in Types : Held(t)' = Held(t) /\ \A q \in Held(t) : proc'[q] = proc[q]
    BY DEF OrphanEnds, Held, Refined, Typed, ProcTypeOK
  <1>3. \A t \in Types : Phase(t)' = Phase(t)
    BY <1>1, <1>2, PhaseSame
  <1> QED
    BY <1>1, <1>3 DEF Service!serviceVars

(* A job report and the attempts to release a lock change the state of a     *)
(* type only while a process of it is there.                                *)
LEMMA ServiceBusy ==
  ASSUME Refined, NEW p \in Slots, DeliverIpc(p) \/ ReleaseAttempt(p) \/ ProbeOwn(p)
  PROVE  UNCHANGED Service!serviceVars
  <1> DEFINE t == kind[p]
  <1>1. t \in Types /\ UNCHANGED <<server, closing, proc, kind, restarts, twinned>>
    BY DEF DeliverIpc, ReleaseAttempt, ProbeOwn, bootVars, procVars, callVars, Refined, Typed,
       ProcTypeOK
  <1>2. state' = state \/ (Held(t) # {} /\ state' = [state EXCEPT ![t] = "restarting"])
    <2>1. CASE DeliverIpc(p)
      <3>1. state' = state \/ (child[t] # NoChild /\ state' = [state EXCEPT ![t] = "restarting"])
        BY <2>1 DEF DeliverIpc, NotifyJobCompleted, InitiateRestart
      <3>2. child[t] # NoChild => child[t] \in Held(t)
        BY <1>1 DEF Refined, Typed, SupTypeOK, Life, ChildIsPresent, Present, Dead, Held
      <3> QED
        BY <3>1, <3>2
    <2>2. CASE ReleaseAttempt(p) \/ ProbeOwn(p)
      <3>1. state' = state \/ state' = [state EXCEPT ![t] = "restarting"]
        BY <2>2 DEF ReleaseAttempt, ProbeOwn, ScheduleRespawn
      <3>2. chain[p] # "none"
        BY <2>2 DEF ReleaseAttempt, ProbeOwn, ReleaseStages, AfterFailedRelease
      <3>3. p \in Held(t)
        BY <3>2 DEF Refined, Life, ChainOfTheGone, Held
      <3> QED
        BY <3>1, <3>3
    <2> QED
      BY <2>1, <2>2
  <1>3. \A q \in Slots : chain'[q] \in Timers <=> chain[q] \in Timers
    <2>1. CASE DeliverIpc(p)
      BY <2>1 DEF DeliverIpc, chainVars
    <2>2. CASE ReleaseAttempt(p) \/ ProbeOwn(p)
      <3>1. /\ chain[p] \notin Timers
            /\ \E stage : stage \notin Timers /\ chain' = [chain EXCEPT ![p] = stage]
        BY <2>2 DEF ReleaseAttempt, ProbeOwn, ScheduleRespawn, ReleaseStages,
           AfterFailedRelease, Timers
      <3> QED
        BY <3>1 DEF Refined, Typed, ChainTypeOK
    <2> QED
      BY <2>1, <2>2
  <1>4. \A u \in Types : Held(u) # {} \/ state'[u] = state[u]
    BY <1>1, <1>2 DEF Refined, Typed, SupTypeOK
  <1> QED
    BY <1>1, <1>3, <1>4, StutterLaw

(* The remaining actions do not show from outside. *)
LEMMA ServiceHidden ==
  ASSUME \/ \E t \in Types :
              \/ AcquireGranted(t) \/ AcquireRefused(t) \/ AcquireFailed(t)
              \/ ShutdownRelease(t) \/ ShutdownClose(t) \/ LeaseLapses(t)
         \/ \E p \in Slots : CompleteJob(p)
         \/ \E m \in Manuals : ManualAction(m)
         \/ Tick
         \/ UNCHANGED vars
  PROVE  UNCHANGED Service!serviceVars
  <1>1. UNCHANGED <<server, closing, proc, kind, restarts, twinned, state, chain>>
    BY DEF AcquireGranted, AcquireRefused, AcquireFailed, ShutdownRelease, ShutdownClose,
       LeaseLapses, CompleteJob, ManualAction, ManualFailOpen, ManualProbe, ManualClaim,
       ManualStop, Tick, vars, bootVars, supVars, procVars, chainVars, callVars
  <1> QED
    BY <1>1, StutterLaw

LEMMA ServiceNext ==
  ASSUME Refined, [Next]_vars
  PROVE  [Service!Next]_(Service!serviceVars)
  <1> USE DEF Service!Next
  <1>1. \A p \in Slots : kind[p] \in Types
    BY DEF Refined, Typed, ProcTypeOK
  <1>2. ASSUME NEW p \in Slots, Leave(p) \/ Crash(p) PROVE Service!Next
    <2>1. \E how \in {"exited", "aborted"} : Die(p, how)
      BY <1>2 DEF Leave, Crash
    <2> QED
      BY <1>1, <2>1, ServiceDie
  <1>3. ASSUME NEW p \in Slots,
               HandleWorkerExit(p) \/ RespawnTimer(p) \/ ProbeForeign(p) \/ RespawnNow(p)
        PROVE  Service!Next
    BY <1>1, <1>3, ServiceExit, ServiceChain
  <1>4. ASSUME NEW t \in Types, EnsureWorkerRunning(t) PROVE Service!Next
    BY <1>4, ServiceEnsure
  <1>5. ASSUME Shutdown \/ ServerExit \/ ServerCrash \/ ServerStart PROVE Service!Next
    BY <1>5, ServiceShutdown, ServiceGone, ServiceStart DEF ServerExit, ServerCrash
  <1> QED
    BY <1>2, <1>3, <1>4, <1>5, ServiceOrphan, ServiceBusy, ServiceHidden
       DEF Next, TypeAction, ProcAction

(* WorkerSupervisor implements SupervisedWorker: one process per type,      *)
(* replaced only after it ended and within the restart budget, and none     *)
(* started once shutdown has begun but by a call for a type given up since; *)
(* until a call comes between an unexpected exit and its timer.             *)
THEOREM ServiceCorrect == Spec => ServiceContract
  <1>1. Typed /\ Life /\ (Typed /\ Life)' => Refined
    <2>1. Typed /\ Life => PhaseFacts
      BY PhaseLaw
    <2>2. (Typed /\ Life)' => PhaseFacts'
      BY PhaseLaw, PTL
    <2> QED
      BY <2>1, <2>2 DEF Refined
  <1>2. Typed /\ Life /\ (Typed /\ Life)' /\ [Next]_vars
          => [Service!Next]_(Service!serviceVars)
    BY <1>1, ServiceNext
  <1> QED
    BY <1>2, ServiceInit, LifeCorrect, PTL DEF Spec, ServiceContract, Service!Spec

-----------------------------------------------------------------------------
(* Each type lives the life of WorkerLife, whatever calls arrive.  This is   *)
(* what SecondarySpawn takes for granted.  It needs of Life only that chains *)
(* belong to processes that are gone, and that needs no assumption on calls. *)

LEMMA ChainNext ==
  ASSUME Typed, ChainOfTheGone, [Next]_vars
  PROVE  ChainOfTheGone'
  <1> USE DEF ChainOfTheGone
  <1>1. CASE UNCHANGED <<proc, chain>>
    BY <1>1
  <1>2. ASSUME NEW t \in Types, EnsureWorkerRunning(t) PROVE ChainOfTheGone'
    BY <1>2 DEF EnsureWorkerRunning, Spawn, chainVars, Typed, ProcTypeOK
  <1>3. ASSUME NEW p \in Slots, Leave(p) \/ Crash(p) \/ OrphanEnds(p) PROVE ChainOfTheGone'
    BY <1>3 DEF Leave, Crash, Die, OrphanEnds, chainVars, Typed, ProcTypeOK
  <1>4. ASSUME NEW p \in Slots, HandleWorkerExit(p) PROVE ChainOfTheGone'
    <2>1. chain[p] = "none"
      BY <1>4 DEF HandleWorkerExit
    <2>2. \/ proc' = [proc EXCEPT ![p] = "free"] /\ chain' = chain
          \/ /\ proc' = [proc EXCEPT ![p] = "gone"]
             /\ \E stage \in {"release1", "spawn", "timer", "bareTimer"} :
                   chain' = [chain EXCEPT ![p] = stage]
      BY <1>4 DEF HandleWorkerExit, ExitWhileClosing, ExitWhileServing, PlannedExit, GiveUp,
         UnexpectedExit, BeginRespawn
    <2> QED
      BY <2>1, <2>2 DEF Typed, ProcTypeOK, ChainTypeOK
  <1>5. ASSUME NEW p \in Slots, RespawnTimer(p) \/ ProbeForeign(p) PROVE ChainOfTheGone'
    <2>1. \/ proc' = [proc EXCEPT ![p] = "free"] /\ chain' = [chain EXCEPT ![p] = "none"]
          \/ /\ UNCHANGED proc
             /\ \E stage \in {"release1", "spawn"} : chain' = [chain EXCEPT ![p] = stage]
      BY <1>5 DEF RespawnTimer, ProbeForeign, BeginRespawn, ChainEnds
    <2>2. chain[p] # "none"
      BY <1>5 DEF RespawnTimer, ProbeForeign
    <2> QED
      BY <2>1, <2>2 DEF Typed, ProcTypeOK, ChainTypeOK
  <1>6. ASSUME NEW p \in Slots, ReleaseAttempt(p) \/ ProbeOwn(p) PROVE ChainOfTheGone'
    <2>1. /\ UNCHANGED proc /\ chain[p] # "none"
          /\ \E stage : stage # "none" /\ chain' = [chain EXCEPT ![p] = stage]
      BY <1>6, StageAfterFailure DEF ReleaseAttempt, ProbeOwn, ScheduleRespawn, ReleaseStages,
         AfterFailedRelease, procVars
    <2> QED
      BY <2>1 DEF Typed, ChainTypeOK
  <1>7. ASSUME NEW p \in Slots, RespawnNow(p) PROVE ChainOfTheGone'
    <2> DEFINE slots == [proc EXCEPT ![p] = "free"]
    <2>1. chain' = [chain EXCEPT ![p] = "none"]
      BY <1>7 DEF RespawnNow, ChainEnds
    <2>2. \/ proc' = slots
          \/ \E q \in Slots : slots[q] = "free" /\ proc' = [slots EXCEPT ![q] = "alive"]
      BY <1>7 DEF RespawnNow, Spawn
    <2>3. \A q \in Slots : slots[q] = "gone" <=> q # p /\ proc[q] = "gone"
      BY DEF Typed, ProcTypeOK
    <2>4. \A q \in Slots : proc'[q] = "gone" <=> slots[q] = "gone"
      BY <2>2 DEF Typed, ProcTypeOK
    <2> QED
      BY <2>1, <2>3, <2>4 DEF Typed, ChainTypeOK
  <1>8. CASE ServerGone
    BY <1>8 DEF ServerGone, EverySlot
  <1>9. CASE \E t \in Types : TypeAction(t)
    BY <1>1, <1>2, <1>9 DEF TypeAction, AcquireGranted, AcquireRefused, AcquireFailed,
       ShutdownRelease, ShutdownClose, LeaseLapses, procVars, chainVars
  <1>10. CASE \E p \in Slots : ProcAction(p)
    BY <1>1, <1>3, <1>4, <1>5, <1>6, <1>7, <1>10 DEF ProcAction, CompleteJob, DeliverIpc,
       chainVars
  <1>11. CASE \/ \E m \in Manuals : ManualAction(m)
              \/ Shutdown \/ ServerStart \/ Tick \/ UNCHANGED vars
    BY <1>1, <1>11 DEF ManualAction, ManualFailOpen, ManualProbe, ManualClaim, ManualStop,
       Shutdown, ServerStart, Tick, vars, procVars, chainVars
  <1> QED
    BY <1>8, <1>9, <1>10, <1>11 DEF Next, ServerExit, ServerCrash

(* What the mapping shows of a process. *)
LEMMA SeenLaw ==
  ASSUME Typed, ChainOfTheGone, NEW t \in Types, NEW p \in Slots
  PROVE  /\ kind[p] # t => Seen(t, p) = "free"
         /\ kind[p] = t =>
              /\ Present(p) => Seen(t, p) = "alive"
              /\ proc[p] \in {"free", "orphan"} => Seen(t, p) = "free"
              /\ proc[p] = "gone" =>
                   Seen(t, p) = IF chain[p] \in {"timer", "bareTimer"} THEN "timer"
                                ELSE "respawn"
  BY DEF Seen, Present, Dead, ChainOfTheGone

(* What a step leaves as it is looks as it did; so does a process that ends  *)
(* before its exit has been handled.                                         *)
LEMMA SeenKept ==
  ASSUME NEW t \in Types, NEW p \in Slots, kind'[p] = kind[p], chain'[p] = chain[p],
         proc'[p] = proc[p] \/ (Present(p) /\ Present(p)')
  PROVE  Seen(t, p)' = Seen(t, p)
  BY DEF Seen, Present, Dead

(* A step that touches neither the type's entry nor, visibly, its processes. *)
LEMMA WorkerKept ==
  ASSUME NEW t \in Types, UNCHANGED closing, state'[t] = state[t], child'[t] = child[t],
         \A p \in Slots : Seen(t, p)' = Seen(t, p)
  PROVE  UNCHANGED Worker(t)!workerVars
  BY DEF Worker!workerVars

Mapped == Typed /\ ChainOfTheGone /\ Typed' /\ ChainOfTheGone'

(* A step that touches one process of type u only. *)
LEMMA SeenOne ==
  ASSUME Mapped, NEW t \in Types, NEW p \in Slots, UNCHANGED kind,
         \A q \in Slots : q # p => proc'[q] = proc[q] /\ chain'[q] = chain[q]
  PROVE  /\ \A q \in Slots : q # p \/ kind[p] # t => Seen(t, q)' = Seen(t, q)
         /\ [q \in Slots |-> Seen(t, q)]'
              = [[q \in Slots |-> Seen(t, q)] EXCEPT ![p] = Seen(t, p)']
  <1>1. ASSUME NEW q \in Slots, q # p PROVE Seen(t, q)' = Seen(t, q)
    <2>1. kind'[q] = kind[q] /\ chain'[q] = chain[q] /\ proc'[q] = proc[q]
      BY <1>1
    <2> QED
      BY <1>1, <2>1, SeenKept
  <1>2. kind[p] # t => Seen(t, p)' = Seen(t, p)
    BY DEF Seen
  <1> QED
    BY <1>1, <1>2

(* A fork, in a slot that is free or given back by a process of its type. *)
ForkOf(u, q, back) ==
    /\ proc[q] = "free" \/ q \in back
    /\ proc' = [p \in Slots |-> IF p = q THEN "alive"
                                ELSE IF p \in back THEN "free" ELSE proc[p]]
    /\ kind' = [kind EXCEPT ![q] = u]
    /\ \A p \in Slots \ back : chain'[p] = chain[p]
    /\ \A p \in back : kind[p] = u

LEMMA SeenFork ==
  ASSUME Mapped, NEW t \in Types, NEW u \in Types, NEW back \in SUBSET Slots, NEW q \in Slots,
         ForkOf(u, q, back)
  PROVE  /\ u # t => \A p \in Slots : Seen(t, p)' = Seen(t, p)
         /\ u = t =>
              /\ Seen(t, q) = "free" \/ q \in back
              /\ \A p \in Slots :
                   Seen(t, p)' = IF p = q THEN "alive"
                                 ELSE IF p \in back THEN "free" ELSE Seen(t, p)
  <1>1. ASSUME NEW p \in Slots
        PROVE  /\ kind'[p] = IF p = q THEN u ELSE kind[p]
               /\ proc'[p] = IF p = q THEN "alive" ELSE IF p \in back THEN "free" ELSE proc[p]
    BY DEF ForkOf, Mapped, Typed, ProcTypeOK
  <1>2. ASSUME NEW p \in Slots, p # q, p \notin back PROVE Seen(t, p)' = Seen(t, p)
    <2>1. chain'[p] = chain[p]
      BY <1>2 DEF ForkOf
    <2> QED
      BY <1>1, <1>2, <2>1, SeenKept
  <1>3. Seen(t, q) = "free" \/ q \in back
    BY SeenLaw DEF ForkOf, Mapped
  <1>4. ASSUME u # t, NEW p \in Slots, p = q \/ p \in back
        PROVE  Seen(t, p) = "free" /\ Seen(t, p)' = "free"
    BY <1>1, <1>3, <1>4, SeenLaw DEF ForkOf, Mapped, Seen
  <1>5. ASSUME u = t
        PROVE  /\ Seen(t, q)' = "alive"
               /\ \A p \in back : p # q => Seen(t, p)' = "free"
    <2>1. Seen(t, q)' = "alive"
      BY <1>1, <1>5 DEF Seen
    <2>2. ASSUME NEW p \in back, p # q PROVE Seen(t, p)' = "free"
      <3>1. p \in Slots /\ proc'[p] = "free" /\ chain'[p] = "none"
        BY <1>1, <2>2 DEF Mapped, ChainOfTheGone
      <3> QED
        BY <3>1 DEF Seen, Dead
    <2> QED  BY <2>1, <2>2
  <1> QED
    BY <1>2, <1>3, <1>4, <1>5

LEMMA WorkerEnsure ==
  ASSUME Mapped, NEW t \in Types, NEW u \in Types, EnsureWorkerRunning(u)
  PROVE  IF u = t THEN Worker(t)!Ensure ELSE UNCHANGED Worker(t)!workerVars
  <1>1. PICK q \in Slots : Spawn(u, q, proc)
    BY DEF EnsureWorkerRunning
  <1>2. /\ proc[q] = "free" /\ proc' = [proc EXCEPT ![q] = "alive"]
        /\ kind' = [kind EXCEPT ![q] = u]
        /\ child' = [child EXCEPT ![u] = q] /\ state' = [state EXCEPT ![u] = "running"]
        /\ UNCHANGED <<closing, chain>>
    BY <1>1 DEF Spawn, EnsureWorkerRunning, chainVars
  <1>3. /\ u # t => \A p \in Slots : Seen(t, p)' = Seen(t, p)
        /\ u = t =>
             /\ Seen(t, q) = "free"
             /\ \A p \in Slots : Seen(t, p)' = IF p = q THEN "alive" ELSE Seen(t, p)
    <2>1. ForkOf(u, q, {})
      BY <1>2 DEF ForkOf, Mapped, Typed, ProcTypeOK
    <2> QED
      BY <2>1, SeenFork
  <1>4. CASE u # t
    <2>1. \A p \in Slots : Seen(t, p)' = Seen(t, p)
      BY <1>3, <1>4
    <2>2. state'[t] = state[t] /\ child'[t] = child[t]
      BY <1>2, <1>4 DEF Mapped, Typed, SupTypeOK
    <2> QED
      BY <1>2, <1>4, <2>1, <2>2, WorkerKept
  <1>5. CASE u = t
    <2>1. /\ Seen(t, q) = "free"
          /\ \A p \in Slots : Seen(t, p)' = IF p = q THEN "alive" ELSE Seen(t, p)
      BY <1>3, <1>5
    <2>2. state'[t] = "running" /\ child'[t] # NoChild
      BY <1>2, <1>5, SupervisorAssumption DEF Mapped, Typed, SupTypeOK
    <2>3. Worker(t)!Fork({})
      BY <1>2, <2>1, <2>2 DEF Worker!Fork
    <2>4. Worker(t)!MayStart
      BY <1>5 DEF EnsureWorkerRunning, MayStart, Worker!MayStart
    <2> QED
      BY <1>5, <2>3, <2>4 DEF Worker!Ensure
  <1> QED
    BY <1>4, <1>5

LEMMA WorkerExit ==
  ASSUME Mapped, NEW t \in Types, NEW p \in Slots, HandleWorkerExit(p)
  PROVE  IF kind[p] = t THEN Worker(t)!WorkerExits(p) ELSE UNCHANGED Worker(t)!workerVars
  <1> DEFINE u == kind[p]
  <1>1. /\ u \in Types /\ Present(p)
        /\ child' = [child EXCEPT ![u] = NoChild] /\ UNCHANGED <<closing, kind>>
    BY DEF HandleWorkerExit, Mapped, Typed, ProcTypeOK, Present, Dead
  <1>2. /\ proc' \in {[proc EXCEPT ![p] = "free"], [proc EXCEPT ![p] = "gone"]}
        /\ \/ chain' = chain
           \/ \E stage : chain' = [chain EXCEPT ![p] = stage]
        /\ \/ state' = state
           \/ \E v : state' = [state EXCEPT ![u] = v]
    BY DEF HandleWorkerExit, ExitWhileClosing, ExitWhileServing, PlannedExit, GiveUp,
       UnexpectedExit, BeginRespawn
  <1>3. \A q \in Slots : q # p => proc'[q] = proc[q] /\ chain'[q] = chain[q]
    BY <1>2 DEF Mapped, Typed, ProcTypeOK, ChainTypeOK
  <1>4. CASE u # t
    <2>1. state'[t] = state[t] /\ child'[t] = child[t]
      BY <1>1, <1>2, <1>4 DEF Mapped, Typed, SupTypeOK
    <2> QED
      BY <1>1, <1>3, <1>4, <2>1, SeenOne, WorkerKept
  <1>5. CASE u = t
    <2>1. /\ Seen(t, p) = "alive" /\ child'[t] = NoChild
          /\ [q \in Slots |-> Seen(t, q)]'
               = [[q \in Slots |-> Seen(t, q)] EXCEPT ![p] = Seen(t, p)']
      <3>1. child'[t] = NoChild
        BY <1>1, <1>5 DEF Mapped, Typed, SupTypeOK
      <3>2. Seen(t, p) = "alive"
        BY <1>1, <1>5 DEF Seen, Present
      <3> QED
        BY <1>1, <1>3, <3>1, <3>2, SeenOne
    <2>2. CASE closing
      <3>1. state'[t] = "stopped" /\ proc'[p] = "free"
        BY <1>5, <2>2 DEF HandleWorkerExit, ExitWhileClosing, Mapped, Typed, SupTypeOK, ProcTypeOK
      <3>2. Seen(t, p)' = "free"
        BY <1>1, <1>5, <3>1 DEF Mapped, ChainOfTheGone, Seen, Dead
      <3> QED
        BY <1>1, <1>5, <2>1, <2>2, <3>1, <3>2 DEF Worker!WorkerExits
    <2>3. CASE ~closing
      <3>1. CASE PlannedExit(t, p)
        <4>1. /\ state'[t] = "restarting" /\ proc'[p] = "gone"
              /\ chain'[p] \in {"release1", "spawn"}
          BY <3>1 DEF PlannedExit, BeginRespawn, Mapped, Typed, SupTypeOK, ProcTypeOK,
             ChainTypeOK
        <4>2. Seen(t, p)' = "respawn"
          BY <1>1, <1>5, <4>1 DEF Seen, Dead
        <4> QED
          BY <1>1, <1>5, <2>1, <2>3, <4>1, <4>2 DEF Worker!WorkerExits
      <3>2. CASE UnexpectedExit(t, p)
        <4>1. /\ UNCHANGED state /\ proc'[p] = "gone"
              /\ chain'[p] \in {"timer", "bareTimer"}
          BY <3>2 DEF UnexpectedExit, Mapped, Typed, ProcTypeOK, ChainTypeOK
        <4>2. Seen(t, p)' = "timer"
          BY <1>1, <1>5, <4>1 DEF Seen, Dead
        <4> QED
          BY <1>1, <1>5, <2>1, <2>3, <4>1, <4>2 DEF Worker!WorkerExits
      <3>3. CASE GiveUp(t, p)
        <4>1. state'[t] = "crashed" /\ proc'[p] = "free"
          BY <3>3 DEF GiveUp, Mapped, Typed, SupTypeOK, ProcTypeOK
        <4>2. Seen(t, p)' = "free"
          BY <1>1, <1>5, <4>1 DEF Mapped, ChainOfTheGone, Seen, Dead
        <4> QED
          BY <1>1, <1>5, <2>1, <2>3, <4>1, <4>2 DEF Worker!WorkerExits
      <3> QED
        BY <1>5, <2>3, <3>1, <3>2, <3>3 DEF HandleWorkerExit, ExitWhileServing
    <2> QED
      BY <2>2, <2>3
  <1> QED
    BY <1>4, <1>5

LEMMA WorkerTimer ==
  ASSUME Mapped, NEW t \in Types, NEW p \in Slots, RespawnTimer(p)
  PROVE  IF kind[p] = t THEN Worker(t)!RespawnTimer(p) ELSE UNCHANGED Worker(t)!workerVars
  <1> DEFINE u == kind[p]
  <1>1. /\ u \in Types /\ proc[p] = "gone" /\ chain[p] \in {"timer", "bareTimer"}
        /\ UNCHANGED <<closing, child, kind>>
    BY DEF RespawnTimer, Mapped, Typed, ProcTypeOK, ChainOfTheGone
  <1>2. /\ closing => /\ proc' = [proc EXCEPT ![p] = "free"]
                      /\ chain' = [chain EXCEPT ![p] = "none"] /\ UNCHANGED state
        /\ ~closing => /\ UNCHANGED proc /\ state' = [state EXCEPT ![u] = "restarting"]
                       /\ \E stage \in {"release1", "spawn"} :
                            chain' = [chain EXCEPT ![p] = stage]
    BY DEF RespawnTimer, BeginRespawn, ChainEnds
  <1>3. /\ \A q \in Slots : q # p => proc'[q] = proc[q] /\ chain'[q] = chain[q]
        /\ closing => proc'[p] = "free" /\ chain'[p] = "none"
        /\ ~closing => proc'[p] = "gone" /\ chain'[p] \in {"release1", "spawn"}
    BY <1>1, <1>2 DEF Mapped, Typed, ProcTypeOK, ChainTypeOK
  <1>4. CASE u # t
    <2>1. state'[t] = state[t] /\ child'[t] = child[t]
      BY <1>1, <1>2, <1>4 DEF Mapped, Typed, SupTypeOK
    <2> QED
      BY <1>1, <1>3, <1>4, <2>1, SeenOne, WorkerKept
  <1>5. CASE u = t
    <2>1. /\ Seen(t, p) = "timer"
          /\ Seen(t, p)' = IF closing THEN "free" ELSE "respawn"
      BY <1>1, <1>3, <1>5 DEF Seen, Dead
    <2>2. [q \in Slots |-> Seen(t, q)]'
             = [[q \in Slots |-> Seen(t, q)] EXCEPT ![p] = Seen(t, p)']
      BY <1>1, <1>3, SeenOne
    <2>3. IF closing THEN state'[t] = state[t] ELSE state'[t] = "restarting"
      BY <1>1, <1>2, <1>5 DEF Mapped, Typed, SupTypeOK
    <2> QED
      BY <1>1, <1>5, <2>1, <2>2, <2>3 DEF Worker!RespawnTimer
  <1> QED
    BY <1>4, <1>5

(* executeSelfChainedRespawn up to a schedule: the type may be marked        *)
(* restarting.                                                              *)
LEMMA WorkerRelease ==
  ASSUME Mapped, NEW t \in Types, NEW p \in Slots, ReleaseAttempt(p) \/ ProbeOwn(p)
  PROVE  Worker(t)!RespawnDecided(p) \/ UNCHANGED Worker(t)!workerVars
  <1> DEFINE u == kind[p]
  <1>1. /\ u \in Types /\ proc[p] = "gone" /\ chain[p] \in ReleaseStages \cup {"probe"}
        /\ UNCHANGED <<closing, child, kind, proc>>
        /\ state' = state \/ state' = [state EXCEPT ![u] = "restarting"]
    BY DEF ReleaseAttempt, ProbeOwn, ReleaseStages, AfterFailedRelease, ScheduleRespawn,
       procVars, Mapped, Typed, ProcTypeOK, ChainOfTheGone
  <1>2. \E stage \in ReleaseStages \cup {"probe", "spawn"} :
           chain' = [chain EXCEPT ![p] = stage]
    <2>1. CASE ReleaseAttempt(p)
      <3>1. \A s \in ReleaseStages : AfterFailedRelease[s] \in ReleaseStages \cup {"probe"}
        BY DEF ReleaseStages, AfterFailedRelease
      <3> QED
        BY <2>1, <3>1 DEF ReleaseAttempt, ScheduleRespawn
    <2>2. CASE ProbeOwn(p)
      BY <2>2 DEF ProbeOwn, ScheduleRespawn
    <2> QED
      BY <2>1, <2>2
  <1>3. chain'[p] \in ReleaseStages \cup {"probe", "spawn"}
    BY <1>2 DEF Mapped, Typed, ChainTypeOK
  <1>4. \A q \in Slots : q # p => proc'[q] = proc[q] /\ chain'[q] = chain[q]
    BY <1>1, <1>2 DEF Mapped, Typed, ChainTypeOK
  <1>5. u = t => Seen(t, p) = "respawn" /\ Seen(t, p)' = "respawn"
    BY <1>1, <1>3 DEF Seen, Dead, ReleaseStages, AfterFailedRelease
  <1>6. \A q \in Slots : Seen(t, q)' = Seen(t, q)
    <2>1. \A q \in Slots : q # p \/ u # t => Seen(t, q)' = Seen(t, q)
      BY <1>1, <1>4, SeenOne
    <2> QED
      BY <1>5, <2>1
  <1>7. /\ child'[t] = child[t]
        /\ state'[t] = state[t] \/ (u = t /\ state'[t] = "restarting")
    BY <1>1 DEF Mapped, Typed, SupTypeOK
  <1>8. CASE state'[t] = state[t]
    BY <1>1, <1>6, <1>7, <1>8, WorkerKept
  <1>9. CASE u = t /\ state'[t] = "restarting"
    <2>1. /\ Seen(t, p) = "respawn" /\ UNCHANGED closing
          /\ (child[t] # NoChild)' = (child[t] # NoChild)
          /\ [q \in Slots |-> Seen(t, q)]' = [q \in Slots |-> Seen(t, q)]
      BY <1>1, <1>5, <1>6, <1>7, <1>9
    <2> QED
      BY <1>9, <2>1 DEF Worker!RespawnDecided
  <1> QED
    BY <1>7, <1>8, <1>9

LEMMA WorkerForeign ==
  ASSUME Mapped, NEW t \in Types, NEW p \in Slots, ProbeForeign(p)
  PROVE  Worker(t)!RespawnDecided(p) \/ UNCHANGED Worker(t)!workerVars
  <1> DEFINE u == kind[p]
  <1>1. /\ u \in Types /\ proc[p] = "gone" /\ chain[p] = "probe"
        /\ state' = [state EXCEPT ![u] = "crashed"]
        /\ proc' = [proc EXCEPT ![p] = "free"] /\ chain' = [chain EXCEPT ![p] = "none"]
        /\ UNCHANGED <<closing, child, kind>>
    BY DEF ProbeForeign, ChainEnds, Mapped, Typed, ProcTypeOK, ChainOfTheGone
  <1>2. /\ \A q \in Slots : q # p => proc'[q] = proc[q] /\ chain'[q] = chain[q]
        /\ proc'[p] = "free" /\ chain'[p] = "none"
    BY <1>1 DEF Mapped, Typed, ProcTypeOK, ChainTypeOK
  <1>3. CASE u # t
    <2>1. state'[t] = state[t] /\ child'[t] = child[t]
      BY <1>1, <1>3 DEF Mapped, Typed, SupTypeOK
    <2> QED
      BY <1>1, <1>2, <1>3, <2>1, SeenOne, WorkerKept
  <1>4. CASE u = t
    <2>1. Seen(t, p) = "respawn" /\ Seen(t, p)' = "free"
      BY <1>1, <1>2, <1>4 DEF Seen, Dead
    <2>2. [q \in Slots |-> Seen(t, q)]'
             = [[q \in Slots |-> Seen(t, q)] EXCEPT ![p] = Seen(t, p)']
      BY <1>1, <1>2, SeenOne
    <2>3. state'[t] = "crashed" /\ child'[t] = child[t]
      BY <1>1, <1>4 DEF Mapped, Typed, SupTypeOK
    <2> QED
      BY <1>1, <2>1, <2>2, <2>3 DEF Worker!RespawnDecided
  <1> QED
    BY <1>3, <1>4

LEMMA WorkerRespawn ==
  ASSUME Mapped, NEW t \in Types, NEW p \in Slots, RespawnNow(p)
  PROVE  IF kind[p] = t THEN Worker(t)!Respawn(p) ELSE UNCHANGED Worker(t)!workerVars
  <1> DEFINE u == kind[p]
  <1>1. /\ u \in Types /\ proc[p] = "gone" /\ chain[p] = "spawn"
        /\ chain' = [chain EXCEPT ![p] = "none"] /\ UNCHANGED closing
    BY DEF RespawnNow, ChainEnds, Mapped, Typed, ProcTypeOK, ChainOfTheGone
  <1>2. /\ \A q \in Slots : q # p => chain'[q] = chain[q]
        /\ chain'[p] = "none"
    BY <1>1 DEF Mapped, Typed, ChainTypeOK
  <1>3. u = t => Seen(t, p) = "respawn"
    BY <1>1 DEF Seen, Dead
  <1>4. CASE closing
    <2>1. /\ state' = [state EXCEPT ![u] = "stopped"] /\ UNCHANGED <<child, kind>>
          /\ proc' = [proc EXCEPT ![p] = "free"]
      BY <1>4 DEF RespawnNow
    <2>2. /\ proc'[p] = "free"
          /\ \A q \in Slots : q # p => proc'[q] = proc[q] /\ chain'[q] = chain[q]
      BY <1>2, <2>1 DEF Mapped, Typed, ProcTypeOK
    <2>3. CASE u # t
      <3>1. state'[t] = state[t] /\ child'[t] = child[t]
        BY <2>1, <2>3 DEF Mapped, Typed, SupTypeOK
      <3> QED
        BY <1>1, <2>1, <2>2, <2>3, <3>1, SeenOne, WorkerKept
    <2>4. CASE u = t
      <3>1. Seen(t, p)' = "free"
        BY <1>2, <2>1, <2>2, <2>4 DEF Seen, Dead
      <3>2. [q \in Slots |-> Seen(t, q)]'
               = [[q \in Slots |-> Seen(t, q)] EXCEPT ![p] = Seen(t, p)']
        BY <2>1, <2>2, SeenOne
      <3>3. state'[t] = "stopped" /\ child'[t] = child[t]
        BY <2>1, <2>4 DEF Mapped, Typed, SupTypeOK
      <3> QED
        BY <1>1, <1>3, <1>4, <2>4, <3>1, <3>2, <3>3 DEF Worker!Respawn
    <2> QED
      BY <2>3, <2>4
  <1>5. CASE ~closing
    <2>1. PICK q \in Slots : Spawn(u, q, [proc EXCEPT ![p] = "free"])
      BY <1>5 DEF RespawnNow
    <2>2. /\ child' = [child EXCEPT ![u] = q] /\ state' = [state EXCEPT ![u] = "running"]
          /\ ForkOf(u, q, {p})
      BY <1>1, <1>2, <2>1 DEF Spawn, ForkOf, Mapped, Typed, ProcTypeOK
    <2>3. /\ u # t => \A r \in Slots : Seen(t, r)' = Seen(t, r)
          /\ u = t =>
               /\ Seen(t, q) = "free" \/ q = p
               /\ \A r \in Slots :
                    Seen(t, r)' = IF r = q THEN "alive"
                                  ELSE IF r = p THEN "free" ELSE Seen(t, r)
      <3> HIDE DEF u
      <3>1. PICK back \in SUBSET Slots : back = {p}
        OBVIOUS
      <3>2. ForkOf(u, q, back)
        BY <2>2, <3>1
      <3>3. /\ u # t => \A r \in Slots : Seen(t, r)' = Seen(t, r)
            /\ u = t =>
                 /\ Seen(t, q) = "free" \/ q \in back
                 /\ \A r \in Slots :
                      Seen(t, r)' = IF r = q THEN "alive"
                                    ELSE IF r \in back THEN "free" ELSE Seen(t, r)
        BY <1>1, <3>2, SeenFork
      <3>4. \A r : r \in back <=> r = p
        BY <3>1
      <3> QED
        BY <3>3, <3>4
    <2>4. CASE u # t
      <3>1. state'[t] = state[t] /\ child'[t] = child[t]
        BY <2>2, <2>4 DEF Mapped, Typed, SupTypeOK
      <3> QED
        BY <1>1, <2>3, <2>4, <3>1, WorkerKept
    <2>5. CASE u = t
      <3>1. state'[t] = "running" /\ child'[t] # NoChild
        BY <2>2, <2>5, SupervisorAssumption DEF Mapped, Typed, SupTypeOK
      <3>2. Worker(t)!Fork({p})
        <4> DEFINE now == [r \in Slots |-> Seen(t, r)]
        <4>1. /\ now[q] = "free" \/ q \in {p}
              /\ now' = [r \in Slots |-> IF r = q THEN "alive"
                                         ELSE IF r \in {p} THEN "free" ELSE now[r]]
          BY <2>3, <2>5
        <4>2. (child[t] # NoChild)' = TRUE
          BY <3>1
        <4> QED
          BY <1>1, <3>1, <4>1, <4>2 DEF Worker!Fork
      <3> QED
        BY <1>3, <1>5, <2>5, <3>2 DEF Worker!Respawn
    <2> QED
      BY <2>4, <2>5
  <1> QED
    BY <1>4, <1>5

LEMMA WorkerIpc ==
  ASSUME Mapped, NEW t \in Types, NEW p \in Slots, DeliverIpc(p)
  PROVE  Worker(t)!InitiateRestart \/ UNCHANGED Worker(t)!workerVars
  <1> DEFINE u == kind[p]
  <1>1. /\ u \in Types /\ UNCHANGED <<closing, child, kind, proc, chain>>
        /\ state' = state \/ (child[u] # NoChild /\ state' = [state EXCEPT ![u] = "restarting"])
    BY DEF DeliverIpc, NotifyJobCompleted, InitiateRestart, chainVars, Mapped, Typed, ProcTypeOK
  <1>2. \A q \in Slots : Seen(t, q)' = Seen(t, q)
    BY <1>1, SeenKept
  <1>3. /\ child'[t] = child[t]
        /\ state'[t] = state[t]
             \/ (u = t /\ child[t] # NoChild /\ state'[t] = "restarting")
    BY <1>1 DEF Mapped, Typed, SupTypeOK
  <1>4. CASE state'[t] = state[t]
    BY <1>1, <1>2, <1>3, <1>4, WorkerKept
  <1>5. CASE child[t] # NoChild /\ state'[t] = "restarting"
    <2>1. /\ [q \in Slots |-> Seen(t, q)]' = [q \in Slots |-> Seen(t, q)]
          /\ (child[t] # NoChild)' = (child[t] # NoChild)
      BY <1>2, <1>3
    <2> QED
      BY <1>1, <1>5, <2>1 DEF Worker!InitiateRestart
  <1> QED
    BY <1>3, <1>4, <1>5

(* A process that ends stays in the table until its exit is handled; an     *)
(* orphan belongs to no supervisor.                                         *)
LEMMA WorkerEnds ==
  ASSUME Mapped, NEW t \in Types, NEW p \in Slots, Leave(p) \/ Crash(p) \/ OrphanEnds(p)
  PROVE  UNCHANGED Worker(t)!workerVars
  <1>1. /\ UNCHANGED <<closing, state, child, kind, chain>>
        /\ \/ /\ Present(p)
              /\ \E how \in {"exited", "aborted"} : proc' = [proc EXCEPT ![p] = how]
           \/ proc[p] = "orphan" /\ proc' = [proc EXCEPT ![p] = "free"]
    BY DEF Leave, Crash, Die, OrphanEnds, supVars, chainVars, Present
  <1>2. \A q \in Slots : q # p => proc'[q] = proc[q]
    BY <1>1 DEF Mapped, Typed, ProcTypeOK
  <1>3. \/ Present(p) /\ Present(p)'
        \/ proc[p] = "orphan" /\ proc'[p] = "free"
    BY <1>1 DEF Mapped, Typed, ProcTypeOK, Present, Dead
  <1>4. Seen(t, p)' = Seen(t, p)
    BY <1>1, <1>3 DEF Seen, Present, Dead
  <1>5. \A q \in Slots : Seen(t, q)' = Seen(t, q)
    BY <1>1, <1>2, <1>4, SeenKept
  <1> QED
    BY <1>1, <1>5, WorkerKept

LEMMA WorkerShutdown ==
  ASSUME Mapped, NEW t \in Types, Shutdown
  PROVE  Worker(t)!Shutdown
  <1>1. /\ closing' = TRUE /\ UNCHANGED <<child, proc, kind, chain>>
        /\ state'[t] = IF child[t] # NoChild THEN state[t] ELSE "stopped"
    BY DEF Shutdown, chainVars
  <1>2. \A q \in Slots : Seen(t, q)' = Seen(t, q)
    BY <1>1, SeenKept
  <1> QED
    BY <1>1, <1>2 DEF Worker!Shutdown

LEMMA WorkerGone ==
  ASSUME Mapped, NEW t \in Types, ServerGone
  PROVE  Worker(t)!ServerGone
  <1>1. /\ closing' = FALSE /\ state'[t] = "idle" /\ child'[t] = NoChild
        /\ \A q \in Slots : proc'[q] \in {"free", "orphan"} /\ chain'[q] = "none"
    BY DEF ServerGone, EveryType, EverySlot, Mapped, Typed, ProcTypeOK
  <1>2. \A q \in Slots : Seen(t, q)' = "free"
    BY <1>1 DEF Seen, Dead
  <1>3. (child[t] # NoChild)' = FALSE
    BY <1>1
  <1> QED
    BY <1>1, <1>2, <1>3 DEF Worker!ServerGone

LEMMA WorkerHidden ==
  ASSUME NEW t \in Types, UNCHANGED <<closing, state, child, proc, kind, chain>>
  PROVE  UNCHANGED Worker(t)!workerVars
  BY SeenKept, WorkerKept

LEMMA WorkerInit ==
  ASSUME Init, NEW t \in Types
  PROVE  Worker(t)!Init
  <1>1. \A q \in Slots : Seen(t, q) = "free"
    BY DEF Init, EverySlot, Seen, Dead
  <1>2. (child[t] # NoChild) = FALSE
    BY DEF Init, EveryType
  <1> QED
    BY <1>1, <1>2 DEF Init, EveryType, Worker!Init

LEMMA WorkerNext ==
  ASSUME Mapped, [Next]_vars, NEW t \in Types
  PROVE  [Worker(t)!Next]_(Worker(t)!workerVars)
  <1>1. ASSUME NEW u \in Types, EnsureWorkerRunning(u)
        PROVE  [Worker(t)!Next]_(Worker(t)!workerVars)
    BY <1>1, WorkerEnsure DEF Worker!Next
  <1>2. ASSUME NEW p \in Slots, HandleWorkerExit(p) \/ RespawnTimer(p) \/ RespawnNow(p)
        PROVE  [Worker(t)!Next]_(Worker(t)!workerVars)
    BY <1>2, WorkerExit, WorkerTimer, WorkerRespawn DEF Worker!Next, Worker!Step
  <1>3. ASSUME NEW p \in Slots, ReleaseAttempt(p) \/ ProbeOwn(p) \/ ProbeForeign(p)
        PROVE  [Worker(t)!Next]_(Worker(t)!workerVars)
    BY <1>3, WorkerRelease, WorkerForeign DEF Worker!Next, Worker!Step
  <1>4. ASSUME NEW p \in Slots, DeliverIpc(p)
        PROVE  [Worker(t)!Next]_(Worker(t)!workerVars)
    BY <1>4, WorkerIpc DEF Worker!Next, Worker!Step
  <1>5. ASSUME NEW p \in Slots, Leave(p) \/ Crash(p) \/ OrphanEnds(p)
        PROVE  UNCHANGED Worker(t)!workerVars
    BY <1>5, WorkerEnds
  <1>6. CASE Shutdown \/ ServerExit \/ ServerCrash
    BY <1>6, WorkerShutdown, WorkerGone DEF ServerExit, ServerCrash, Worker!Next
  <1>7. CASE \/ \E u \in Types :
                  \/ AcquireGranted(u) \/ AcquireRefused(u) \/ AcquireFailed(u)
                  \/ ShutdownRelease(u) \/ ShutdownClose(u) \/ LeaseLapses(u)
             \/ \E p \in Slots : CompleteJob(p)
             \/ \E m \in Manuals : ManualAction(m)
             \/ ServerStart \/ Tick \/ UNCHANGED vars
    <2>1. UNCHANGED <<closing, state, child, proc, kind, chain>>
      BY <1>7 DEF AcquireGranted, AcquireRefused, AcquireFailed, ShutdownRelease,
         ShutdownClose, LeaseLapses, CompleteJob, ManualAction, ManualFailOpen,
         ManualProbe, ManualClaim, ManualStop, ServerStart, Tick, vars, supVars, procVars,
         chainVars
    <2> QED
      BY <2>1, WorkerHidden
  <1> QED
    BY <1>1, <1>2, <1>3, <1>4, <1>5, <1>6, <1>7 DEF Next, TypeAction, ProcAction

(* Whenever tool calls arrive, in the window before a respawn timer and      *)
(* while the server closes too, each worker type of the supervisor lives     *)
(* the life of WorkerLife: its state, its entry in the children map and its  *)
(* processes change together, as that module lets them.                      *)
THEOREM EachWorkerCorrect == Spec => EachWorkerLives
  <1>1. Init => Typed /\ ChainOfTheGone /\ \A t \in Types : Worker(t)!Init
    BY TypedInit, LifeInit, WorkerInit DEF Life
  <1>2. Typed /\ ChainOfTheGone /\ [Next]_vars => (Typed /\ ChainOfTheGone)'
    BY TypedNext, ChainNext
  <1>3. Typed /\ ChainOfTheGone /\ (Typed /\ ChainOfTheGone)' /\ [Next]_vars
          => [\A t \in Types : [Worker(t)!Next]_(Worker(t)!workerVars)]_vars
    BY WorkerNext DEF Mapped
  <1> QED
    BY <1>1, <1>2, <1>3, PTL DEF Spec, EachWorkerLives
=============================================================================
