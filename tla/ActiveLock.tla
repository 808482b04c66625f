----------------------------- MODULE ActiveLock -----------------------------
(***************************************************************************)
(* The active-worker lock that WorkerActiveLockService keeps in Redis      *)
(* (services/worker-active-lock.service.ts): one key per worker type whose *)
(* value is the nonce of the process that claimed it, with a time to live. *)
(*                                                                         *)
(* Time is counted in heartbeat intervals of 30 s (LOCK_HEARTBEAT_INTERVAL *)
(* _MS), so the TTL of 60 s is LeaseTicks = 2.  lease[t] = k means that    *)
(* the key of t expires somewhere in the k-th interval from now.           *)
(*                                                                         *)
(* The operators below are the commands a client sends; each is atomic, as *)
(* a single Redis command or Lua script is.                                *)
(*                                                                         *)
(* A definition D_What is a mutant of D: the bug that What names, to show   *)
(* that a property can tell the difference.                                *)
(***************************************************************************)
EXTENDS Naturals

CONSTANTS
    Types,       \* the worker types, one lock key each
    NoOwner,     \* the key does not exist
    LeaseTicks   \* TTL divided by the heartbeat interval

VARIABLES owner, lease

lockVars == <<owner, lease>>

Init ==
    /\ owner = [t \in Types |-> NoOwner]
    /\ lease = [t \in Types |-> 0]

Acquire_NoNX(t, n) ==
    /\ owner' = [owner EXCEPT ![t] = n]
    /\ lease' = [lease EXCEPT ![t] = LeaseTicks]

(* SET key nonce EX 60 NX answered OK. *)
Acquire(t, n) ==
    /\ owner[t] = NoOwner
    /\ owner' = [owner EXCEPT ![t] = n]
    /\ lease' = [lease EXCEPT ![t] = LeaseTicks]

(* SET ... NX answered nil: reason already_held, whoever holds the key. *)
AlreadyHeld(t) ==
    /\ owner[t] # NoOwner
    /\ UNCHANGED lockVars

Release_NoNonceCheck(t, n) ==
    /\ owner[t] # NoOwner
    /\ owner' = [owner EXCEPT ![t] = NoOwner]
    /\ lease' = [lease EXCEPT ![t] = 0]

(* RELEASE_LUA deletes the key only when its value is the caller's nonce. *)
Release(t, n) ==
    /\ owner[t] = n
    /\ owner' = [owner EXCEPT ![t] = NoOwner]
    /\ lease' = [lease EXCEPT ![t] = 0]

(* RELEASE_LUA found no key or another value and returned 0. *)
ReleaseRefused(t, n) ==
    /\ owner[t] # n
    /\ UNCHANGED lockVars

(* extendLock's script refreshes the TTL only for the nonce that holds it. *)
Extended(t, served) == <<t, owner[t]>> \in served

Elapse_NoExpiry(served) == UNCHANGED lockVars

(* One heartbeat interval passes.  served holds the <<type, nonce>> pairs *)
(* whose extendLock reached Redis in it; other leases run down.           *)
Elapse(served) ==
    /\ owner' = [t \in Types |->
                    IF lease[t] <= 1 /\ ~Extended(t, served)
                    THEN NoOwner ELSE owner[t]]
    /\ lease' = [t \in Types |->
                    IF owner[t] = NoOwner THEN 0
                    ELSE IF Extended(t, served) THEN LeaseTicks ELSE lease[t] - 1]

(* A lease in its last interval may end before the next heartbeat arrives: *)
(* the TTL is exactly two intervals, so the second heartbeat races it.     *)
Lapse(t) ==
    /\ lease[t] = 1
    /\ owner' = [owner EXCEPT ![t] = NoOwner]
    /\ lease' = [lease EXCEPT ![t] = 0]
=============================================================================
